------------------------------ MODULE Sandbox ------------------------------
(***************************************************************************)
(* The lifecycle of one sandbox: its row in PostgreSQL, its booking and    *)
(* tombstones, the ops that the ferund instances run on it, and its pods   *)
(* on the nodes (go/internal/sandbox, go/internal/store).                  *)
(*                                                                         *)
(* An op is begun in one transaction (begin.go), calls its target node and *)
(* observes the pod there (op.go), and is finished or rolled back in       *)
(* another (finish.go).  The row names at most one op, by a fresh op id;   *)
(* an op whose id is not the row's any more is fenced out.  Whatever is    *)
(* between two transactions may be late, lost or repeated: the calls in    *)
(* flight are the set calls, an instance may die, hang or be taken for     *)
(* dead, the answer of a COMMIT may be lost.                               *)
(*                                                                         *)
(* Beside the ops, syncs and reconciles apply what a node says (sync.go,   *)
(* reconcile.go), tombstones are processed (tombstone.go), and the leader  *)
(* moves the sandboxes of down nodes (loops.go, store/sandboxes.go).  The  *)
(* leader's fence is module Leader's concern; here any instance may lead.  *)
(*                                                                         *)
(* The row's gen counts its lifecycle writes.  It is only ever compared    *)
(* with the gen a reader saw before, so the readers (looks) keep a flag    *)
(* that every lifecycle write clears.                                      *)
(***************************************************************************)
EXTENDS Pod

CONSTANTS
    Instances,  \* ferund instances
    Nodes,      \* nodes of the fleet
    None,       \* no node, no instance, no op id
    Kinds,      \* the op kinds that are begun
    OpIds,      \* bound: the op ids in use at a time; a new one is fresh
    Lookers,    \* bound: syncs and reconciles under way at a time
    Reapers,    \* bound: tombstones being processed at a time, by any instances
    MaxFaults   \* bound: deaths, false suspicions, lost answers, lost nodes

OpKinds == {"create", "start", "resume", "restore", "pause", "hibernate"}

ASSUME SandboxConstants ==
    /\ None \notin Instances \cup Nodes \cup OpIds
    /\ Kinds \subseteq OpKinds
    /\ MaxFaults \in Nat

VARIABLES
    row,        \* the sandbox's row; NoRow when it is deleted
    booking,    \* the node its booking is on, or None
    tombs,      \* pod_tombstones: a set of [node, inc]
    incs,       \* incarnations created so far
    known,      \* history: "yes" once the row's incarnation had a pod seen
    handles,    \* the ops in flight, by op id
    reg,        \* runner.ops: the op id each instance has registered, or None
    proc,       \* the instances' processes: "up", "stopping", "refusing", "down"
    live,       \* instances' rows fresh and not stopping: "yes" or "no"
    calls,      \* calls on their way to a node, or being served by it
    pods,       \* the pod each node holds
    status,     \* nodes.status: "ready" or "down"
    looks,      \* syncs and reconciles between their reads and their write
    reaps,      \* tombstones between GetPod, DeletePod and their drop
    faults

db == <<row, booking, tombs, incs, known>>
runners == <<handles, reg, proc, live>>
fleet == <<calls, pods, status>>
vars == <<db, runners, fleet, looks, reaps, faults>>

-----------------------------------------------------------------------------
ClientStates == {"pending", "creating", "running", "pausing", "paused", "resuming",
                 "hibernating", "hibernated", "stopped", "lost", "unknown"}
YesNo == {"yes", "no"}
Places == Nodes \cup {None}

RowRecord ==
    [inc : Incs, state : ClientStates, node : Places, mat : YesNo, lost : Places, ckpt : Epochs,
     op : OpKinds \cup {""}, opId : OpIds \cup {None}, owner : Instances \cup {None}, target : Places,
     from : ClientStates \cup {""}]

NoRow ==
    [inc |-> 0, state |-> "", node |-> None, mat |-> "no", lost |-> None, ckpt |-> 0,
     op |-> "", opId |-> None, owner |-> None, target |-> None, from |-> ""]

NewRow(inc) == [NoRow EXCEPT !.inc = inc, !.state = "pending"]

Gone == row.inc = 0

Handle ==
    [step : {"begun", "sent", "done"}, inst : Instances, kind : OpKinds, inc : Incs, target : Nodes,
     taken : YesNo, state : ClientStates \cup {""}, node : Places, lost : Places, mat : YesNo,
     tombs : SUBSET Nodes, ckpt : Epochs, answer : Epochs, obs : Answer]

NoHandle ==
    [step |-> "none", inst |-> None, kind |-> "", inc |-> 0, target |-> None,
     taken |-> "no", state |-> "", node |-> None, lost |-> None, mat |-> "no",
     tombs |-> {}, ckpt |-> 0, answer |-> 0, obs |-> Unanswered]

Call == [kind : OpKinds, node : Nodes, inc : Incs, ckpt : Epochs, op : OpIds]

Look == [mode : {"sync", "list"}, node : Nodes, pod : PodRecord \cup {NoPod}, same : YesNo]
NoLook == [mode |-> "", node |-> None, pod |-> NoPod, same |-> "no"]

Reap == [step : {"delete", "drop"}, node : Nodes, inc : Incs]
NoReap == [step |-> "", node |-> None, inc |-> 0]

-----------------------------------------------------------------------------
(* Lifecycle writes. *)

Transitional(k) ==
    CASE k = "resume" -> "resuming" [] k = "pause" -> "pausing"
      [] k = "hibernate" -> "hibernating" [] OTHER -> "creating"

Admits(k) == k \in {"create", "start", "resume", "restore"}
Makes(k) == k \in {"create", "start", "resume", "restore"}

\* What the op columns hold without an op.
ClearOp(r) ==
    [r EXCEPT !.op = "", !.opId = None, !.owner = None, !.target = None, !.from = ""]

\* Mutants: the op goes, its state column is blank, or stays.
Released_Blank(r) == [ClearOp(r) EXCEPT !.state = ""]

Released_StateKept(r) == ClearOp(r)

\* An op given up on by another than its owner: its outcome is not known.
Released(r) == [ClearOp(r) EXCEPT !.state = "unknown"]

\* Mutant: the latest answer wins.
MergeCheckpoint_Latest(ckpt, ep) == ep

MergeCheckpoint(ckpt, ep) == IF ep > ckpt THEN ep ELSE ckpt

ClientState ==
    [st \in PodStates |->
        CASE st = "PENDING" -> "creating" [] st = "RUNNING" -> "running"
          [] st = "SUSPENDED" -> "paused" [] st = "HIBERNATED" -> "hibernated"
          [] st = "STOPPED" -> "stopped"]

\* The row's own pod p, seen on node n.
Seen(r, n, p) ==
    [r EXCEPT !.node = n, !.mat = "yes", !.lost = None,
              !.ckpt = MergeCheckpoint(r.ckpt, p.ep), !.state = ClientState[p.st]]

\* Mutant: a pod that was seen is forgotten.
NotFound_Forgets(r) ==
    IF r.ckpt > 0 THEN [r EXCEPT !.state = "hibernated", !.node = None, !.mat = "no"]
    ELSE [r EXCEPT !.state = "pending", !.node = None, !.mat = "no"]

\* The row's node does not hold its pod.
NotFound(r) ==
    CASE r.ckpt > 0 -> [r EXCEPT !.state = "hibernated", !.node = None, !.mat = "no"]
      [] r.ckpt = 0 /\ r.mat = "yes" -> [r EXCEPT !.state = "lost"]
      [] OTHER -> [r EXCEPT !.state = "pending", !.node = None, !.mat = "no"]

\* Sync and reconcile: what node n said of the pod.
Observed(r, n, p) == IF Ours(p, r.inc) THEN Seen(r, n, p) ELSE NotFound(r)

\* A pod of another incarnation is a stale record, to be deleted.
StaleRecord(r, n, p) == IF Stale(p, r.inc) THEN {[node |-> n, inc |-> p.inc]} ELSE {}

MustBook == {"creating", "running", "pausing", "resuming"}
KeepBook == {"hibernating", "unknown"}

\* Mutant: a booking is never given up.
SyncBooking_Keeps(r, b) == IF r.state \in MustBook /\ r.node # None THEN r.node ELSE b

\* The booking follows the state the row r is written in; b is the booking
\* there is.
SyncBooking(r, b) ==
    CASE r.state \in MustBook /\ r.node # None -> r.node
      [] r.state \in MustBook /\ r.node = None -> b
      [] r.state \in KeepBook -> b
      [] OTHER -> None

\* A reader whose row changed: a sync is over (it reads again, or gives up); a
\* reconcile has only the pods it listed left to look at.
Overtaken(k) ==
    IF k.mode = "list" /\ Found(k.pod) THEN [k EXCEPT !.same = "no"] ELSE NoLook

\* Every column but lost_from is a lifecycle column.
SameGen(r) == [r EXCEPT !.lost = row.lost] = row

\* The row becomes r: UpdateSandbox bumps gen when a lifecycle column
\* differs, which the readers notice at their own write.
Write(r) ==
    /\ row' = r
    /\ known' = IF r.inc # row.inc THEN "no" ELSE IF r.mat = "yes" THEN "yes" ELSE known
    /\ looks' = IF SameGen(r) THEN looks ELSE [l \in Lookers |-> Overtaken(looks[l])]

\* The same, by the reader l, which ends.
WriteBy(l, r) ==
    /\ row' = r
    /\ known' = IF r.mat = "yes" THEN "yes" ELSE known
    /\ looks' = [m \in Lookers |-> IF m = l THEN NoLook
                                   ELSE IF SameGen(r) THEN looks[m] ELSE Overtaken(looks[m])]

\* A change with the booking that follows it (change.commit).
Commit(r) == Write(r) /\ booking' = SyncBooking(r, booking)

Fault == faults < MaxFaults /\ faults' = faults + 1

-----------------------------------------------------------------------------
(* The sandbox's rows: the API's create, and delete. *)

CreateSandbox ==
    /\ Gone /\ incs < MaxInc
    /\ incs' = incs + 1
    /\ Write(NewRow(incs + 1))
    /\ UNCHANGED <<booking, tombs, runners, fleet, reaps, faults>>

\* A tombstone for every node a pod of the incarnation may be on.
Delete ==
    /\ ~Gone
    /\ tombs' = tombs \cup {[node |-> n, inc |-> row.inc] :
                                n \in {row.node, row.target, row.lost} \ {None}}
    /\ Write(NoRow)
    /\ booking' = None
    /\ UNCHANGED <<incs, runners, fleet, reaps, faults>>

-----------------------------------------------------------------------------
(* Begin. *)

\* An instance that was told to stop still begins the ops that its requests
\* need, until its runner refuses them.
Serving(i) == proc[i] \in {"up", "stopping"}

FreeOps == {o \in OpIds : /\ handles[o].step = "none" /\ row.opId # o
                          /\ \A c \in calls : c.op # o}

\* The preconditions of an op on node n; a drain hibernates a running or
\* stopped sandbox too.
Precheck(k, n) ==
    CASE k = "create"    -> row.state = "pending"
      [] k = "start"     -> row.state = "stopped" /\ row.node = n
      [] k = "resume"    -> row.state = "paused" /\ row.node = n
      [] k = "restore"   -> row.state = "hibernated" /\ row.ckpt > 0
      [] k = "pause"     -> row.state = "running" /\ row.node = n
      [] k = "hibernate" -> row.state \in {"paused", "stopped", "running"} /\ row.node = n

\* Mutant: a node with a tombstone of the pod takes it.
Claim_Tombstoned(k, n) == status[n] = "ready"

\* The gates of a claim that are about this sandbox; capacity refuses or not.
Claim(k, n) ==
    /\ status[n] = "ready"
    /\ k \in {"create", "restore"} => \A t \in tombs : t.node # n

\* A restore makes a pod stale on the node that holds the record, and on the
\* one that lost grace left it on.
Leaves(k, n) ==
    IF k = "restore"
    THEN {m \in {row.node, row.lost} \ {None, n} : [node |-> m, inc |-> row.inc] \notin tombs}
    ELSE {}

Begun(i, k, n, o) ==
    LET moved == k \in {"create", "restore"} /\ row.node # n
    IN  [inc |-> row.inc, state |-> Transitional(k),
         node |-> IF k \in {"create", "restore"} THEN n ELSE row.node,
         mat |-> IF moved THEN "no" ELSE row.mat,
         lost |-> IF moved THEN None ELSE row.lost,
         ckpt |-> row.ckpt, op |-> k, opId |-> o, owner |-> i, target |-> n, from |-> row.state]

\* What the op of the row r, begun or taken over, keeps for its call and for
\* a rollback.
NewHandle(i, k, n, r, taken, leaves) ==
    [step |-> "begun", inst |-> i, kind |-> k, inc |-> r.inc, target |-> n,
     taken |-> taken, state |-> r.state, node |-> r.node, lost |-> r.lost, mat |-> r.mat,
     tombs |-> leaves, ckpt |-> IF k = "restore" THEN r.ckpt ELSE 0,
     answer |-> 0, obs |-> Unanswered]

\* An instance joins the op it has registered for the incarnation instead of
\* beginning one.
Joins(i) == reg[i] # None /\ handles[reg[i]].inc = row.inc

BeginTx(i, k, n, o) ==
    /\ Serving(i) /\ ~Gone /\ row.op = "" /\ ~Joins(i)
    /\ Precheck(k, n)
    /\ Admits(k) => Claim(k, n)
    /\ tombs' = tombs \cup {[node |-> m, inc |-> row.inc] : m \in Leaves(k, n)}
    /\ Write(Begun(i, k, n, o))
    /\ booking' = SyncBooking(Begun(i, k, n, o), IF Admits(k) THEN n ELSE booking)
    /\ UNCHANGED <<incs, proc, live, fleet, reaps>>

Begin(i, k, n, o) ==
    /\ o \in FreeOps
    /\ BeginTx(i, k, n, o)
    /\ handles' = [handles EXCEPT ![o] = NewHandle(i, k, n, row, "no", Leaves(k, n))]
    /\ reg' = [reg EXCEPT ![i] = o]
    /\ UNCHANGED faults

\* The COMMIT's answer was lost, and the row could not be read then: the op
\* is this instance's and nobody runs it.
BeginLost(i, k, n, o) ==
    /\ o \in FreeOps /\ Fault
    /\ BeginTx(i, k, n, o)
    /\ UNCHANGED <<handles, reg>>

\* Mutant: an instance takes every op the row says is its own for running.
Orphaned_NotOwn(i) == row.op # "" /\ row.owner # i /\ live[row.owner] = "no"

\* The row's op is orphaned: its owner is not live, or is i, which does not
\* run it.
Orphaned(i) ==
    /\ row.op # ""
    /\ IF row.owner = i THEN reg[i] # row.opId ELSE live[row.owner] = "no"

\* Mutant: the op goes on under its old id, which its first owner still has.
Takeover_SameId(i, o) ==
    /\ Serving(i) /\ Orphaned(i) /\ o \in FreeOps
    /\ Write([row EXCEPT !.owner = i])
    /\ handles' = [handles EXCEPT ![o] =
                     NewHandle(i, row.op, row.target, [row EXCEPT !.state = row.from], "yes", {})]
    /\ reg' = [reg EXCEPT ![i] = o]
    /\ UNCHANGED <<booking, tombs, incs, proc, live, fleet, reaps, faults>>

\* The same op towards the same target under a new op id; nothing else is
\* written.
Takeover(i, o) ==
    /\ Serving(i) /\ Orphaned(i) /\ o \in FreeOps
    /\ Write([row EXCEPT !.opId = o, !.owner = i])
    /\ handles' = [handles EXCEPT ![o] =
                     NewHandle(i, row.op, row.target, [row EXCEPT !.state = row.from], "yes", {})]
    /\ reg' = [reg EXCEPT ![i] = o]
    /\ UNCHANGED <<booking, tombs, incs, proc, live, fleet, reaps, faults>>

\* A resume in the place of a paused sandbox's hibernate, whoever owns it:
\* the node said before that a resume abandons the hibernation.  What the
\* node said may be stale by now, so that any such hibernate is preempted.
Preempt(i, o) ==
    LET n == row.node
        r == [row EXCEPT !.op = "resume", !.opId = o, !.owner = i, !.state = "resuming"]
    IN  /\ Serving(i) /\ o \in FreeOps /\ "resume" \in Kinds
        /\ row.op = "hibernate" /\ row.from = "paused" /\ row.target = n
        /\ Joins(i) => reg[i] = row.opId
        /\ Claim("resume", n)
        /\ Write(r)
        /\ booking' = SyncBooking(r, n)
        /\ handles' = [handles EXCEPT ![o] =
                         NewHandle(i, "resume", n, [row EXCEPT !.state = "paused"], "yes", {})]
        /\ reg' = [reg EXCEPT ![i] = o]
        /\ UNCHANGED <<tombs, incs, proc, live, fleet, reaps, faults>>

-----------------------------------------------------------------------------
(* An op's goroutine: call, observe, end. *)

\* The op's call leaves for its target.  From now on there is no rollback, and
\* what the handle kept for one is not read any more.
Send(o) ==
    LET h == handles[o]
    IN  /\ h.step = "begun"
        /\ handles' = [handles EXCEPT ![o] =
                         [NoHandle EXCEPT !.step = "sent", !.inst = h.inst, !.kind = h.kind,
                                          !.inc = h.inc, !.target = h.target]]
        /\ calls' = calls \cup {[kind |-> h.kind, node |-> h.target, inc |-> h.inc,
                                 ckpt |-> h.ckpt, op |-> o]}
        /\ UNCHANGED <<db, reg, proc, live, pods, status, looks, reaps, faults>>

\* What the target says of the pod when the op's wait ends, or nothing.
Observe(o) ==
    LET h == handles[o]
    IN  /\ h.step = "sent"
        /\ \E obs \in {pods[h.target], Unanswered} :
              handles' = [handles EXCEPT ![o] = [h EXCEPT !.step = "done", !.obs = obs]]
        /\ UNCHANGED <<db, reg, proc, live, fleet, looks, reaps, faults>>

\* The op ends: its goroutine leaves the runner.
Ends(o) ==
    /\ handles' = [handles EXCEPT ![o] = NoHandle]
    /\ reg' = [i \in Instances |-> IF reg[i] = o THEN None ELSE reg[i]]

FencedOut(o) == Gone \/ row.inc # handles[o].inc \/ row.opId # o

\* The outcome table: the observation decides, call errors never do.
Outcome(h) ==
    IF h.obs = Unanswered THEN Released(row)
    ELSE IF Ours(h.obs, h.inc) THEN Seen(ClearOp(row), h.target, h.obs)
    ELSE NotFound(ClearOp(row))

FinishOurs(o) ==
    LET h == handles[o]
    IN  /\ ~FencedOut(o)
        /\ tombs' = tombs \cup StaleRecord(row, h.target, h.obs)
        /\ Commit(Outcome(h))

\* A pod that the op may have made and no row places on the target.
Strays(h) ==
    Makes(h.kind) /\ (Gone \/ row.inc # h.inc \/ (row.node # h.target /\ row.target # h.target))

\* The checkpoints a fenced-out op saw: its hibernation's answer, its pod's.
Newest(h) == MergeCheckpoint(h.answer, IF Ours(h.obs, h.inc) THEN h.obs.ep ELSE 0)

FinishFenced(o) ==
    LET h == handles[o]
    IN  /\ FencedOut(o)
        /\ tombs' = IF Strays(h) THEN tombs \cup {[node |-> h.target, inc |-> h.inc]} ELSE tombs
        /\ Write(IF ~Strays(h) /\ ~Gone /\ row.inc = h.inc /\ row.node = h.target
                 THEN [row EXCEPT !.ckpt = MergeCheckpoint(@, Newest(h))]
                 ELSE row)
        /\ UNCHANGED booking

FinishTx(o) ==
    /\ handles[o].step = "done"
    /\ FinishOurs(o) \/ FinishFenced(o)
    /\ UNCHANGED <<incs, proc, live, fleet, reaps>>

Finish(o) == FinishTx(o) /\ Ends(o) /\ UNCHANGED faults

\* The COMMIT's answer was lost: retry finds the op fenced out by its own
\* first end.
FinishLost(o) == FinishTx(o) /\ ~FencedOut(o) /\ Fault /\ UNCHANGED <<handles, reg>>

\* Nothing was sent: no connection to the target, or its preparation failed.
RolledBack(h) ==
    IF h.taken = "yes" THEN Released(row)
    ELSE [ClearOp(row) EXCEPT !.state = h.state, !.node = h.node, !.lost = h.lost, !.mat = h.mat]

Rollback(o) ==
    LET h == handles[o]
    IN  /\ h.step = "begun"
        /\ IF FencedOut(o)
           THEN UNCHANGED <<row, known, looks, booking, tombs>>
           ELSE /\ tombs' = tombs \ {[node |-> n, inc |-> h.inc] : n \in h.tombs}
                /\ Commit(RolledBack(h))
        /\ Ends(o)
        /\ UNCHANGED <<incs, proc, live, fleet, reaps, faults>>

-----------------------------------------------------------------------------
(* The nodes. *)

\* The hibernations that a resume abandons, their later calls included: none,
\* or those of the pod it resumes.
Abandonable(c) ==
    IF c.kind = "resume" /\ pods[c.node].st = "SUSPENDED"
    THEN {d \in calls : d.kind = "hibernate" /\ d.node = c.node}
    ELSE {}

\* The node serves a call, maybe long after its op ended; the answer of a
\* hibernation that an op still waits for is its checkpoint.
Serve(c) ==
    /\ \E p \in Served(c, pods[c.node]), heard \in YesNo :
          /\ pods' = [pods EXCEPT ![c.node] = p]
          /\ handles' = IF /\ c.kind = "hibernate" /\ heard = "yes" /\ p.st = "HIBERNATED"
                           /\ handles[c.op].step = "sent"
                        THEN [handles EXCEPT ![c.op].answer = p.ep]
                        ELSE handles
    /\ \E given \in SUBSET Abandonable(c) : calls' = (calls \ {c}) \ given
    /\ UNCHANGED <<db, reg, proc, live, status, looks, reaps, faults>>

\* The call never reaches the node, or fails there.
Lose(c) ==
    /\ calls' = calls \ {c}
    /\ UNCHANGED <<db, runners, pods, status, looks, reaps, faults>>

BringUp(n) ==
    /\ pods[n].st = "PENDING"
    /\ \E st \in {"RUNNING", "STOPPED"} : pods' = [pods EXCEPT ![n].st = st]
    /\ UNCHANGED <<db, runners, calls, status, looks, reaps, faults>>

PodStops(n) ==
    /\ pods[n].st = "RUNNING"
    /\ pods' = [pods EXCEPT ![n].st = "STOPPED"]
    /\ UNCHANGED <<db, runners, calls, status, looks, reaps, faults>>

\* The node lost what it kept (a new disk, a new installation).
PodVanishes(n) ==
    /\ Found(pods[n]) /\ Fault
    /\ pods' = [pods EXCEPT ![n] = NoPod]
    /\ UNCHANGED <<db, runners, calls, status, looks, reaps>>

NodeDown(n) ==
    /\ status[n] = "ready" /\ Fault
    /\ status' = [status EXCEPT ![n] = "down"]
    /\ UNCHANGED <<db, runners, calls, pods, looks, reaps>>

NodeUp(n) ==
    /\ status[n] = "down"
    /\ status' = [status EXCEPT ![n] = "ready"]
    /\ UNCHANGED <<db, runners, calls, pods, looks, reaps, faults>>

-----------------------------------------------------------------------------
(* Sync and reconcile. *)

\* A sync reads the row and asks its node; the write goes only into the row
\* as read, so that the two reads are one step.
SyncRead(l) ==
    /\ looks[l] = NoLook /\ ~Gone /\ row.op = "" /\ row.node # None
    /\ looks' = [looks EXCEPT ![l] = [mode |-> "sync", node |-> row.node,
                                      pod |-> pods[row.node], same |-> "yes"]]
    /\ UNCHANGED <<db, runners, fleet, reaps, faults>>

\* A reconcile reads the rows on the node, then lists its pods.
ListPods(l, n) ==
    /\ looks[l] = NoLook
    /\ looks' = [looks EXCEPT ![l] = [mode |-> "list", node |-> n, pod |-> pods[n],
                                      same |-> IF row.node = n THEN "yes" ELSE "no"]]
    /\ UNCHANGED <<db, runners, fleet, reaps, faults>>

\* Applies what the node said to the row as it was read.
Apply(l) ==
    LET k == looks[l]
    IN  /\ tombs' = (tombs \cup StaleRecord(row, k.node, k.pod))
                        \ {t \in tombs : Ours(k.pod, row.inc) /\ t = [node |-> k.node, inc |-> row.inc]}
        /\ WriteBy(l, Observed(row, k.node, k.pod))
        /\ booking' = SyncBooking(Observed(row, k.node, k.pod), booking)

Abandon(l) ==
    looks' = [looks EXCEPT ![l] = NoLook] /\ UNCHANGED <<row, known, booking, tombs>>

SyncApply(l) ==
    /\ looks[l].mode = "sync"
    /\ Apply(l)
    /\ UNCHANGED <<incs, runners, fleet, reaps, faults>>

\* Mutant: a pod whose sandbox is deleted is nobody's concern.
Orphan_RowsOnly(k) ==
    /\ Found(k.pod) /\ ~Gone
    /\ \/ row.node # k.node /\ row.target # k.node
       \/ row.inc # k.pod.inc /\ row.op = ""

\* A listed pod that no row places on the node, or of another incarnation.
Orphan(k) ==
    /\ Found(k.pod)
    /\ \/ Gone
       \/ row.node # k.node /\ row.target # k.node
       \/ row.inc # k.pod.inc /\ row.op = ""

ReconcileApply(l) ==
    LET k == looks[l]
    IN  /\ k.mode = "list"
        /\ CASE Orphan(k) -> /\ tombs' = tombs \cup {[node |-> k.node, inc |-> k.pod.inc]}
                             /\ looks' = [looks EXCEPT ![l] = NoLook]
                             /\ UNCHANGED <<row, known, booking>>
             [] ~Orphan(k) /\ k.same = "yes" /\ row.op = "" -> Apply(l)
             [] OTHER -> Abandon(l)
        /\ UNCHANGED <<incs, runners, fleet, reaps, faults>>

-----------------------------------------------------------------------------
(* Tombstones. *)

\* GetPod: a pod that is gone, or of another incarnation, takes the tombstone
\* with it; one of its incarnation is deleted.
ReapGet(d, t) ==
    /\ reaps[d] = NoReap
    /\ reaps' = [reaps EXCEPT ![d] =
                   [step |-> IF Ours(pods[t.node], t.inc) THEN "delete" ELSE "drop",
                    node |-> t.node, inc |-> t.inc]]
    /\ UNCHANGED <<db, runners, fleet, looks, faults>>

\* DeletePod names the pod by its ID only.
ReapDelete(d) ==
    /\ reaps[d].step = "delete"
    /\ pods' = [pods EXCEPT ![reaps[d].node] = NoPod]
    /\ reaps' = [reaps EXCEPT ![d].step = "drop"]
    /\ UNCHANGED <<db, runners, calls, status, looks, faults>>

ReapDrop(d) ==
    /\ reaps[d].step = "drop"
    /\ tombs' = tombs \ {[node |-> reaps[d].node, inc |-> reaps[d].inc]}
    /\ reaps' = [reaps EXCEPT ![d] = NoReap]
    /\ UNCHANGED <<row, booking, incs, known, runners, fleet, looks, faults>>

\* A failed call, or the end of its instance: the tombstone stays.
ReapFails(d) ==
    /\ reaps[d] # NoReap
    /\ reaps' = [reaps EXCEPT ![d] = NoReap]
    /\ UNCHANGED <<db, runners, fleet, looks, faults>>

-----------------------------------------------------------------------------
(* The leader's loops over the rows. *)

\* Takes the op that nobody runs from the row; i does not reach its target.
\* A stopping instance does so with its own ops only.
ReleaseOp(i) ==
    /\ Orphaned(i)
    /\ proc[i] = "up" \/ (Serving(i) /\ row.owner = i)
    /\ Commit(Released(row))
    /\ UNCHANGED <<tombs, incs, runners, fleet, reaps, faults>>

\* Takes it from a live owner that is long past the op's deadline.
ReleaseOverdue(i) ==
    /\ proc[i] = "up" /\ row.op # "" /\ ~Orphaned(i) /\ Fault
    /\ Commit(Released(row))
    /\ UNCHANGED <<tombs, incs, runners, fleet, reaps>>

DownSweep ==
    /\ row.op = "" /\ row.node # None /\ status[row.node] = "down"
    /\ row.state \in {"running", "paused", "creating", "stopped"}
    /\ Write([row EXCEPT !.state = "unknown"])
    /\ UNCHANGED <<booking, tombs, incs, runners, fleet, reaps, faults>>

\* Mutant: what a lost node had is restored, checkpoint or not.
GraceLost_Hibernates(r) == [r EXCEPT !.state = "hibernated", !.lost = r.node]

\* No tombstone is written: the pod may still run there, and a node that
\* comes back has it adopted.
GraceLost(r) ==
    CASE r.ckpt > 0 -> [r EXCEPT !.state = "hibernated", !.lost = r.node]
      [] r.ckpt = 0 /\ r.mat = "yes" -> [r EXCEPT !.state = "lost", !.lost = r.node]
      [] OTHER -> [r EXCEPT !.state = "pending", !.node = None, !.lost = None]

LostGrace ==
    /\ row.op = "" /\ row.state = "unknown" /\ row.node # None /\ status[row.node] = "down"
    /\ Write(GraceLost(row))
    /\ booking' = None
    /\ UNCHANGED <<tombs, incs, runners, fleet, reaps, faults>>

-----------------------------------------------------------------------------
(* The instances. *)

\* The ops the row says are i's are released, whoever runs them.
ReleaseOpsOf(i) ==
    IF row.op # "" /\ row.owner = i THEN Write(Released(row)) ELSE UNCHANGED <<row, known, looks>>

\* The row says stopping, for the others to take its ops over; requests are
\* served on.
Stop(i) ==
    /\ proc[i] = "up" /\ Fault
    /\ proc' = [proc EXCEPT ![i] = "stopping"]
    /\ live' = [live EXCEPT ![i] = "no"]
    /\ UNCHANGED <<db, handles, reg, fleet, looks, reaps>>

\* The runner refuses new ops, and those still in flight when the time is up
\* are released.
StopReleases(i) ==
    /\ proc[i] = "stopping"
    /\ proc' = [proc EXCEPT ![i] = "refusing"]
    /\ ReleaseOpsOf(i)
    /\ UNCHANGED <<booking, tombs, incs, handles, reg, live, fleet, reaps, faults>>

Dies(i) ==
    /\ proc' = [proc EXCEPT ![i] = "down"]
    /\ handles' = [o \in OpIds |-> IF handles[o].inst = i THEN NoHandle ELSE handles[o]]
    /\ reg' = [reg EXCEPT ![i] = None]
    /\ UNCHANGED <<db, live, fleet, looks, reaps>>

Crash(i) == proc[i] = "up" /\ Fault /\ Dies(i)

\* The end of a stop, with its ops released or not.
Exit(i) == proc[i] \in {"stopping", "refusing"} /\ Dies(i) /\ UNCHANGED faults

\* The instance's row is not written for the instance TTL: at once once the
\* process is gone, else by a database that does not answer it (a fault).
Expire(i) ==
    /\ live[i] = "yes"
    /\ IF proc[i] = "down" THEN UNCHANGED faults ELSE Fault
    /\ live' = [live EXCEPT ![i] = "no"]
    /\ UNCHANGED <<db, handles, reg, proc, fleet, looks, reaps>>

Beat(i) ==
    /\ proc[i] = "up" /\ live[i] = "no"
    /\ live' = [live EXCEPT ![i] = "yes"]
    /\ UNCHANGED <<db, handles, reg, proc, fleet, looks, reaps, faults>>

\* A new process under the instance's ID: refused while the row is fresh, and
\* what the earlier process had in flight is released.
ClaimInstance(i) ==
    /\ proc[i] = "down" /\ live[i] = "no"
    /\ proc' = [proc EXCEPT ![i] = "up"]
    /\ live' = [live EXCEPT ![i] = "yes"]
    /\ ReleaseOpsOf(i)
    /\ UNCHANGED <<booking, tombs, incs, handles, reg, fleet, reaps, faults>>

-----------------------------------------------------------------------------
Init ==
    /\ row = NoRow /\ booking = None /\ tombs = {} /\ incs = 0 /\ known = "no"
    /\ handles = [o \in OpIds |-> NoHandle]
    /\ reg = [i \in Instances |-> None]
    /\ proc = [i \in Instances |-> "up"]
    /\ live = [i \in Instances |-> "yes"]
    /\ calls = {} /\ pods = [n \in Nodes |-> NoPod]
    /\ status = [n \in Nodes |-> "ready"]
    /\ looks = [l \in Lookers |-> NoLook]
    /\ reaps = [d \in Reapers |-> NoReap]
    /\ faults = 0

Next ==
    \/ CreateSandbox \/ Delete \/ DownSweep \/ LostGrace
    \/ \E i \in Instances, o \in OpIds :
          \/ \E k \in Kinds, n \in Nodes : Begin(i, k, n, o) \/ BeginLost(i, k, n, o)
          \/ Takeover(i, o) \/ Preempt(i, o)
    \/ \E i \in Instances : \/ ReleaseOp(i) \/ ReleaseOverdue(i) \/ Stop(i) \/ StopReleases(i)
                            \/ Crash(i) \/ Exit(i) \/ Expire(i) \/ Beat(i) \/ ClaimInstance(i)
    \/ \E o \in OpIds : Send(o) \/ Observe(o) \/ Finish(o) \/ FinishLost(o) \/ Rollback(o)
    \/ \E c \in calls : Serve(c) \/ Lose(c)
    \/ \E n \in Nodes : BringUp(n) \/ PodStops(n) \/ PodVanishes(n) \/ NodeDown(n) \/ NodeUp(n)
    \/ \E l \in Lookers : \/ SyncRead(l) \/ SyncApply(l) \/ ReconcileApply(l)
                          \/ \E n \in Nodes : ListPods(l, n)
    \/ \E d \in Reapers : \/ \E t \in tombs : ReapGet(d, t)
                          \/ ReapDelete(d) \/ ReapDrop(d) \/ ReapFails(d)

Spec == Init /\ [][Next]_vars

\* What the code schedules.  An op's goroutine goes on until its end commits
\* (finish.retry), its waits bounded by the op's deadline.  A stop ends within
\* its grace; an instance that is gone stops beating and is started again
\* (Restart=always), and the loops of the others, or its own orphans loop,
\* take over or release what it left.  Calls end.  Every node is reconciled
\* again and again (the minute's sweep), and not each time just while an op
\* runs; every tombstone is tried again.  Both are strong fairness, since the
\* bounds on readers and tombstones under way let others go first, and failed
\* tries may repeat.
Fairness ==
    /\ \A o \in OpIds : /\ WF_vars(Send(o) \/ Rollback(o))
                        /\ WF_vars(Observe(o))
                        /\ WF_vars(Finish(o))
                        /\ WF_vars(\E c \in calls : c.op = o /\ (Serve(c) \/ Lose(c)))
    /\ \A i \in Instances : /\ WF_vars(proc[i] = "down" /\ Expire(i))
                            /\ WF_vars(ReleaseOp(i) \/ \E o \in OpIds : Takeover(i, o))
                            /\ WF_vars(ClaimInstance(i)) /\ WF_vars(Exit(i))
    /\ \A l \in Lookers : /\ WF_vars(SyncApply(l) \/ ReconcileApply(l))
                          /\ SF_vars(row.op = "" /\ ReconcileApply(l))
                          /\ \A n \in Nodes : SF_vars(row.op = "" /\ ListPods(l, n))
    /\ \A d \in Reapers : /\ \A n \in Nodes : SF_vars(\E t \in tombs : t.node = n /\ ReapGet(d, t))
                          /\ SF_vars(ReapDelete(d)) /\ SF_vars(ReapDrop(d))

FairSpec == Spec /\ Fairness

-----------------------------------------------------------------------------
\* Every variable keeps the columns and the records that the code declares.
TypeOK ==
    /\ row \in RowRecord \cup {NoRow}
    /\ booking \in Places
    /\ tombs \subseteq [node : Nodes, inc : Incs]
    /\ incs \in 0 .. MaxInc /\ known \in YesNo
    /\ handles \in [OpIds -> Handle \cup {NoHandle}]
    /\ reg \in [Instances -> OpIds \cup {None}]
    /\ proc \in [Instances -> {"up", "stopping", "refusing", "down"}]
    /\ live \in [Instances -> YesNo]
    /\ calls \subseteq Call
    /\ pods \in [Nodes -> PodRecord \cup {NoPod}]
    /\ status \in [Nodes -> {"ready", "down"}]
    /\ looks \in [Lookers -> Look \cup {NoLook}]
    /\ reaps \in [Reapers -> Reap \cup {NoReap}]
    /\ faults \in 0 .. MaxFaults

\* A sandbox whose pod any op, sync or reconcile ever saw is never made anew:
\* not by change.notFound, by lost grace, by a rollback or by a release does
\* its row go back to pending, from where a create would start it empty.
NeverRecreated == known = "yes" => row.state # "pending" /\ row.op # "create"

\* Every state names what its way out needs: the node to ask, start, resume or
\* sync, and for a hibernated sandbox the checkpoint that precheck asks of a
\* restore.  A row short of it is refused by every op and every sync for good.
NoDeadEnd ==
    /\ row.state \in {"creating", "running", "pausing", "paused", "resuming", "hibernating",
                      "stopped", "lost", "unknown"} => row.node # None
    /\ row.state = "hibernated" => row.ckpt > 0

\* No tombstone condemns the pod of the row on the row's own node: whoever
\* decides that a pod goes (delete, restore elsewhere, stale record, orphan,
\* fenced-out op), and however late, the row moves there only past the
\* tombstone gate of claim, or takes the tombstone away with it.
NotCondemned ==
    ~Gone /\ row.node # None => [node |-> row.node, inc |-> row.inc] \notin tombs

\* The booking is where the row's state says (syncBooking): on the row's node
\* in the states that use its memory, kept while the outcome is open, gone in
\* every other state and with the row.
BookingFollows ==
    /\ row.state \in MustBook => booking = row.node
    /\ row.state \notin MustBook \cup KeepBook => booking = None
    /\ booking # None => booking = row.node

\* The checkpoint a row would be restored from never goes back to an older
\* one, whichever late observation or fenced-out answer mergeCheckpoint meets.
CheckpointKept == [][row'.inc = row.inc => row'.ckpt >= row.ckpt]_vars

\* An op that is still in flight under the row's op id is the row's op: same
\* kind, target and incarnation, and run by the row's owner.  Takeovers,
\* preempts, lost answers, restarts and re-created rows leave no second op
\* that would pass finishOnce's fence.
OpMatchesRow ==
    \A o \in OpIds : handles[o].step # "none" /\ row.opId = o =>
        /\ row.owner = handles[o].inst /\ row.op = handles[o].kind
        /\ row.target = handles[o].target /\ row.inc = handles[o].inc

\* A transitional state has its op (ensure.go: "a transitional state without
\* an op, which cannot persist"), whoever ended, released or took over the op
\* last; creating alone is also the state of a pod seen starting.
TransitionHasOp ==
    /\ row.op # "" => row.state = Transitional(row.op)
    /\ row.op = "" => row.state \notin {"pausing", "resuming", "hibernating"}

\* The code comment on runTombstone: a pod "of another incarnation is left, and
\* only the tombstone goes".
OtherIncarnationLeft ==
    [][\A d \in Reapers : reaps[d].step = "delete" /\ reaps'[d].step = "drop"
            => pods[reaps[d].node].inc \in {0, reaps[d].inc}]_vars

\* Every op ends: its row is without an op again, though its owner died, was
\* stopped, or never learned that its begin committed.
NoStuckOp == row.op # "" ~> row.op = ""

\* The pod on n belongs to the row.
Owned(n) ==
    ~Gone /\ pods[n].inc = row.inc /\ n \in {row.node, row.target, row.lost}

\* A pod that no row owns (made by a late call, left by a delete or a move)
\* is gone, or the row's again, in the end.
OrphanPodsGo ==
    \A n \in Nodes : Found(pods[n]) /\ ~Owned(n) ~> (Found(pods[n]) => Owned(n))

=============================================================================

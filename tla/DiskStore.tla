------------------------------ MODULE DiskStore ------------------------------
(***************************************************************************)
(* A pod's checkpoints in the object store: what feosd's hibernation asks   *)
(* of diskd (crates/services/pod-service/src/pods.rs, disk.rs), diskd's     *)
(* seals, pushes, markers, journals, pins and heads (crates/diskd/svc.rs),  *)
(* and the sweep of the bucket (disk-store/src/sweep.rs).  A disk's own     *)
(* layer is the set of its chunks; shared layers are left out.  One pod,    *)
(* with its disk Own and its volumes, moves between nodes.                  *)
(***************************************************************************)
EXTENDS Integers, FiniteSets, FiniteSetsExt

CONSTANTS
    Nodes, Chunks,
    Disks, Own,     \* the pod's disks, and the one that is not a volume
    Sweepers,       \* the nodes that are asked to sweep
    Trust,          \* UNHEADED_TRUST_SECONDS
    Longest,        \* the longest hibernation
    Grace,          \* a sweep's grace
    MaxEpoch,
    Faults,         \* what may happen, once at most: see Fault
    None

ASSUME DiskStoreConstants ==
    /\ Own \in Disks /\ Sweepers \subseteq Nodes /\ None \notin Nodes
    /\ Trust \in Nat /\ Longest \in Nat /\ Grace \in Nat /\ Grace > Trust + Longest
    /\ MaxEpoch \in Nat /\ Faults \subseteq {"cut off", "sweep stops", "contents recur", "sweep overlaps"}

VARIABLES
    chunk,    \* the bucket's chunks, with their ages
    layer,    \* the bucket's manifests, with their ages
    head,     \* the bucket's heads
    pod,      \* the pod's node and checkpoint, and the last epoch used
    row,      \* the own layers in diskd's rows of the pod's disks
    mark,     \* the markers of chunks, per node
    lmark,    \* the markers of layers, per node
    local,    \* the manifests a node has
    cache,    \* the chunks a node has
    journal,  \* unheaded/<disk>, per node
    hib,      \* the hibernation in flight
    sweep,    \* the sweep under way
    used,     \* the chunks ever written
    fault     \* what has happened of Faults

bucket == <<chunk, layer, head>>
diskd == <<row, mark, lmark, local, cache, journal>>
vars == <<bucket, pod, diskd, hib, sweep, used, fault>>

-----------------------------------------------------------------------------
Age == 0 .. Grace    \* as far as any age matters
Gone == -1
Contents == SUBSET Chunks
Layer == Disks \X Contents   \* over the disk's shared layers
LayerObject == [id : Layer, age : Age]
Head == [disk : Disks, epoch : 1 .. MaxEpoch, id : Layer, age : Age]

Journal == [age : Age, chunks : Contents, layers : SUBSET Layer]
NoJournal == [age |-> Gone]
NewJournal == [age |-> 0, chunks |-> {}, layers |-> {}]

\* The steps of a push are those of its disk.
Hibernation == [pc : {"none", "seal", "expire", "push", "manifest", "layer", "head", "leave"}, age : Age,
                disk : Disks, todo : Contents, pushed : Contents, done : SUBSET Disks]
NoHibernation == [pc |-> "none", age |-> 0, disk |-> Own, todo |-> {}, pushed |-> {}, done |-> {}]

Sweep == [pc : {"none", "layers", "list", "delete", "unmark"}, by : Nodes \cup {None},
          keep : SUBSET Layer, dead : Contents]
NoSweep == [pc |-> "none", by |-> None, keep |-> {}, dead |-> {}]

\* Nobody else acts between the steps of a sweep, unless it overlaps.
Quiet == sweep = NoSweep \/ fault = "sweep overlaps"

InBucket(ids) == ids \subseteq {o.id : o \in layer}
Put(id) == layer' = {o \in layer : o.id # id} \cup {[id |-> id, age |-> 0]}
IdOf(d) == <<d, row[d]>>

Pushed(h) == LET done == h.done \cup {h.disk}
             IN  [h EXCEPT !.todo = {}, !.pushed = {}, !.done = IF done = Disks THEN {} ELSE done,
                           !.pc = IF done = Disks THEN "head" ELSE "seal"]

\* A hibernation past its first head or a sweep is cut off, contents that went are written again,
\* or others act while a sweep is under way.
Fault(f) == fault = "none" /\ f \in Faults /\ fault' = f

\* Mutant: only what is not uploaded is pinned.
Pinned_Uploaded(n) ==
    IF pod.at # n THEN {}
    ELSE UNION {row[d] : d \in {x \in Disks : IdOf(x) \notin lmark[n]}}

\* pinned_row_chunks
Pinned(n) ==
    IF pod.at # n THEN {}
    ELSE UNION {row[d] : d \in {x \in Disks : IdOf(x) \notin lmark[n] \/ journal[n][x] # NoJournal}}

-----------------------------------------------------------------------------
(* The pod on its node *)

\* CreatePod: blank disks.
Create(n) ==
    /\ Quiet /\ pod.at = None /\ pod.ckpt = 0
    /\ pod' = [pod EXCEPT !.at = n]
    /\ row' = [d \in Disks |-> {}]
    /\ UNCHANGED <<bucket, mark, lmark, local, cache, journal, hib, sweep, used, fault>>

\* The cache's budget.
Evict(n, c) ==
    /\ Quiet /\ c \in cache[n] \ Pinned(n)
    /\ cache' = [cache EXCEPT ![n] = @ \ {c}]
    /\ UNCHANGED <<bucket, pod, row, mark, lmark, local, journal, hib, sweep, used, fault>>

\* RemoveDevice of every disk, if they are at a node.
RemoveDevice(n) ==
    /\ row' = [d \in Disks |-> {}]
    /\ journal' = [m \in Nodes |-> IF m = n THEN [d \in Disks |-> NoJournal] ELSE journal[m]]

\* DeletePod, and DeleteVolume of its volumes; the checkpoint of a hibernated pod
\* is live no more.
Delete ==
    /\ Quiet /\ hib = NoHibernation /\ (pod.at # None \/ pod.ckpt # 0)
    /\ RemoveDevice(pod.at)
    /\ pod' = [pod EXCEPT !.at = None, !.ckpt = 0]
    /\ UNCHANGED <<bucket, mark, lmark, local, cache, hib, sweep, used, fault>>

-----------------------------------------------------------------------------
(* Hibernation *)

\* The pod is suspended and its disks are stopped; the checkpoint gets its epoch.
\* It has booted since it was restored: all its volumes are sealed.
Hibernate ==
    /\ Quiet /\ pod.at # None /\ hib = NoHibernation /\ pod.epoch < MaxEpoch
    /\ pod' = [pod EXCEPT !.epoch = @ + 1]
    /\ hib' = [NoHibernation EXCEPT !.pc = "seal"]
    /\ UNCHANGED <<bucket, diskd, sweep, used, fault>>

\* Seal without upload, of a disk whose guest has written: the journal starts
\* unless it is there, the new chunks are admitted, the row names the new layer,
\* and the manifest it replaces goes.
Seal(d, new) ==
    LET n == pod.at
    IN  /\ Quiet /\ hib.pc = "seal" /\ d \notin hib.done /\ (d = Own \/ Own \in hib.done)
        /\ IF new \cap used \subseteq row[d] THEN UNCHANGED fault ELSE Fault("contents recur")
        /\ used' = used \cup new
        /\ journal' = [journal EXCEPT ![n][d] = IF @ = NoJournal THEN NewJournal ELSE @]
        /\ row' = [row EXCEPT ![d] = new]
        /\ cache' = [cache EXCEPT ![n] = @ \cup (new \ row[d])]
        /\ local' = [local EXCEPT ![n] = (@ \ {IdOf(d)}) \cup {<<d, new>>}]
        /\ hib' = [hib EXCEPT !.pc = "expire", !.disk = d]
        /\ UNCHANGED <<bucket, pod, mark, lmark, sweep>>

\* expire_journals: the disks whose journals are too old.
Expired(n) == {d \in Disks : journal[n][d] # NoJournal /\ journal[n][d].age > Trust}

\* Seal with upload finds the disk sealed; push_chain expires journals, and
\* pushes the layer unless it is marked and in the bucket.
PushChain ==
    LET n == pod.at
        old == Expired(n)
        d == hib.disk
    IN  /\ Quiet /\ hib.pc = "expire"
        /\ mark' = [mark EXCEPT ![n] = @ \ UNION {journal[n][x].chunks : x \in old}]
        /\ lmark' = [lmark EXCEPT ![n] = @ \ UNION {journal[n][x].layers : x \in old}]
        /\ journal' = [journal EXCEPT ![n] = [x \in Disks |->
                          IF x \in old THEN NewJournal ELSE @[x]]]
        /\ hib' = IF IdOf(d) \in lmark'[n] /\ InBucket({IdOf(d)})
                  THEN Pushed(hib)
                  ELSE [hib EXCEPT !.pc = "push", !.todo = row[d], !.pushed = {}]
        /\ UNCHANGED <<bucket, pod, row, local, cache, sweep, used, fault>>

\* A chunk of push_layer: marked, put from the cache, or found in the bucket.
PushChunk(c) ==
    LET n == pod.at
    IN  /\ Quiet /\ hib.pc = "push" /\ c \in hib.todo
        /\ \/ c \in mark[n] /\ UNCHANGED chunk /\ hib' = [hib EXCEPT !.todo = @ \ {c}]
           \/ /\ c \notin mark[n] /\ c \in cache[n]
              /\ chunk' = [chunk EXCEPT ![c] = 0]
              /\ hib' = [hib EXCEPT !.todo = @ \ {c}, !.pushed = @ \cup {c}]
           \/ /\ c \notin mark[n] \cup cache[n] /\ chunk[c] # Gone
              /\ UNCHANGED chunk
              /\ hib' = [hib EXCEPT !.todo = @ \ {c}, !.pushed = @ \cup {c}]
        /\ UNCHANGED <<layer, head, pod, diskd, sweep, used, fault>>

\* mark_pushed: listed in the journal, and then marked.
MarkPushed(n) ==
    /\ journal' = [journal EXCEPT ![n][hib.disk].chunks = @ \cup hib.pushed]
    /\ mark' = [mark EXCEPT ![n] = @ \cup hib.pushed]

Mark ==
    /\ Quiet /\ hib.pc = "push" /\ hib.todo = {}
    /\ MarkPushed(pod.at)
    /\ hib' = [hib EXCEPT !.pc = "manifest"]
    /\ UNCHANGED <<bucket, pod, row, lmark, local, cache, sweep, used, fault>>

PutManifest ==
    /\ Quiet /\ hib.pc = "manifest"
    /\ Put(IdOf(hib.disk))
    /\ hib' = [hib EXCEPT !.pc = "layer"]
    /\ UNCHANGED <<chunk, head, pod, diskd, sweep, used, fault>>

\* mark_layer_pushed
MarkLayer ==
    LET n == pod.at
    IN  /\ Quiet /\ hib.pc = "layer"
        /\ journal' = [journal EXCEPT ![n][hib.disk].layers = @ \cup {IdOf(hib.disk)}]
        /\ lmark' = [lmark EXCEPT ![n] = @ \cup {IdOf(hib.disk)}]
        /\ hib' = Pushed(hib)
        /\ UNCHANGED <<bucket, pod, row, mark, local, cache, sweep, used, fault>>

\* Mutant: the head is put without a look at the bucket.
PutHead_Trusts(d) ==
    LET n == pod.at
    IN  /\ Quiet /\ hib.pc = "head" /\ d \notin hib.done /\ (d = Own => hib.done = Disks \ {Own})
        /\ head' = head \cup {[disk |-> d, epoch |-> pod.epoch, id |-> IdOf(d), age |-> 0]}
        /\ journal' = [journal EXCEPT ![n][d] = NoJournal]
        /\ hib' = [hib EXCEPT !.done = @ \cup {d}, !.pc = IF d = Own THEN "leave" ELSE "head"]
        /\ UNCHANGED <<chunk, layer, pod, row, mark, lmark, local, cache, sweep, used, fault>>

\* PutHead: the volumes' heads, and then the pod's, which names them.
PutHead(d) ==
    LET n == pod.at
    IN  /\ Quiet /\ hib.pc = "head" /\ d \notin hib.done /\ (d = Own => hib.done = Disks \ {Own})
        /\ InBucket({IdOf(d)})
        /\ d = Own => \A v \in hib.done : \E h \in head : h.disk = v /\ h.epoch = pod.epoch
        /\ head' = head \cup {[disk |-> d, epoch |-> pod.epoch, id |-> IdOf(d), age |-> 0]}
        /\ journal' = [journal EXCEPT ![n][d] = NoJournal]
        /\ hib' = [hib EXCEPT !.done = @ \cup {d}, !.pc = IF d = Own THEN "leave" ELSE "head"]
        /\ UNCHANGED <<chunk, layer, pod, row, mark, lmark, local, cache, sweep, used, fault>>

\* The checkpoint is recorded, and the pod's disks go (purge).
Leave ==
    /\ Quiet /\ hib.pc = "leave"
    /\ pod' = [pod EXCEPT !.at = None, !.ckpt = pod.epoch]
    /\ RemoveDevice(pod.at)
    /\ hib' = NoHibernation
    /\ UNCHANGED <<bucket, mark, lmark, local, cache, sweep, used, fault>>

\* A resume abandons the hibernation, or a step of it fails, before a head; a
\* push that is dropped may have listed and marked its batch.
Abandon ==
    /\ Quiet /\ hib.pc # "none" /\ hib.pc # "leave" /\ (hib.pc = "head" => hib.done = {})
    /\ \/ UNCHANGED <<journal, mark>>
       \/ hib.pc = "push" /\ MarkPushed(pod.at)
    /\ hib' = NoHibernation
    /\ UNCHANGED <<bucket, pod, row, lmark, local, cache, sweep, used, fault>>

\* The next head is refused or fails, or feosd dies, with a head in the bucket
\* and no checkpoint recorded.
CutOff ==
    /\ Quiet /\ Fault("cut off")
    /\ hib.pc = "leave" \/ (hib.pc = "head" /\ hib.done # {})
    /\ hib' = NoHibernation
    /\ UNCHANGED <<bucket, pod, diskd, sweep, used>>

\* RestorePod: each disk opened from its head; the manifests a node does not
\* have teach it their markers (ensure_manifests).
Restore(n) ==
    LET of(d) == (CHOOSE h \in head : h.disk = d /\ h.epoch = pod.ckpt).id
        new == {of(d) : d \in Disks} \ local[n]
    IN  /\ Quiet /\ pod.at = None /\ pod.ckpt # 0
        /\ \A d \in Disks : \E h \in head : h.disk = d /\ h.epoch = pod.ckpt
        /\ InBucket(new)
        /\ pod' = [pod EXCEPT !.at = n]
        /\ row' = [d \in Disks |-> of(d)[2]]
        /\ local' = [local EXCEPT ![n] = @ \cup new]
        /\ mark' = [mark EXCEPT ![n] = @ \cup UNION {id[2] : id \in new}]
        /\ lmark' = [lmark EXCEPT ![n] = @ \cup new]
        /\ journal' = [journal EXCEPT ![n] = [d \in Disks |-> NoJournal]]
        /\ UNCHANGED <<bucket, cache, hib, sweep, used, fault>>

-----------------------------------------------------------------------------
(* Sweep, at node s *)

\* plan_snapshots: heads that are not live go, unless they are young.
SweepHeads(s) ==
    LET dead == {h \in head : h.epoch # pod.ckpt /\ h.age = Grace}
    IN  /\ sweep = NoSweep
        /\ head' = head \ dead
        /\ sweep' = [NoSweep EXCEPT !.pc = "layers", !.by = s, !.keep = {h.id : h \in head \ dead}]
        /\ UNCHANGED <<chunk, layer, pod, diskd, hib, used, fault>>

\* plan_layers
DeadLayers == {o \in layer : o.id \notin sweep.keep /\ o.age = Grace}

\* The sweeper's markers of the dead ones go after them.
SweepLayers ==
    /\ sweep.pc = "layers"
    /\ layer' = layer \ DeadLayers
    /\ lmark' = [lmark EXCEPT ![sweep.by] = @ \ {o.id : o \in DeadLayers}]
    /\ sweep' = [sweep EXCEPT !.pc = "list", !.keep = {o.id : o \in layer'}]
    /\ UNCHANGED <<chunk, head, pod, row, mark, local, cache, journal, hib, used, fault>>

\* Mutant: what the kept layers name is not spared.
SweepList_Aged ==
    /\ sweep.pc = "list"
    /\ sweep' = [sweep EXCEPT !.pc = "delete", !.dead = {c \in Chunks : chunk[c] = Grace}]
    /\ UNCHANGED <<bucket, pod, diskd, hib, used, fault>>

\* plan_chunks
SweepList ==
    /\ sweep.pc = "list"
    /\ sweep' = [sweep EXCEPT !.pc = "delete",
                    !.dead = {c \in Chunks : /\ chunk[c] = Grace
                                             /\ \A id \in sweep.keep : c \notin id[2]}]
    /\ UNCHANGED <<bucket, pod, diskd, hib, used, fault>>

DeleteChunks(some) == chunk' = [c \in Chunks |-> IF c \in some THEN Gone ELSE chunk[c]]

SweepDelete ==
    /\ sweep.pc = "delete"
    /\ DeleteChunks(sweep.dead)
    /\ sweep' = [sweep EXCEPT !.pc = "unmark"]
    /\ UNCHANGED <<layer, head, pod, diskd, hib, used, fault>>

SweepUnmark ==
    /\ sweep.pc = "unmark"
    /\ mark' = [mark EXCEPT ![sweep.by] = @ \ sweep.dead]
    /\ sweep' = NoSweep
    /\ UNCHANGED <<bucket, pod, row, lmark, local, cache, journal, hib, used, fault>>

\* A delete fails, the budget is spent, or diskd dies: what the pass has deleted
\* is gone, and keeps its markers.
SweepStops ==
    /\ sweep # NoSweep /\ Fault("sweep stops")
    /\ sweep' = NoSweep
    /\ \/ /\ sweep.pc = "layers" /\ \E some \in SUBSET DeadLayers : layer' = layer \ some
          /\ UNCHANGED chunk
       \/ /\ sweep.pc = "delete" /\ \E some \in SUBSET sweep.dead : DeleteChunks(some)
          /\ UNCHANGED layer
       \/ sweep.pc \notin {"layers", "delete"} /\ UNCHANGED <<chunk, layer>>
    /\ UNCHANGED <<head, pod, diskd, hib, used>>

\* A hibernation, a change of the pod or an eviction comes between its steps.
SweepOverlaps ==
    /\ sweep # NoSweep /\ Fault("sweep overlaps")
    /\ UNCHANGED <<bucket, pod, diskd, hib, sweep, used>>

Older(age) == IF age \in {Gone, Grace} THEN age ELSE age + 1

\* Time passes; a hibernation takes Longest, and a sweep less than one unit.
Tick ==
    /\ sweep = NoSweep
    /\ hib # NoHibernation => hib.age < Longest
    /\ chunk' = [c \in Chunks |-> Older(chunk[c])]
    /\ layer' = {[o EXCEPT !.age = Older(@)] : o \in layer}
    /\ head' = {[h EXCEPT !.age = Older(@)] : h \in head}
    /\ journal' = [n \in Nodes |-> [d \in Disks |-> [journal[n][d] EXCEPT !.age = Older(@)]]]
    /\ hib' = IF hib = NoHibernation THEN hib ELSE [hib EXCEPT !.age = @ + 1]
    /\ UNCHANGED <<pod, row, mark, lmark, local, cache, sweep, used, fault>>

-----------------------------------------------------------------------------
Init ==
    /\ chunk = [c \in Chunks |-> Gone] /\ layer = {} /\ head = {}
    /\ pod = [at |-> None, ckpt |-> 0, epoch |-> 0]
    /\ row = [d \in Disks |-> {}]
    /\ mark = [n \in Nodes |-> {}] /\ lmark = [n \in Nodes |-> {}]
    /\ local = [n \in Nodes |-> {}] /\ cache = [n \in Nodes |-> {}]
    /\ journal = [n \in Nodes |-> [d \in Disks |-> NoJournal]]
    /\ hib = NoHibernation /\ sweep = NoSweep
    /\ used = {} /\ fault = "none"

Next ==
    \/ \E n \in Nodes : Create(n) \/ Restore(n) \/ \E c \in Chunks : Evict(n, c)
    \/ \E d \in Disks : PutHead(d) \/ \E new \in Contents : Seal(d, new)
    \/ \E c \in Chunks : PushChunk(c)
    \/ Delete \/ Hibernate \/ PushChain \/ Mark \/ PutManifest \/ MarkLayer \/ Leave \/ Abandon \/ CutOff
    \/ \E s \in Sweepers : SweepHeads(s)
    \/ SweepLayers \/ SweepList \/ SweepDelete \/ SweepUnmark \/ SweepStops \/ SweepOverlaps
    \/ Tick

Spec == Init /\ [][Next]_vars

-----------------------------------------------------------------------------
(* Properties *)

TypeOK ==
    /\ chunk \in [Chunks -> Age \cup {Gone}] /\ layer \subseteq LayerObject /\ head \subseteq Head
    /\ pod \in [at : Nodes \cup {None}, ckpt : 0 .. MaxEpoch, epoch : 0 .. MaxEpoch]
    /\ row \in [Disks -> Contents]
    /\ mark \in [Nodes -> Contents] /\ cache \in [Nodes -> Contents]
    /\ lmark \in [Nodes -> SUBSET Layer] /\ local \in [Nodes -> SUBSET Layer]
    /\ \A n \in Nodes, d \in Disks : journal[n][d] = NoJournal \/ journal[n][d] \in Journal
    /\ hib \in Hibernation /\ sweep \in Sweep
    /\ used \in Contents /\ fault \in Faults \cup {"none"}

Live(h) == h.epoch = pod.ckpt
HasChunks(id) == \A c \in id[2] : chunk[c] # Gone

\* The checkpoint of a pod is whole: its heads are in the bucket, and every layer
\* and chunk they name, whatever was abandoned, retried, swept, cut short by a
\* sweep's end or trusted before.  What else may break it is in Fault.
CheckpointWhole ==
    pod.ckpt # 0 /\ fault \in {"none", "sweep stops"} =>
        \A d \in Disks : \E h \in head : h.disk = d /\ Live(h) /\ InBucket({h.id}) /\ HasChunks(h.id)

\* Even if hibernations are cut off and contents recur, the heads of a checkpoint
\* and the manifests they name are in the bucket (put_head looks for them once
\* more), unless a sweep that overlaps takes them.
CheckpointNamed ==
    pod.ckpt # 0 /\ fault # "sweep overlaps" =>
        \A d \in Disks : \E h \in head : h.disk = d /\ Live(h) /\ InBucket({h.id})

\* What a pod on its node has on its disks is in the node's cache or in the
\* bucket: eviction and the sweeps do not take the last copy of it, unless a
\* hibernation was cut off past its first head, contents recurred or a sweep
\* overlapped.
DiskReadable ==
    pod.at # None /\ fault \in {"none", "sweep stops"} =>
        \A d \in Disks : \A c \in row[d] : c \in cache[pod.at] \/ chunk[c] # Gone

-----------------------------------------------------------------------------
(* What comments or documents of the program say and the model refutes; the *)
(* README has the behaviours.  No run checks these.                         *)

\* docs/architecture/disk.md: a chunk that cannot be fetched again is pinned.
OnlyCopyPinned ==
    pod.at # None => \A d \in Disks : \A c \in row[d] : chunk[c] # Gone \/ c \in cache[pod.at] \cap Pinned(pod.at)

\* put_head: "a head in the bucket is always whole".
HeadsWhole == \A h \in head : InBucket({h.id}) /\ HasChunks(h.id)

\* sweep.rs: the grace keeps a sweep from eating a checkpoint that is still being
\* written: what a push has put is there until its hibernation is over.
GraceProtects == \A c \in hib.pushed : chunk[c] # Gone

Listed(n) == UNION {journal[n][d].chunks : d \in {x \in Disks : journal[n][x] # NoJournal}}

\* sweep: a chunk that was removed from the bucket "must lose its marker": outside
\* a sweep, a marker that no journal will ever take back tells the truth.
MarkersTrue ==
    sweep = NoSweep => \A n \in Nodes : \A c \in mark[n] \ Listed(n) : chunk[c] # Gone
=============================================================================

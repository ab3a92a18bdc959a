--------------------------- MODULE DiskStoreProofs ---------------------------
(***************************************************************************)
(* Proofs about module DiskStore: the heads of a checkpoint, the manifests  *)
(* they name and the chunks of those stay in the bucket, and a pod's disks  *)
(* stay readable, for any nodes, disks, chunks, epochs and times in which   *)
(* a sweep's grace is longer than a journal's trust and a hibernation.      *)
(***************************************************************************)
EXTENDS DiskStore, TLAPS

-----------------------------------------------------------------------------
(* The inductive invariant *)

Types ==
    /\ layer \subseteq LayerObject /\ head \subseteq Head
    /\ pod \in [at : Nodes \cup {None}, ckpt : 0 .. MaxEpoch, epoch : 0 .. MaxEpoch]
    /\ row \in [Disks -> Contents]
    /\ hib \in Hibernation /\ sweep \in Sweep

\* A hibernation is of a pod on its node, makes a checkpoint newer than the pod's,
\* and ends within Longest.
HibernationOk ==
    /\ hib.pc = "none" => hib = NoHibernation
    /\ hib.pc # "none" => pod.at # None /\ pod.ckpt < pod.epoch
    /\ hib.age <= Longest
    /\ hib.pc = "leave" => hib.done = Disks
    /\ pod.ckpt <= pod.epoch

\* The heads that a hibernation has put are there, and younger than it.
HeadsPut ==
    hib.pc \in {"head", "leave"} =>
        \A d \in hib.done : \E h \in head : h.disk = d /\ h.epoch = pod.epoch /\ h.age <= hib.age

\* The heads of the pod's checkpoint are there.
HeadsLive ==
    pod.ckpt # 0 => \A d \in Disks : \E h \in head : h.disk = d /\ Live(h)

\* Every head names a manifest in the bucket, and a sweep between its steps keeps
\* what the heads name.
HeadsNamed ==
    fault # "sweep overlaps" =>
        /\ \A h \in head : InBucket({h.id})
        /\ sweep.pc = "layers" => \A h \in head : h.id \in sweep.keep

DInv == Types /\ HibernationOk /\ HeadsPut /\ HeadsLive /\ HeadsNamed

-----------------------------------------------------------------------------
(* Columns *)

LEMMA Times ==
    /\ Longest \in Nat /\ Grace \in Nat /\ Longest < Grace /\ MaxEpoch \in Nat /\ None \notin Nodes
    /\ Own \in Disks /\ Sweepers \subseteq Nodes /\ 0 <= Longest
<1>1. Trust \in Nat /\ Longest \in Nat /\ Grace \in Nat /\ Grace > Trust + Longest
    BY DiskStoreConstants
<1>2. Longest < Grace /\ 0 <= Longest
    BY <1>1
<1> QED  BY <1>1, <1>2, DiskStoreConstants

LEMMA NoHibernationColumns ==
    /\ NoHibernation \in Hibernation /\ NoHibernation.pc = "none" /\ NoHibernation.age = 0
    /\ NoHibernation.done = {}
<1>1. 0 \in Age
    BY Times DEF Age
<1> QED  BY <1>1, Times DEF NoHibernation, Hibernation, Contents

LEMMA NoSweepColumns == NoSweep \in Sweep /\ NoSweep.pc = "none"
<1> QED  BY DEF NoSweep, Sweep, Contents

\* The columns of the hibernation's record that the invariant is about.
LEMMA HibernationColumns ==
    ASSUME NEW h \in Hibernation
    PROVE  /\ h.pc \in {"none", "seal", "expire", "push", "manifest", "layer", "head", "leave"}
           /\ h.age \in Age /\ h.disk \in Disks /\ h.todo \in Contents /\ h.pushed \in Contents
           /\ h.done \in SUBSET Disks
<1> QED  BY DEF Hibernation

LEMMA HeadColumns ==
    ASSUME NEW h \in Head
    PROVE  h.disk \in Disks /\ h.epoch \in 1 .. MaxEpoch /\ h.id \in Layer /\ h.age \in Age
<1> QED  BY DEF Head

LEMMA PodColumns ==
    ASSUME Types
    PROVE  pod.at \in Nodes \cup {None} /\ pod.ckpt \in 0 .. MaxEpoch /\ pod.epoch \in 0 .. MaxEpoch
<1> QED  BY DEF Types

LEMMA PushedColumns ==
    ASSUME NEW h \in Hibernation
    PROVE  /\ Pushed(h) \in Hibernation /\ Pushed(h).pc \in {"head", "seal"} /\ Pushed(h).age = h.age
           /\ Pushed(h).pc = "head" => Pushed(h).done = {}
<1> DEFINE done == h.done \cup {h.disk}
           new == IF done = Disks THEN {} ELSE done
           pc == IF done = Disks THEN "head" ELSE "seal"
<1>1. new \in SUBSET Disks /\ pc \in {"head", "seal"} /\ (pc = "head" => new = {})
    BY DEF Hibernation
<1>2. Pushed(h) = [h EXCEPT !.todo = {}, !.pushed = {}, !.done = new, !.pc = pc]
    BY DEF Pushed
<1> HIDE DEF done, new, pc
<1>3. PICK z : z = [h EXCEPT !.todo = {}, !.pushed = {}, !.done = new, !.pc = pc]
    OBVIOUS
<1>4. z.pc = pc /\ z.age = h.age /\ z.done = new
    BY <1>3 DEF Hibernation
<1>5. z \in Hibernation
    BY <1>1, <1>3 DEF Hibernation, Contents
<1> QED  BY <1>1, <1>2, <1>3, <1>4, <1>5

-----------------------------------------------------------------------------
(* Steps that leave the bucket's heads and manifests alone *)

\* The hibernation goes on, before its heads.
HibernationMoves ==
    /\ hib' \in Hibernation /\ hib.pc # "none" /\ hib'.pc \notin {"none", "leave"} /\ hib'.age = hib.age
    /\ hib'.pc = "head" => hib'.done = {}

LEMMA MovesKeep ==
    ASSUME DInv, HibernationMoves, row' \in [Disks -> Contents], UNCHANGED <<head, sweep, pod>>,
           layer' \subseteq LayerObject, \A id : InBucket({id}) => InBucket({id})',
           fault # "sweep overlaps" \/ fault' = fault
    PROVE  DInv'
<1>1. Types'
    BY DEF DInv, Types, HibernationMoves
<1>2. HibernationOk'
    BY DEF DInv, HibernationOk, HibernationMoves
<1>3. HeadsPut'
    BY DEF HeadsPut, HibernationMoves
<1>4. HeadsLive'
    BY DEF DInv, HeadsLive, Live
<1>5. HeadsNamed'
    BY DEF DInv, HeadsNamed
<1> QED  BY <1>1, <1>2, <1>3, <1>4, <1>5 DEF DInv


LEMMA SealKeeps == ASSUME DInv, NEW d \in Disks, NEW new \in Contents, Seal(d, new) PROVE DInv'
<1>0. /\ UNCHANGED <<bucket, pod, mark, lmark, sweep>> /\ row' = [row EXCEPT ![d] = new] /\ hib.pc = "seal"
      /\ hib' = [hib EXCEPT !.pc = "expire", !.disk = d]
      /\ fault' = fault \/ Fault("contents recur")
    BY DEF Seal
<1>1. HibernationMoves
    BY <1>0 DEF HibernationMoves, DInv, Types, Hibernation
<1>2. row' \in [Disks -> Contents] /\ layer' \subseteq LayerObject
    BY <1>0 DEF DInv, Types, bucket
<1>3. fault # "sweep overlaps" \/ fault' = fault
    BY <1>0 DEF Fault
<1> QED  BY <1>0, <1>1, <1>2, <1>3, MovesKeep DEF bucket, InBucket

LEMMA PushChainKeeps == ASSUME DInv, PushChain PROVE DInv'
<1>0. /\ UNCHANGED <<bucket, pod, row, local, cache, sweep, used, fault>> /\ hib.pc = "expire"
      /\ \/ hib' = Pushed(hib)
         \/ hib' = [hib EXCEPT !.pc = "push", !.todo = row[hib.disk], !.pushed = {}]
    BY DEF PushChain
<1>1. row \in [Disks -> Contents] /\ hib \in Hibernation /\ hib.disk \in Disks /\ layer' \subseteq LayerObject
    BY <1>0, HibernationColumns DEF DInv, Types, bucket
<1>2. HibernationMoves
    <2>1. CASE hib' = Pushed(hib)
        BY <1>0, <1>1, <2>1, PushedColumns DEF HibernationMoves
    <2>2. CASE hib' = [hib EXCEPT !.pc = "push", !.todo = row[hib.disk], !.pushed = {}]
        BY <1>0, <1>1, <2>2 DEF HibernationMoves, Hibernation, Contents
    <2> QED  BY <1>0, <2>1, <2>2
<1> QED  BY <1>0, <1>1, <1>2, MovesKeep DEF bucket, InBucket

LEMMA PushChunkKeeps == ASSUME DInv, NEW c \in Chunks, PushChunk(c) PROVE DInv'
<1>0. /\ UNCHANGED <<layer, head, pod, row, sweep, fault>> /\ hib.pc = "push"
      /\ \/ hib' = [hib EXCEPT !.todo = hib.todo \ {c}]
         \/ hib' = [hib EXCEPT !.todo = hib.todo \ {c}, !.pushed = hib.pushed \cup {c}]
    BY DEF PushChunk, diskd, DInv, Types, Hibernation
<1> DEFINE todo == hib.todo \ {c}
           pushed == hib.pushed \cup {c}
<1>3. hib \in Hibernation /\ todo \in Contents /\ pushed \in Contents
    BY HibernationColumns DEF DInv, Types, Contents
<1> HIDE DEF todo, pushed
<1>1. HibernationMoves
    <2>1. CASE hib' = [hib EXCEPT !.todo = todo]
        BY <1>0, <1>3, <2>1 DEF HibernationMoves, Hibernation
    <2>2. CASE hib' = [hib EXCEPT !.todo = todo, !.pushed = pushed]
        BY <1>0, <1>3, <2>2 DEF HibernationMoves, Hibernation
    <2> QED  BY <1>0, <2>1, <2>2 DEF todo, pushed
<1>2. row' \in [Disks -> Contents] /\ layer' \subseteq LayerObject
    BY <1>0 DEF DInv, Types
<1> QED  BY <1>0, <1>1, <1>2, MovesKeep DEF InBucket

LEMMA MarkKeeps == ASSUME DInv, Mark PROVE DInv'
<1>0. /\ UNCHANGED <<bucket, pod, row, sweep, fault>> /\ hib.pc = "push"
      /\ hib' = [hib EXCEPT !.pc = "manifest"]
    BY DEF Mark
<1>1. HibernationMoves
    BY <1>0 DEF HibernationMoves, DInv, Types, Hibernation
<1>2. row' \in [Disks -> Contents] /\ layer' \subseteq LayerObject
    BY <1>0 DEF DInv, Types, bucket
<1> QED  BY <1>0, <1>1, <1>2, MovesKeep DEF bucket, InBucket

LEMMA PutManifestKeeps == ASSUME DInv, PutManifest PROVE DInv'
<1>0. /\ UNCHANGED <<head, pod, row, sweep, fault>> /\ hib.pc = "manifest" /\ Put(IdOf(hib.disk))
      /\ hib' = [hib EXCEPT !.pc = "layer"]
    BY DEF PutManifest, diskd
<1>1. HibernationMoves
    BY <1>0 DEF HibernationMoves, DInv, Types, Hibernation
<1>2. hib.disk \in Disks /\ row \in [Disks -> Contents] /\ layer \subseteq LayerObject
    BY HibernationColumns DEF DInv, Types
<1>3. IdOf(hib.disk) \in Layer
    BY <1>2 DEF IdOf, Layer
<1> DEFINE i == IdOf(hib.disk)
           new == [id |-> i, age |-> 0]
<1>4. new \in LayerObject /\ new.id = i
    BY <1>3, Times DEF LayerObject, Age
<1>5. layer' = {o \in layer : o.id # i} \cup {new}
    BY <1>0 DEF Put
<1> HIDE DEF i, new
<1>6. layer' \subseteq LayerObject /\ row' \in [Disks -> Contents]
    BY <1>0, <1>2, <1>4, <1>5
<1>7. ASSUME NEW id, InBucket({id}) PROVE InBucket({id})'
    <2>1. PICK o \in layer : o.id = id
        BY <1>7 DEF InBucket
    <2>2. \E p \in layer' : p.id = id
        BY <1>4, <1>5, <2>1
    <2> QED  BY <2>2 DEF InBucket
<1> QED  BY <1>0, <1>1, <1>6, <1>7, MovesKeep

LEMMA MarkLayerKeeps == ASSUME DInv, MarkLayer PROVE DInv'
<1>0. /\ UNCHANGED <<bucket, pod, row, sweep, fault>> /\ hib.pc = "layer" /\ hib' = Pushed(hib)
    BY DEF MarkLayer
<1>1. HibernationMoves
    BY <1>0, PushedColumns DEF HibernationMoves, DInv, Types
<1>2. row' \in [Disks -> Contents] /\ layer' \subseteq LayerObject
    BY <1>0 DEF DInv, Types, bucket
<1> QED  BY <1>0, <1>1, <1>2, MovesKeep DEF bucket, InBucket


-----------------------------------------------------------------------------
(* The pod comes and goes while no hibernation runs *)

LEMMA PodMoves ==
    ASSUME DInv, hib.pc = "none", UNCHANGED <<layer, head, hib, sweep, fault>>,
           pod' \in [at : Nodes \cup {None}, ckpt : 0 .. MaxEpoch, epoch : 0 .. MaxEpoch],
           pod'.epoch = pod.epoch, pod'.ckpt \in {pod.ckpt, 0}, row' \in [Disks -> Contents]
    PROVE  DInv'
<1>1. Types'
    BY DEF DInv, Types
<1>2. HibernationOk'
    <2>1. pod'.ckpt <= pod'.epoch
        BY Times, PodColumns DEF DInv, HibernationOk
    <2> QED  BY <2>1 DEF DInv, HibernationOk
<1>3. HeadsPut'
    BY DEF HeadsPut
<1>4. HeadsLive'
    BY DEF DInv, HeadsLive, Live
<1>5. HeadsNamed'
    BY DEF DInv, HeadsNamed, InBucket
<1> QED  BY <1>1, <1>2, <1>3, <1>4, <1>5 DEF DInv

LEMMA AwayIdle == ASSUME DInv, pod.at = None \/ hib = NoHibernation PROVE hib.pc = "none"
<1> QED  BY NoHibernationColumns DEF DInv, HibernationOk

LEMMA PodUpdates ==
    ASSUME Types, NEW n \in Nodes \cup {None}
    PROVE  /\ [pod EXCEPT !.at = n] \in [at : Nodes \cup {None}, ckpt : 0 .. MaxEpoch, epoch : 0 .. MaxEpoch]
           /\ [pod EXCEPT !.at = n].epoch = pod.epoch /\ [pod EXCEPT !.at = n].ckpt = pod.ckpt
<1> QED  BY DEF Types

LEMMA CreateKeeps == ASSUME DInv, NEW n \in Nodes, Create(n) PROVE DInv'
<1>0. /\ UNCHANGED <<layer, head, hib, sweep, fault>> /\ pod.at = None
      /\ pod' = [pod EXCEPT !.at = n] /\ row' = [d \in Disks |-> {}]
    BY DEF Create, bucket
<1>1. row' \in [Disks -> Contents]
    BY <1>0 DEF Contents
<1> QED  BY <1>0, <1>1, AwayIdle, PodUpdates, PodMoves DEF DInv

LEMMA DeleteKeeps == ASSUME DInv, Delete PROVE DInv'
<1>0. /\ UNCHANGED <<layer, head, hib, sweep, fault>> /\ hib = NoHibernation
      /\ pod' = [pod EXCEPT !.at = None, !.ckpt = 0] /\ row' = [d \in Disks |-> {}]
    BY DEF Delete, bucket, RemoveDevice
<1>1. row' \in [Disks -> Contents]
    BY <1>0 DEF Contents
<1>2. /\ pod' \in [at : Nodes \cup {None}, ckpt : 0 .. MaxEpoch, epoch : 0 .. MaxEpoch]
      /\ pod'.epoch = pod.epoch /\ pod'.ckpt = 0
    <2>1. 0 \in 0 .. MaxEpoch
        BY Times
    <2> QED  BY <1>0, <2>1 DEF DInv, Types
<1> QED  BY <1>0, <1>1, <1>2, AwayIdle, PodMoves

LEMMA RestoreKeeps == ASSUME DInv, NEW n \in Nodes, Restore(n) PROVE DInv'
<1> DEFINE of(d) == (CHOOSE h \in head : h.disk = d /\ h.epoch = pod.ckpt).id
<1>0. /\ UNCHANGED <<layer, head, hib, sweep, fault>> /\ pod.at = None
      /\ \A d \in Disks : \E h \in head : h.disk = d /\ h.epoch = pod.ckpt
      /\ pod' = [pod EXCEPT !.at = n] /\ row' = [d \in Disks |-> of(d)[2]]
    BY DEF Restore, bucket
<1>1. ASSUME NEW d \in Disks PROVE of(d)[2] \in Contents
    <2>1. (CHOOSE h \in head : h.disk = d /\ h.epoch = pod.ckpt) \in head
        BY <1>0
    <2>2. of(d) \in Layer
        BY <2>1, HeadColumns DEF DInv, Types
    <2> QED  BY <2>2 DEF Layer
<1> HIDE DEF of
<1>2. row' \in [Disks -> Contents]
    BY <1>0, <1>1
<1> QED  BY <1>0, <1>2, AwayIdle, PodUpdates, PodMoves DEF DInv

-----------------------------------------------------------------------------
(* The hibernation begins and ends *)

LEMMA HibernateKeeps == ASSUME DInv, Hibernate PROVE DInv'
<1>0. /\ UNCHANGED <<layer, head, row, sweep, fault>> /\ pod.at # None /\ hib = NoHibernation /\ pod.epoch < MaxEpoch
      /\ pod' = [pod EXCEPT !.epoch = pod.epoch + 1]
      /\ hib' = [NoHibernation EXCEPT !.pc = "seal"]
    BY DEF Hibernate, bucket, diskd, DInv, Types
<1>1. hib' \in Hibernation /\ hib'.pc = "seal" /\ hib'.age = 0
    BY <1>0, NoHibernationColumns DEF Hibernation
<1>2. pod.epoch + 1 \in 0 .. MaxEpoch /\ pod.ckpt < pod.epoch + 1 /\ pod.ckpt <= pod.epoch + 1
    BY <1>0, Times, PodColumns DEF DInv, HibernationOk
<1> DEFINE e == pod.epoch + 1
<1>3. e \in 0 .. MaxEpoch /\ pod.ckpt < e /\ pod.ckpt <= e
    BY <1>2
<1> HIDE DEF e
<1>4. /\ pod' \in [at : Nodes \cup {None}, ckpt : 0 .. MaxEpoch, epoch : 0 .. MaxEpoch]
      /\ pod'.at = pod.at /\ pod'.ckpt = pod.ckpt /\ pod'.epoch = e
    BY <1>0, <1>3 DEF DInv, Types, e
<1>5. Types'
    BY <1>0, <1>1, <1>4 DEF DInv, Types
<1>6. HibernationOk'
    <2>1. hib'.age <= Longest
        BY <1>1, Times
    <2> QED  BY <1>0, <1>1, <1>3, <1>4, <2>1 DEF HibernationOk
<1>7. HeadsPut'
    BY <1>1 DEF HeadsPut
<1>8. HeadsLive'
    BY <1>0, <1>4 DEF DInv, HeadsLive, Live
<1>9. HeadsNamed'
    BY <1>0 DEF DInv, HeadsNamed, InBucket
<1> QED  BY <1>5, <1>6, <1>7, <1>8, <1>9 DEF DInv

\* The checkpoint is recorded: the heads it needs are the ones put for it.
LEMMA LeaveKeeps == ASSUME DInv, Leave PROVE DInv'
<1>0. /\ UNCHANGED <<layer, head, sweep, fault>> /\ hib.pc = "leave" /\ hib' = NoHibernation
      /\ pod' = [pod EXCEPT !.at = None, !.ckpt = pod.epoch] /\ row' = [d \in Disks |-> {}]
    BY DEF Leave, bucket, RemoveDevice
<1>1. /\ pod' \in [at : Nodes \cup {None}, ckpt : 0 .. MaxEpoch, epoch : 0 .. MaxEpoch]
      /\ pod'.epoch = pod.epoch /\ pod'.ckpt = pod.epoch
    BY <1>0 DEF DInv, Types
<1>2. Types'
    BY <1>0, <1>1, NoHibernationColumns DEF DInv, Types, Contents
<1>3. HibernationOk'
    <2>1. hib'.pc = "none" /\ hib'.age <= Longest
        BY <1>0, NoHibernationColumns, Times
    <2>2. pod'.ckpt <= pod'.epoch
        BY <1>1, PodColumns, Times DEF DInv
    <2> QED  BY <1>0, <2>1, <2>2 DEF HibernationOk
<1>4. HeadsPut'
    BY <1>0, NoHibernationColumns DEF HeadsPut
<1>5. HeadsLive'
    BY <1>0, <1>1 DEF DInv, HibernationOk, HeadsPut, HeadsLive, Live
<1>6. HeadsNamed'
    BY <1>0 DEF DInv, HeadsNamed, InBucket
<1> QED  BY <1>2, <1>3, <1>4, <1>5, <1>6 DEF DInv

LEMMA EndKeeps ==
    ASSUME DInv, UNCHANGED <<layer, head, pod, row, sweep>>, hib' = NoHibernation, 
           fault # "sweep overlaps" \/ fault' = fault
    PROVE  DInv'
<1>0. 0 <= Longest
    BY Times
<1>1. hib' \in Hibernation /\ hib'.pc = "none" /\ hib'.age <= Longest
    BY <1>0, NoHibernationColumns
<1>2. Types' /\ HibernationOk' /\ HeadsPut'
    BY <1>1 DEF DInv, Types, HibernationOk, HeadsPut
<1>3. HeadsLive' /\ HeadsNamed'
    BY DEF DInv, HeadsLive, Live, HeadsNamed, InBucket
<1> QED  BY <1>2, <1>3 DEF DInv

LEMMA AbandonKeeps == ASSUME DInv, Abandon PROVE DInv'
<1> QED  BY EndKeeps DEF Abandon, bucket

LEMMA CutOffKeeps == ASSUME DInv, CutOff PROVE DInv'
<1> QED  BY EndKeeps DEF CutOff, bucket, diskd, Fault


\* A head is put when its manifest is in the bucket.
LEMMA PutHeadKeeps == ASSUME DInv, NEW d \in Disks, PutHead(d) PROVE DInv'
<1>11. PICK i : i = IdOf(d)
    OBVIOUS
<1> DEFINE new == [disk |-> d, epoch |-> pod.epoch, id |-> i, age |-> 0]
           done == hib.done \cup {d}
           pc == IF d = Own THEN "leave" ELSE "head"
<1>0. /\ UNCHANGED <<layer, pod, row, sweep, fault>> /\ hib.pc = "head" /\ Quiet /\ InBucket({i})
      /\ (d = Own => hib.done = Disks \ {Own})
      /\ head' = head \cup {new} /\ hib' = [hib EXCEPT !.done = done, !.pc = pc]
    BY <1>11 DEF PutHead, DInv, Types, Hibernation
<1>1. row[d] \in Contents /\ hib \in Hibernation /\ head \subseteq Head /\ hib.age \in Age
    BY HibernationColumns DEF DInv, Types
<1>2. i \in Layer /\ done \in SUBSET Disks /\ pc \in {"head", "leave"} /\ (pc = "leave" => done = Disks)
    BY <1>0, <1>1, <1>11, HibernationColumns DEF IdOf, Layer
<1>3. pod.epoch \in 1 .. MaxEpoch
    BY <1>0, PodColumns, Times DEF DInv, HibernationOk
<1>4. new \in Head /\ new.disk = d /\ new.epoch = pod.epoch /\ new.id = i /\ new.age = 0
    <2>1. 0 \in Age
        BY Times DEF Age
    <2> QED  BY <1>2, <1>3, <2>1 DEF Head
<1> HIDE DEF new, done, pc
<1>5. hib' \in Hibernation /\ hib'.done = done /\ hib'.pc = pc /\ hib'.age = hib.age
    BY <1>0, <1>1, <1>2 DEF Hibernation
<1>6. Types'
    BY <1>0, <1>4, <1>5 DEF DInv, Types
<1>7. HibernationOk'
    BY <1>0, <1>2, <1>5 DEF DInv, HibernationOk
<1>8. HeadsPut'
    <2> SUFFICES ASSUME NEW x \in done
                 PROVE  \E h \in head' : h.disk = x /\ h.epoch = pod'.epoch /\ h.age <= hib'.age
        BY <1>5 DEF HeadsPut
    <2>1. CASE x = d
        <3> DEFINE a == hib.age
        <3>1. a \in Age
            BY <1>1
        <3> HIDE DEF a
        <3>2. 0 <= a
            BY <3>1, Times DEF Age
        <3>3. new.age <= hib'.age
            BY <1>4, <1>5, <3>2 DEF a
        <3> QED  BY <1>0, <1>4, <2>1, <3>3
    <2>2. CASE x # d
        <3>1. x \in hib.done
            BY <2>2 DEF done
        <3>2. PICK h \in head : h.disk = x /\ h.epoch = pod.epoch /\ h.age <= hib.age
            BY <1>0, <3>1 DEF DInv, HeadsPut
        <3> QED  BY <1>0, <1>5, <3>2
    <2> QED  BY <2>1, <2>2
<1>9. HeadsLive'
    BY <1>0 DEF DInv, HeadsLive, Live
<1>10. HeadsNamed'
    <2> SUFFICES ASSUME fault # "sweep overlaps"
                 PROVE  /\ \A h \in head' : InBucket({h.id})'
                        /\ sweep'.pc = "layers" => \A h \in head' : h.id \in sweep'.keep
        BY <1>0 DEF HeadsNamed
    <2>1. sweep'.pc = "none"
        BY <1>0, NoSweepColumns DEF Quiet
    <2>2. InBucket({i})' /\ \A h \in head : InBucket({h.id})'
        BY <1>0 DEF InBucket, DInv, HeadsNamed
    <2> QED  BY <1>0, <1>4, <2>1, <2>2
<1> QED  BY <1>6, <1>7, <1>8, <1>9, <1>10 DEF DInv

-----------------------------------------------------------------------------
(* Sweeps, and time *)

LEMMA SweepMoves ==
    ASSUME DInv, UNCHANGED <<layer, head, pod, row, hib>>, sweep' \in Sweep, sweep'.pc # "layers" \/ sweep' = sweep,
           fault # "sweep overlaps" \/ fault' = fault
    PROVE  DInv'
<1>1. Types' /\ HibernationOk' /\ HeadsPut' /\ HeadsLive'
    BY DEF DInv, Types, HibernationOk, HeadsPut, HeadsLive, Live
<1>2. HeadsNamed'
    BY DEF DInv, HeadsNamed, InBucket
<1> QED  BY <1>1, <1>2 DEF DInv

\* A head that goes is neither of the checkpoint nor of the hibernation that runs,
\* which are younger than the grace.
LEMMA SweepHeadsKeeps == ASSUME DInv, NEW s \in Sweepers, SweepHeads(s) PROVE DInv'
<1> DEFINE dead == {h \in head : h.epoch # pod.ckpt /\ h.age = Grace}
           ids == {h.id : h \in head \ dead}
<1>0. /\ UNCHANGED <<layer, pod, row, hib, fault>> /\ head' = head \ dead
      /\ sweep' = [NoSweep EXCEPT !.pc = "layers", !.by = s, !.keep = ids]
    BY DEF SweepHeads, diskd
<1>1. head' \subseteq head /\ head \subseteq Head
    BY <1>0 DEF DInv, Types
<1>2. ids \in SUBSET Layer
    BY HeadColumns DEF DInv, Types
<1>3. \A h \in head' : h.id \in ids
    BY <1>0
<1>4. \A h \in head : h.epoch = pod.ckpt \/ h.age # Grace => h \in head'
    BY <1>0
<1> HIDE DEF dead, ids
<1>5. sweep' \in Sweep /\ sweep'.keep = ids
    BY <1>0, <1>2, Times DEF Sweep, NoSweep, Contents
<1>6. Types' /\ HibernationOk'
    BY <1>0, <1>1, <1>5 DEF DInv, Types, HibernationOk
<1>7. HeadsPut'
    <2> SUFFICES ASSUME hib.pc \in {"head", "leave"}, NEW d \in hib.done
                 PROVE  \E h \in head' : h.disk = d /\ h.epoch = pod.epoch /\ h.age <= hib.age
        BY <1>0 DEF HeadsPut
    <2>1. PICK h \in head : h.disk = d /\ h.epoch = pod.epoch /\ h.age <= hib.age
        BY DEF DInv, HeadsPut
    <2>2. h.age # Grace
        <3> DEFINE a == h.age
                   b == hib.age
        <3>1. a <= b /\ b <= Longest /\ a \in Age /\ b \in Age
            BY <1>1, <2>1, HeadColumns, HibernationColumns DEF DInv, HibernationOk, Types
        <3> HIDE DEF a, b
        <3>2. a # Grace
            BY <3>1, Times DEF Age
        <3> QED  BY <3>2 DEF a
    <2> QED  BY <1>4, <2>1, <2>2
<1>8. HeadsLive'
    BY <1>0, <1>4 DEF DInv, HeadsLive, Live
<1>9. HeadsNamed'
    BY <1>0, <1>1, <1>3, <1>5 DEF DInv, HeadsNamed, InBucket
<1> QED  BY <1>6, <1>7, <1>8, <1>9 DEF DInv

\* A manifest that goes is named by no head.
LEMMA LayersGo ==
    ASSUME DInv, UNCHANGED <<head, pod, row, hib>>, NEW some \in SUBSET DeadLayers, layer' = layer \ some,
           sweep.pc = "layers", sweep' \in Sweep, sweep'.pc # "layers", fault # "sweep overlaps" \/ fault' = fault
    PROVE  DInv'
<1>1. layer' \subseteq LayerObject
    BY DEF DInv, Types
<1>2. \A o \in layer : o.id \in sweep.keep => o \in layer'
    BY DEF DeadLayers
<1>3. Types' /\ HibernationOk' /\ HeadsPut' /\ HeadsLive'
    BY <1>1 DEF DInv, Types, HibernationOk, HeadsPut, HeadsLive, Live
<1>4. HeadsNamed'
    <2> SUFFICES ASSUME fault # "sweep overlaps", NEW h \in head PROVE InBucket({h.id})'
        BY DEF HeadsNamed
    <2>1. h.id \in sweep.keep /\ InBucket({h.id})
        BY DEF DInv, HeadsNamed
    <2>2. PICK o \in layer : o.id = h.id
        BY <2>1 DEF InBucket
    <2> QED  BY <1>2, <2>1, <2>2 DEF InBucket
<1> QED  BY <1>3, <1>4 DEF DInv

LEMMA SweepLayersKeeps == ASSUME DInv, SweepLayers PROVE DInv'
<1> DEFINE ids == {o.id : o \in layer'}
<1>0. /\ UNCHANGED <<head, pod, row, hib, fault>> /\ layer' = layer \ DeadLayers /\ sweep.pc = "layers"
      /\ sweep' = [sweep EXCEPT !.pc = "list", !.keep = ids]
    BY DEF SweepLayers
<1>1. layer' \subseteq LayerObject
    BY <1>0 DEF DInv, Types
<1>2. ids \in SUBSET Layer
    BY <1>1 DEF LayerObject
<1> HIDE DEF ids
<1>3. sweep' \in Sweep /\ sweep'.pc = "list"
    BY <1>0, <1>2 DEF DInv, Types, Sweep
<1> QED  BY <1>0, <1>3, LayersGo

LEMMA SweepListKeeps == ASSUME DInv, SweepList PROVE DInv'
<1> DEFINE dead == {c \in Chunks : chunk[c] = Grace /\ \A id \in sweep.keep : c \notin id[2]}
<1>0. UNCHANGED <<layer, head, pod, row, hib, fault>> /\ sweep' = [sweep EXCEPT !.pc = "delete", !.dead = dead]
    BY DEF SweepList, bucket, diskd
<1>1. dead \in Contents
    BY DEF Contents
<1> HIDE DEF dead
<1>2. sweep' \in Sweep /\ sweep'.pc = "delete"
    BY <1>0, <1>1 DEF DInv, Types, Sweep
<1> QED  BY <1>0, <1>2, SweepMoves

LEMMA SweepDeleteKeeps == ASSUME DInv, SweepDelete PROVE DInv'
<1>0. UNCHANGED <<layer, head, pod, row, hib, fault>> /\ sweep' = [sweep EXCEPT !.pc = "unmark"]
    BY DEF SweepDelete, diskd
<1>1. sweep' \in Sweep /\ sweep'.pc = "unmark"
    BY <1>0 DEF DInv, Types, Sweep
<1> QED  BY <1>0, <1>1, SweepMoves

LEMMA SweepEnds ==
    ASSUME DInv, SweepUnmark \/ SweepStops \/ SweepOverlaps \/ \E n \in Nodes, c \in Chunks : Evict(n, c)
    PROVE  DInv'
<1>1. CASE SweepUnmark
    BY <1>1, NoSweepColumns, SweepMoves DEF SweepUnmark, bucket
<1>2. CASE SweepStops
    <2>1. /\ UNCHANGED <<head, pod, row, hib>> /\ sweep' = NoSweep /\ fault = "none"
          /\ NoSweep \in Sweep /\ NoSweep.pc = "none"
        BY <1>2, NoSweepColumns DEF SweepStops, diskd, Fault
    <2>2. CASE sweep.pc = "layers"
        <3>1. PICK some \in SUBSET DeadLayers : layer' = layer \ some
            BY <1>2, <2>2 DEF SweepStops
        <3> QED  BY <2>1, <2>2, <3>1, LayersGo
    <2>3. CASE sweep.pc # "layers"
        <3>1. UNCHANGED layer
            BY <1>2, <2>3 DEF SweepStops
        <3> QED  BY <2>1, <3>1, SweepMoves
    <2> QED  BY <2>2, <2>3
<1>3. CASE SweepOverlaps
    BY <1>3, SweepMoves DEF SweepOverlaps, bucket, diskd, Fault, DInv, Types
<1>4. CASE \E n \in Nodes, c \in Chunks : Evict(n, c)
    BY <1>4, SweepMoves DEF Evict, bucket, DInv, Types
<1> QED  BY <1>1, <1>2, <1>3, <1>4


\* Ages grow together, up to Grace.
LEMMA OlderAges ==
    /\ \A a \in Age : Older(a) \in Age
    /\ \A a \in Age, b \in Age : a <= b /\ b < Grace => Older(a) <= b + 1
<1> QED  BY Times DEF Older, Age, Gone

LEMMA TickKeeps == ASSUME DInv, Tick PROVE DInv'
<1>0. /\ UNCHANGED <<pod, row, sweep, fault>> /\ sweep = NoSweep
      /\ layer' = {[o EXCEPT !.age = Older(o.age)] : o \in layer}
      /\ head' = {[h EXCEPT !.age = Older(h.age)] : h \in head}
      /\ hib # NoHibernation => hib.age < Longest
      /\ hib' = IF hib = NoHibernation THEN hib ELSE [hib EXCEPT !.age = hib.age + 1]
    <2>1. /\ {[o EXCEPT !.age = Older(@)] : o \in layer} = {[o EXCEPT !.age = Older(o.age)] : o \in layer}
          /\ {[h EXCEPT !.age = Older(@)] : h \in head} = {[h EXCEPT !.age = Older(h.age)] : h \in head}
          /\ [hib EXCEPT !.age = @ + 1] = [hib EXCEPT !.age = hib.age + 1]
        OBVIOUS
    <2> QED  BY <2>1 DEF Tick
<1>1. ASSUME NEW o \in LayerObject
      PROVE  [o EXCEPT !.age = Older(o.age)] \in LayerObject /\ [o EXCEPT !.age = Older(o.age)].id = o.id
    <2>1. PICK a : a = Older(o.age)
        OBVIOUS
    <2>2. a \in Age
        BY <2>1, OlderAges DEF LayerObject
    <2>3. [o EXCEPT !.age = a] \in LayerObject /\ [o EXCEPT !.age = a].id = o.id
        BY <2>2 DEF LayerObject
    <2> QED  BY <2>1, <2>3
<1>2. ASSUME NEW h \in Head
      PROVE  /\ [h EXCEPT !.age = Older(h.age)] \in Head /\ [h EXCEPT !.age = Older(h.age)].id = h.id
             /\ [h EXCEPT !.age = Older(h.age)].disk = h.disk /\ [h EXCEPT !.age = Older(h.age)].epoch = h.epoch
             /\ [h EXCEPT !.age = Older(h.age)].age = Older(h.age)
    <2>1. PICK a : a = Older(h.age)
        OBVIOUS
    <2>2. a \in Age
        BY <2>1, OlderAges, HeadColumns
    <2>3. /\ [h EXCEPT !.age = a] \in Head /\ [h EXCEPT !.age = a].id = h.id
          /\ [h EXCEPT !.age = a].disk = h.disk /\ [h EXCEPT !.age = a].epoch = h.epoch /\ [h EXCEPT !.age = a].age = a
        BY <2>2 DEF Head
    <2> QED  BY <2>1, <2>3
<1>3. \A o \in layer : \E p \in layer' : p \in LayerObject /\ p.id = o.id
    BY <1>0, <1>1 DEF DInv, Types
<1>4. \A p \in layer' : p \in LayerObject
    BY <1>0, <1>1 DEF DInv, Types
<1>5. \A h \in head : \E g \in head' : g.disk = h.disk /\ g.epoch = h.epoch /\ g.id = h.id /\ g.age = Older(h.age)
    BY <1>0, <1>2 DEF DInv, Types
<1>6. \A g \in head' : g \in Head /\ \E h \in head : g.id = h.id
    <2> TAKE g \in head'
    <2>1. PICK h \in head : g = [h EXCEPT !.age = Older(h.age)]
        BY <1>0
    <2>2. h \in Head
        BY DEF DInv, Types
    <2> QED  BY <1>2, <2>1, <2>2
<1>7. /\ hib' \in Hibernation /\ hib'.pc = hib.pc /\ hib'.done = hib.done /\ hib'.age <= Longest
      /\ hib.pc # "none" => hib.age < Longest /\ hib'.age = hib.age + 1
      /\ hib.pc = "none" => hib' = hib
    <2>1. CASE hib = NoHibernation
        BY <1>0, <2>1, NoHibernationColumns, Times
    <2>2. CASE hib # NoHibernation
        <3>1. PICK a : a = hib.age + 1
            OBVIOUS
        <3>2. PICK b : b = hib.age
            OBVIOUS
        <3>3. b \in Age /\ b < Longest /\ a = b + 1 /\ hib.pc # "none"
            BY <1>0, <2>2, <3>1, <3>2, HibernationColumns DEF DInv, Types, HibernationOk
        <3>4. a \in Age /\ a <= Longest
            BY <3>3, Times DEF Age
        <3>5. hib' = [hib EXCEPT !.age = a] /\ hib \in Hibernation
            BY <1>0, <2>2, <3>1 DEF DInv, Types
        <3>6. hib' \in Hibernation /\ hib'.pc = hib.pc /\ hib'.done = hib.done /\ hib'.age = a
            BY <3>4, <3>5 DEF Hibernation
        <3> QED  BY <3>1, <3>2, <3>3, <3>4, <3>6
    <2> QED  BY <2>1, <2>2
<1>8. Types'
    BY <1>0, <1>4, <1>6, <1>7 DEF DInv, Types
<1>9. HibernationOk'
    BY <1>0, <1>7 DEF DInv, HibernationOk
<1>10. HeadsPut'
    <2> SUFFICES ASSUME hib.pc \in {"head", "leave"}, NEW d \in hib.done
                 PROVE  \E g \in head' : g.disk = d /\ g.epoch = pod.epoch /\ g.age <= hib'.age
        BY <1>0, <1>7 DEF HeadsPut
    <2>1. PICK h \in head : h.disk = d /\ h.epoch = pod.epoch /\ h.age <= hib.age
        BY DEF DInv, HeadsPut
    <2>2. PICK g \in head' : g.disk = h.disk /\ g.epoch = h.epoch /\ g.age = Older(h.age)
        BY <1>5
    <2>3. PICK a, b : a = h.age /\ b = hib.age
        OBVIOUS
    <2>4. a \in Age /\ b \in Age /\ a <= b /\ b < Longest
        BY <1>7, <2>1, <2>3, HeadColumns, HibernationColumns DEF DInv, Types
    <2>5. b < Grace
        BY <2>4, Times DEF Age
    <2>6. Older(a) <= b + 1
        BY <2>4, <2>5, OlderAges
    <2>7. g.age <= hib'.age
        BY <1>7, <2>2, <2>3, <2>6
    <2> QED  BY <2>1, <2>2, <2>7
<1>11. HeadsLive'
    <2> SUFFICES ASSUME pod.ckpt # 0, NEW d \in Disks PROVE \E g \in head' : g.disk = d /\ g.epoch = pod.ckpt
        BY <1>0 DEF HeadsLive, Live
    <2>1. PICK h \in head : h.disk = d /\ h.epoch = pod.ckpt
        BY DEF DInv, HeadsLive, Live
    <2> QED  BY <1>5, <2>1
<1>12. HeadsNamed'
    <2> SUFFICES ASSUME fault # "sweep overlaps", NEW g \in head' PROVE InBucket({g.id})'
        BY <1>0, NoSweepColumns DEF HeadsNamed
    <2>1. PICK h \in head : g.id = h.id
        BY <1>6
    <2>2. PICK o \in layer : o.id = h.id
        BY DEF DInv, HeadsNamed, InBucket
    <2> QED  BY <1>3, <2>1, <2>2 DEF InBucket
<1> QED  BY <1>8, <1>9, <1>10, <1>11, <1>12 DEF DInv

-----------------------------------------------------------------------------
(* Every state *)

LEMMA InitDInv == ASSUME Init PROVE DInv
<1>0. /\ layer = {} /\ head = {} /\ hib = NoHibernation /\ sweep = NoSweep /\ row = [d \in Disks |-> {}]
      /\ pod = [at |-> None, ckpt |-> 0, epoch |-> 0]
    BY DEF Init
<1>1. /\ pod \in [at : Nodes \cup {None}, ckpt : 0 .. MaxEpoch, epoch : 0 .. MaxEpoch]
      /\ pod.ckpt = 0 /\ pod.epoch = 0
    <2>1. 0 \in 0 .. MaxEpoch
        BY Times
    <2> QED  BY <1>0, <2>1
<1>2. Types
    BY <1>0, <1>1, NoHibernationColumns, NoSweepColumns DEF Types, Contents
<1>3. HibernationOk
    <2>1. pod.ckpt <= pod.epoch
        BY <1>1
    <2> QED  BY <1>0, <2>1, NoHibernationColumns, Times DEF HibernationOk
<1>4. HeadsPut /\ HeadsLive /\ HeadsNamed
    BY <1>0, <1>1, NoHibernationColumns DEF HeadsPut, HeadsLive, HeadsNamed
<1> QED  BY <1>2, <1>3, <1>4 DEF DInv

LEMMA StepDInv == ASSUME DInv, [Next]_vars PROVE DInv'
<1>1. CASE UNCHANGED vars
    BY <1>1 DEF vars, bucket, diskd, DInv, Types, HibernationOk, HeadsPut, HeadsLive, Live, HeadsNamed, InBucket
<1>2. CASE Next
    BY <1>2, CreateKeeps, RestoreKeeps, SweepEnds, PutHeadKeeps, SealKeeps, PushChunkKeeps, DeleteKeeps,
       HibernateKeeps, PushChainKeeps, MarkKeeps, PutManifestKeeps, MarkLayerKeeps, LeaveKeeps, AbandonKeeps,
       CutOffKeeps, SweepHeadsKeeps, SweepLayersKeeps, SweepListKeeps, SweepDeleteKeeps, TickKeeps DEF Next
<1> QED  BY <1>1, <1>2

LEMMA DInvAlways == Spec => []DInv
<1>1. Init => DInv
    BY InitDInv
<1>2. DInv /\ [Next]_vars => DInv'
    BY StepDInv
<1> QED  BY <1>1, <1>2, PTL DEF Spec

\* A checkpoint's heads, one for each disk, and the manifests they name are in the
\* bucket, whatever is abandoned, cut off, swept or written again, if no sweep's
\* steps have anything between them: put_head looks for the manifest, a sweep keeps
\* what the heads name, and a hibernation's heads are younger than the grace.
THEOREM CheckpointStays == Spec => []CheckpointNamed
<1>1. DInv => CheckpointNamed
    <2> SUFFICES ASSUME DInv, pod.ckpt # 0, fault # "sweep overlaps", NEW d \in Disks
                 PROVE  \E h \in head : h.disk = d /\ Live(h) /\ InBucket({h.id})
        BY DEF CheckpointNamed
    <2>1. PICK h \in head : h.disk = d /\ Live(h)
        BY DEF DInv, HeadsLive
    <2> QED  BY <2>1 DEF DInv, HeadsNamed
<1> QED  BY <1>1, DInvAlways, PTL

-----------------------------------------------------------------------------
(* The chunks: the inductive invariant of what a checkpoint and a pod's disks need *)

Stores ==
    /\ chunk \in [Chunks -> Age \cup {Gone}] /\ used \in Contents
    /\ mark \in [Nodes -> Contents] /\ cache \in [Nodes -> Contents]
    /\ lmark \in [Nodes -> SUBSET Layer]
    /\ journal \in [Nodes -> [Disks -> Journal \cup {NoJournal}]]

\* The chunks of rows, markers and heads were written.
Written ==
    /\ \A d \in Disks : row[d] \subseteq used
    /\ \A n \in Nodes : mark[n] \subseteq used /\ \A id \in lmark[n] : id[2] \subseteq used
    /\ \A h \in head : h.id[2] \subseteq used

\* The heads of the newest epoch are those that the hibernation under way put,
\* and name the disks as they are.
Heading == hib.pc \in {"head", "leave"}
OwnHeads ==
    \A h \in head :
        /\ h.epoch <= pod.epoch
        /\ hib.pc # "none" /\ h.epoch = pod.epoch => Heading /\ h.disk \in hib.done /\ h.id = IdOf(h.disk)

\* Journals are on the pod's node.
OnlyHere == \A n \in Nodes, d \in Disks : n # pod.at => journal[n][d] = NoJournal

\* A disk that is pushed has a journal, which was young when the push began.
Pushing == hib.pc \in {"push", "manifest", "layer"}
Journaled ==
    /\ Pushing \/ hib.pc = "expire" => journal[pod.at][hib.disk] # NoJournal
    /\ Pushing => journal[pod.at][hib.disk].age <= Trust + hib.age
    /\ hib.pc = "push" => hib.todo \subseteq row[hib.disk] /\ hib.pushed \subseteq row[hib.disk] \ hib.todo
    /\ hib.pc \in {"manifest", "layer"} => hib.todo = {}

\* The checkpoint that is recorded has c for disk d.
Base(c, d) == \E h \in head : h.disk = d /\ Live(h) /\ c \in h.id[2]

\* c is in the checkpoint of d, or was put since d's journal was started and is
\* gone only if that is old.
Fresh(c, d) ==
    \/ Base(c, d)
    \/ /\ chunk[c] <= journal[pod.at][d].age
       /\ chunk[c] = Gone => journal[pod.at][d].age = Grace

\* c is in the checkpoint of d, or in the bucket until the hibernation ends.
Near(c, d) == Base(c, d) \/ (chunk[c] # Gone /\ chunk[c] <= Trust + hib.age)

Headed(d) == Heading /\ d \in hib.done
Done(d) == Heading \/ (hib.pc # "none" /\ d \in hib.done)

\* The disks, and the contents of the checkpoint, have no chunk in common.
Apart ==
    /\ \A d, x \in Disks : d # x => row[d] \cap row[x] = {}
    /\ \A g, h \in head : Live(g) /\ Live(h) /\ g.disk # h.disk => g.id[2] \cap h.id[2] = {}

\* What the recorded checkpoint's heads name is in the bucket.
LiveWhole == \A h \in head : Live(h) => HasChunks(h.id)

\* What a disk has stays in the bucket, once the hibernation is done with it.
DoneThere == \A d \in Disks : Done(d) => \A c \in row[d] : Near(c, d)

\* What a push has put, or trusted a marker for, is in the bucket or lost to an old journal.
PushingThere == Pushing => \A c \in row[hib.disk] \ hib.todo : Fresh(c, hib.disk)

\* What a disk's journal lists was put since the journal was started.
JournalsTrue ==
    pod.at # None => \A d \in Disks : journal[pod.at][d] # NoJournal =>
        /\ \A c \in journal[pod.at][d].chunks : Fresh(c, d)
        /\ \A id \in journal[pod.at][d].layers : \A c \in id[2] : Fresh(c, d)

\* A marker of what a disk has is of the checkpoint, or the disk's journal lists it.
MarksKnown ==
    pod.at # None => \A n \in Nodes, d \in Disks : ~Headed(d) =>
        \A c \in mark[n] \cap row[d] :
            Base(c, d) \/ (n = pod.at /\ journal[n][d] # NoJournal /\ c \in journal[n][d].chunks)

\* The same of the marker of a manifest.
LayersKnown ==
    pod.at # None => \A n \in Nodes, d \in Disks : ~Headed(d) =>
        \A id \in lmark[n] : id[1] = d /\ id[2] \subseteq row[d] =>
            \/ \A c \in id[2] : Base(c, d)
            \/ n = pod.at /\ journal[n][d] # NoJournal /\ id \in journal[n][d].layers

\* What a disk has is in the cache or the checkpoint, and in the checkpoint if no
\* journal pins it.
Kept ==
    pod.at # None => \A d \in Disks : ~Headed(d) => \A c \in row[d] :
        Base(c, d) \/ (c \in cache[pod.at] /\ journal[pod.at][d] # NoJournal)

\* A sweep has listed every head, and is about to delete only old chunks that the
\* checkpoint does not have.
SweepSpares ==
    /\ sweep.pc = "list" => \A h \in head : h.id \in sweep.keep
    /\ sweep.pc = "delete" => \A c \in sweep.dead : chunk[c] = Grace /\ \A d \in Disks : ~Base(c, d)

\* No hibernation was cut off past its first head, no contents recurred and
\* nothing came between a sweep's steps.
Calm == fault \in {"none", "sweep stops"}
ChunksOk ==
    /\ Apart /\ LiveWhole /\ DoneThere /\ PushingThere /\ JournalsTrue /\ MarksKnown /\ LayersKnown
    /\ Kept /\ SweepSpares

CInv == Stores /\ Written /\ OwnHeads /\ OnlyHere /\ Journaled /\ (Calm => ChunksOk)

-----------------------------------------------------------------------------
(* Columns *)

LEMMA JournalColumns ==
    /\ NoJournal \notin Journal /\ NewJournal \in Journal /\ NewJournal # NoJournal
    /\ NewJournal.age = 0 /\ NewJournal.chunks = {} /\ NewJournal.layers = {}
    /\ \A j \in Journal : j.age \in Age /\ j.chunks \in Contents /\ j.layers \in SUBSET Layer
<1>1. 0 \in Age /\ Gone \notin Age
    BY Times DEF Age, Gone
<1>2. NewJournal \in Journal
    BY <1>1 DEF NewJournal, Journal, Contents
<1>3. \A j \in Journal : j.age \in Age /\ j.chunks \in Contents /\ j.layers \in SUBSET Layer
    BY DEF Journal
<1>4. NoJournal.age = Gone
    BY DEF NoJournal
<1>5. NoJournal \notin Journal
    BY <1>1, <1>3, <1>4
<1> QED  BY <1>2, <1>3, <1>5 DEF NewJournal

\* A journal that is there.
LEMMA JournalThere ==
    ASSUME Stores, NEW n \in Nodes, NEW d \in Disks
    PROVE  /\ journal[n][d] \in Journal \cup {NoJournal} /\ journal[n] \in [Disks -> Journal \cup {NoJournal}]
           /\ journal[n][d] # NoJournal => journal[n][d] \in Journal
<1> QED  BY DEF Stores

LEMMA BaseFrame ==
    ASSUME head' = head, pod'.ckpt = pod.ckpt
    PROVE  /\ \A h : Live(h)' <=> Live(h)
           /\ \A c, d : Base(c, d)' <=> Base(c, d)
<1>1. \A h : Live(h)' <=> Live(h)
    BY DEF Live
<1> QED  BY <1>1 DEF Base

\* The chunks of the checkpoint are in the bucket.
LEMMA BaseThere ==
    ASSUME LiveWhole, NEW c, NEW d, Base(c, d)
    PROVE  chunk[c] # Gone
<1> QED  BY DEF LiveWhole, Base, HasChunks

LEMMA CalmBefore ==
    ASSUME Calm', fault' = fault \/ Fault("cut off") \/ Fault("sweep stops") \/ Fault("contents recur")
                    \/ Fault("sweep overlaps")
    PROVE  Calm
<1> QED  BY DEF Calm, Fault

LEMMA QuietCalm == ASSUME Calm, Quiet PROVE sweep = NoSweep /\ sweep.pc = "none"
<1> QED  BY NoSweepColumns DEF Calm, Quiet

LEMMA HereNode == ASSUME Types, HibernationOk, hib.pc # "none" PROVE pod.at \in Nodes /\ pod.at # None
<1> QED  BY DEF Types, HibernationOk

LEMMA SpareNothing == ASSUME sweep'.pc = "none" PROVE SweepSpares'
<1> QED  BY DEF SweepSpares

-----------------------------------------------------------------------------
(* Steps of a sweep *)

\* Nothing but markers changes, which go.
LEMMA MarkersGo ==
    ASSUME DInv, CInv, UNCHANGED <<chunk, head, pod, row, journal, hib, cache, used>>,
           mark' \in [Nodes -> Contents], lmark' \in [Nodes -> SUBSET Layer],
           \A n \in Nodes : mark'[n] \subseteq mark[n] /\ lmark'[n] \subseteq lmark[n],
           Calm' => Calm /\ SweepSpares'
    PROVE  CInv'
<1>1. (\A h : Live(h)' <=> Live(h)) /\ (\A c, d : Base(c, d)' <=> Base(c, d))
    BY BaseFrame
<1>2. Stores' /\ OnlyHere'
    BY DEF CInv, Stores, OnlyHere
<1>3. Written'
    BY DEF CInv, Written
<1>4. OwnHeads' /\ Journaled'
    BY DEF CInv, OwnHeads, Heading, IdOf, Journaled, Pushing
<1>5. ASSUME Calm' PROVE ChunksOk'
    <2>1. Calm /\ SweepSpares' /\ ChunksOk
        BY <1>5 DEF CInv
    <2>2. Apart' /\ LiveWhole' /\ DoneThere'
        BY <1>1, <2>1 DEF ChunksOk, Apart, LiveWhole, HasChunks, DoneThere, Done, Heading, Near
    <2>3. PushingThere' /\ JournalsTrue'
        BY <1>1, <2>1 DEF ChunksOk, PushingThere, Pushing, Fresh, JournalsTrue
    <2>4. Kept' /\ (\A d : Headed(d)' <=> Headed(d))
        BY <1>1, <2>1 DEF ChunksOk, Kept, Headed, Heading
    <2>5. MarksKnown'
        BY <1>1, <2>1, <2>4 DEF ChunksOk, MarksKnown
    <2>6. LayersKnown'
        BY <1>1, <2>1, <2>4 DEF ChunksOk, LayersKnown
    <2> QED  BY <2>1, <2>2, <2>3, <2>4, <2>5, <2>6 DEF ChunksOk
<1> QED  BY <1>2, <1>3, <1>4, <1>5 DEF CInv

LEMMA SweepLayersC == ASSUME DInv, CInv, SweepLayers PROVE CInv'
<1> DEFINE dead == DeadLayers
           ids == {o.id : o \in dead}
           keep == {o.id : o \in layer'}
<1>0. /\ UNCHANGED <<chunk, head, pod, row, mark, journal, hib, cache, used, fault>> /\ sweep.pc = "layers"
      /\ lmark' = [lmark EXCEPT ![sweep.by] = lmark[sweep.by] \ ids] /\ layer' = layer \ dead
      /\ sweep' = [sweep EXCEPT !.pc = "list", !.keep = keep]
    BY DEF SweepLayers
<1>1. \A o \in layer : o.id \in sweep.keep => o \in layer'
    BY <1>0 DEF DeadLayers
<1>2. \A o \in layer' : o.id \in keep
    OBVIOUS
<1> HIDE DEF dead, ids, keep
<1>3. mark \in [Nodes -> Contents] /\ lmark \in [Nodes -> SUBSET Layer]
    BY DEF CInv, Stores
<1>4. lmark' \in [Nodes -> SUBSET Layer] /\ \A n \in Nodes : lmark'[n] \subseteq lmark[n]
    BY <1>0, <1>3
<1>5. sweep'.pc = "list" /\ sweep'.keep = keep
    BY <1>0 DEF DInv, Types, Sweep
<1>6. ASSUME Calm' PROVE Calm /\ SweepSpares'
    <2>1. Calm
        BY <1>0, <1>6 DEF Calm
    <2>2. ASSUME NEW h \in head PROVE h.id \in keep
        <3>1. h.id \in sweep.keep /\ InBucket({h.id})
            BY <1>0, <2>1 DEF Calm, DInv, HeadsNamed
        <3>2. PICK o \in layer : o.id = h.id
            BY <3>1 DEF InBucket
        <3> QED  BY <1>1, <1>2, <3>1, <3>2
    <2> QED  BY <1>0, <1>5, <2>1, <2>2 DEF SweepSpares
<1>7. mark' \in [Nodes -> Contents] /\ \A n \in Nodes : mark'[n] \subseteq mark[n]
    BY <1>0, <1>3
<1> QED  BY <1>0, <1>4, <1>6, <1>7, MarkersGo

LEMMA SweepListC == ASSUME DInv, CInv, SweepList PROVE CInv'
<1> DEFINE dead == {c \in Chunks : chunk[c] = Grace /\ \A id \in sweep.keep : c \notin id[2]}
<1>0. UNCHANGED <<bucket, pod, diskd, hib, used, fault>> /\ sweep' = [sweep EXCEPT !.pc = "delete", !.dead = dead]
      /\ sweep.pc = "list"
    BY DEF SweepList
<1>1. \A c \in dead : chunk[c] = Grace /\ \A id \in sweep.keep : c \notin id[2]
    OBVIOUS
<1> HIDE DEF dead
<1>2. sweep'.pc = "delete" /\ sweep'.dead = dead
    BY <1>0 DEF DInv, Types, Sweep
<1>3. ASSUME Calm' PROVE Calm /\ SweepSpares'
    <2>1. Calm /\ \A h \in head : h.id \in sweep.keep
        BY <1>0, <1>3 DEF Calm, CInv, ChunksOk, SweepSpares
    <2>2. \A c \in dead, d \in Disks : ~Base(c, d)
        BY <1>1, <2>1 DEF Base
    <2>3. \A c, d : Base(c, d)' <=> Base(c, d)
        BY <1>0, BaseFrame DEF bucket
    <2> QED  BY <1>0, <1>1, <1>2, <2>1, <2>2, <2>3 DEF SweepSpares, bucket
<1>4. mark \in [Nodes -> Contents] /\ lmark \in [Nodes -> SUBSET Layer]
    BY DEF CInv, Stores
<1> QED  BY <1>0, <1>3, <1>4, MarkersGo DEF bucket, diskd

LEMMA UnchangedC == ASSUME DInv, CInv, UNCHANGED vars PROVE CInv'
<1>0. mark \in [Nodes -> Contents] /\ lmark \in [Nodes -> SUBSET Layer]
    BY DEF CInv, Stores
<1>1. \A c, d : Base(c, d)' <=> Base(c, d)
    BY BaseFrame DEF vars, bucket
<1>2. Calm' => Calm /\ SweepSpares'
    BY <1>1 DEF vars, bucket, Calm, CInv, ChunksOk, SweepSpares
<1> QED  BY <1>0, <1>2, MarkersGo DEF vars, bucket, diskd

\* A head that goes is not of the checkpoint.
LEMMA SweepHeadsC == ASSUME DInv, CInv, NEW s \in Sweepers, SweepHeads(s) PROVE CInv'
<1> DEFINE dead == {h \in head : h.epoch # pod.ckpt /\ h.age = Grace}
           ids == {h.id : h \in head \ dead}
<1>0. /\ UNCHANGED <<chunk, pod, row, mark, lmark, journal, cache, hib, used, fault>> /\ head' = head \ dead
      /\ sweep' = [NoSweep EXCEPT !.pc = "layers", !.by = s, !.keep = ids]
    BY DEF SweepHeads, diskd
<1>1. (\A h \in head' : h \in head) /\ \A h \in head : h.epoch = pod.ckpt => h \in head'
    BY <1>0
<1> HIDE DEF dead, ids
<1>2. sweep'.pc = "layers"
    BY <1>0 DEF NoSweep
<1>3. (\A h : Live(h)' <=> Live(h)) /\ (\A h : Live(h) => (h \in head' <=> h \in head))
    BY <1>0, <1>1 DEF Live
<1>4. \A c, d : Base(c, d)' <=> Base(c, d)
    BY <1>3 DEF Base
<1>5. Stores' /\ OnlyHere' /\ Written'
    BY <1>0, <1>1 DEF CInv, Stores, OnlyHere, Written
<1>6. OwnHeads' /\ Journaled'
    BY <1>0, <1>1 DEF CInv, OwnHeads, Heading, IdOf, Journaled, Pushing
<1>7. ASSUME Calm' PROVE ChunksOk'
    <2>1. ChunksOk
        BY <1>0, <1>7 DEF CInv, Calm
    <2>2. Apart' /\ LiveWhole'
        BY <1>0, <1>3, <2>1 DEF ChunksOk, Apart, LiveWhole, HasChunks
    <2>3. DoneThere' /\ PushingThere' /\ JournalsTrue'
        BY <1>0, <1>4, <2>1 DEF ChunksOk, DoneThere, Done, Heading, Near, PushingThere, Pushing, Fresh, JournalsTrue
    <2>4. Kept' /\ (\A d : Headed(d)' <=> Headed(d))
        BY <1>0, <1>4, <2>1 DEF ChunksOk, Kept, Headed, Heading
    <2>5. MarksKnown' /\ LayersKnown'
        BY <1>0, <1>4, <2>1, <2>4 DEF ChunksOk, MarksKnown, LayersKnown
    <2>6. SweepSpares'
        BY <1>2 DEF SweepSpares
    <2> QED  BY <2>2, <2>3, <2>4, <2>5, <2>6 DEF ChunksOk
<1> QED  BY <1>5, <1>6, <1>7 DEF CInv

\* What is put or trusted by the hibernation that runs is younger than the grace.
LEMMA YoungEnough ==
    ASSUME DInv, NEW a \in Age \cup {Gone}, a <= Trust + hib.age
    PROVE  a # Grace
<1>1. PICK b : b = hib.age
    OBVIOUS
<1>2. b \in Age /\ b <= Longest /\ a <= Trust + b
    BY <1>1, HibernationColumns DEF DInv, Types, HibernationOk
<1>3. Trust \in Nat /\ Longest \in Nat /\ Grace \in Nat /\ Grace > Trust + Longest
    BY DiskStoreConstants
<1> QED  BY <1>2, <1>3 DEF Age, Gone

\* A chunk that goes is of no checkpoint, and its journal is as old as the grace.
LEMMA ChunksGo ==
    ASSUME DInv, CInv, UNCHANGED <<head, pod, row, mark, lmark, journal, cache, hib, used>>, sweep.pc = "delete",
           NEW some \in SUBSET sweep.dead, DeleteChunks(some), sweep'.pc \in {"unmark", "none"}, Calm' => Calm
    PROVE  CInv'
<1>0. chunk' = [c \in Chunks |-> IF c \in some THEN Gone ELSE chunk[c]]
    BY DEF DeleteChunks
<1>1. sweep.dead \in Contents
    BY DEF DInv, Types, Sweep
<1>2. chunk \in [Chunks -> Age \cup {Gone}] /\ chunk' \in [Chunks -> Age \cup {Gone}]
    BY <1>0 DEF CInv, Stores
<1>3. \A c \in Chunks : chunk'[c] = IF c \in some THEN Gone ELSE chunk[c]
    BY <1>0
<1>4. (\A h : Live(h)' <=> Live(h)) /\ (\A c, d : Base(c, d)' <=> Base(c, d))
    BY <1>0, BaseFrame
<1>5. Stores' /\ OnlyHere' /\ Written'
    BY <1>0, <1>2 DEF CInv, Stores, OnlyHere, Written
<1>6. OwnHeads' /\ Journaled'
    BY <1>0 DEF CInv, OwnHeads, Heading, IdOf, Journaled, Pushing
<1>7. ASSUME Calm' PROVE ChunksOk'
    <2>1. ChunksOk
        BY <1>7 DEF CInv
    <2>2. \A c \in some : c \in Chunks /\ chunk[c] = Grace /\ \A d \in Disks : ~Base(c, d)
        BY <1>0, <1>1, <2>1 DEF ChunksOk, SweepSpares, Contents
    <2>3. \A h \in head : h.id[2] \subseteq Chunks /\ h.disk \in Disks
        BY HeadColumns DEF DInv, Types, Layer, Contents
    <2>4. ASSUME NEW h \in head, Live(h), NEW c \in h.id[2] PROVE chunk'[c] # Gone
        <3>1. Base(c, h.disk) /\ c \in Chunks /\ h.disk \in Disks
            BY <2>3, <2>4 DEF Base
        <3>2. chunk[c] # Gone /\ c \notin some
            BY <2>1, <2>2, <3>1, BaseThere DEF ChunksOk
        <3> QED  BY <1>3, <3>1, <3>2
    <2>5. Apart' /\ LiveWhole'
        BY <1>0, <1>4, <2>1, <2>4 DEF ChunksOk, Apart, LiveWhole, HasChunks
    <2>6. row \in [Disks -> Contents] /\ hib.disk \in Disks
        BY HibernationColumns DEF DInv, Types
    <2>7. ASSUME NEW c \in Chunks, NEW d \in Disks, Near(c, d) PROVE Near(c, d)'
        <3>1. CASE Base(c, d)
            BY <1>4, <3>1 DEF Near
        <3>2. CASE ~Base(c, d)
            <4>1. chunk[c] # Gone /\ chunk[c] <= Trust + hib.age /\ chunk[c] \in Age \cup {Gone}
                BY <1>2, <2>7, <3>2 DEF Near
            <4>2. c \notin some
                BY <2>2, <4>1, YoungEnough
            <4> QED  BY <1>0, <1>3, <4>1, <4>2 DEF Near
        <3> QED  BY <3>1, <3>2
    <2>8. DoneThere'
        BY <1>0, <2>1, <2>6, <2>7 DEF ChunksOk, DoneThere, Done, Heading, Contents
    <2>9. ASSUME NEW c \in Chunks, NEW d \in Disks, Fresh(c, d), pod.at \in Nodes, journal[pod.at][d] # NoJournal
          PROVE  Fresh(c, d)'
        <3>1. CASE Base(c, d)
            BY <1>4, <3>1 DEF Fresh
        <3>2. CASE ~Base(c, d)
            <4>0. PICK a, b : a = chunk[c] /\ b = journal[pod.at][d].age
                OBVIOUS
            <4>1. a <= b /\ (a = Gone => b = Grace) /\ b \in Age /\ a \in Age \cup {Gone}
                BY <1>2, <2>9, <3>2, <4>0, JournalThere, JournalColumns DEF Fresh, CInv
            <4>2. CASE c \in some
                <5>1. a = Grace /\ chunk'[c] = Gone
                    BY <1>3, <2>2, <4>0, <4>2
                <5>2. b = Grace /\ Gone <= b
                    BY <4>1, <5>1, Times DEF Age, Gone
                <5> QED  BY <1>0, <4>0, <5>1, <5>2 DEF Fresh
            <4>3. CASE c \notin some
                BY <1>0, <1>3, <4>0, <4>1, <4>3 DEF Fresh
            <4> QED  BY <4>2, <4>3
        <3> QED  BY <3>1, <3>2
    <2>10. PushingThere'
        <3> SUFFICES ASSUME Pushing, NEW d \in Disks, d = hib.disk, NEW c \in row[d] \ hib.todo PROVE Fresh(c, d)'
            BY <1>0, <2>6 DEF PushingThere, Pushing
        <3>1. pod.at \in Nodes /\ journal[pod.at][d] # NoJournal /\ c \in Chunks
            BY <2>6, HereNode DEF DInv, Pushing, CInv, Journaled, Contents
        <3>2. Fresh(c, d)
            BY <2>1 DEF ChunksOk, PushingThere
        <3> QED  BY <2>9, <3>1, <3>2
    <2>11. JournalsTrue'
        <3> SUFFICES ASSUME pod.at # None, NEW d \in Disks, journal[pod.at][d] # NoJournal
                     PROVE  /\ \A c \in journal[pod.at][d].chunks : Fresh(c, d)'
                            /\ \A id \in journal[pod.at][d].layers : \A c \in id[2] : Fresh(c, d)'
            BY <1>0 DEF JournalsTrue
        <3>1. pod.at \in Nodes
            BY DEF DInv, Types
        <3>2. journal[pod.at][d].chunks \subseteq Chunks /\ \A id \in journal[pod.at][d].layers : id[2] \subseteq Chunks
            BY <3>1, JournalThere, JournalColumns DEF CInv, Contents, Layer
        <3> QED  BY <2>1, <2>9, <3>1, <3>2 DEF ChunksOk, JournalsTrue
    <2>12. Kept' /\ (\A d : Headed(d)' <=> Headed(d))
        BY <1>0, <1>4, <2>1 DEF ChunksOk, Kept, Headed, Heading
    <2>13. MarksKnown' /\ LayersKnown'
        BY <1>0, <1>4, <2>1, <2>12 DEF ChunksOk, MarksKnown, LayersKnown
    <2>14. SweepSpares'
        BY DEF SweepSpares
    <2> QED  BY <2>5, <2>8, <2>10, <2>11, <2>12, <2>13, <2>14 DEF ChunksOk
<1> QED  BY <1>5, <1>6, <1>7 DEF CInv

LEMMA SweepDeleteC == ASSUME DInv, CInv, SweepDelete PROVE CInv'
<1>1. /\ UNCHANGED <<head, pod, row, mark, lmark, journal, cache, hib, used, fault>> /\ sweep.pc = "delete"
      /\ DeleteChunks(sweep.dead) /\ sweep' = [sweep EXCEPT !.pc = "unmark"]
    BY DEF SweepDelete, diskd
<1>2. sweep'.pc = "unmark" /\ (Calm' => Calm)
    BY <1>1 DEF DInv, Types, Sweep, Calm
<1> QED  BY <1>1, <1>2, ChunksGo

LEMMA SweepEndsC == ASSUME DInv, CInv, SweepUnmark \/ SweepStops \/ SweepOverlaps PROVE CInv'
<1>0. mark \in [Nodes -> Contents] /\ lmark \in [Nodes -> SUBSET Layer] /\ NoSweep.pc = "none"
    BY NoSweepColumns DEF CInv, Stores
<1>1. CASE SweepUnmark
    <2>1. /\ UNCHANGED <<chunk, head, pod, row, lmark, journal, hib, cache, used, fault>> /\ sweep' = NoSweep
          /\ mark' = [mark EXCEPT ![sweep.by] = mark[sweep.by] \ sweep.dead]
        BY <1>1 DEF SweepUnmark, bucket
    <2>2. mark' \in [Nodes -> Contents] /\ \A n \in Nodes : mark'[n] \subseteq mark[n]
        BY <1>0, <2>1 DEF Contents
    <2>3. Calm' => Calm /\ SweepSpares'
        BY <1>0, <2>1, SpareNothing DEF Calm
    <2> QED  BY <1>0, <2>1, <2>2, <2>3, MarkersGo
<1>2. CASE SweepStops
    <2>1. Calm' => Calm /\ SweepSpares'
        BY <1>0, <1>2, SpareNothing, CalmBefore DEF SweepStops
    <2>2. UNCHANGED <<head, pod, row, mark, lmark, journal, cache, hib, used>> /\ sweep'.pc = "none"
        BY <1>0, <1>2 DEF SweepStops, diskd
    <2>3. CASE sweep.pc = "delete"
        <3>1. PICK some \in SUBSET sweep.dead : DeleteChunks(some)
            BY <1>2, <2>3 DEF SweepStops
        <3> QED  BY <2>1, <2>2, <2>3, <3>1, ChunksGo
    <2>4. CASE sweep.pc # "delete"
        <3>1. UNCHANGED chunk
            BY <1>2, <2>4 DEF SweepStops
        <3> QED  BY <1>0, <2>1, <2>2, <3>1, MarkersGo
    <2> QED  BY <2>3, <2>4
<1>3. CASE SweepOverlaps
    <2>1. ~Calm'
        BY <1>3 DEF SweepOverlaps, Fault, Calm
    <2> QED  BY <1>0, <1>3, <2>1, MarkersGo DEF SweepOverlaps, bucket, diskd
<1> QED  BY <1>1, <1>2, <1>3

-----------------------------------------------------------------------------
(* Time *)

LEMMA TickHeads ==
    ASSUME DInv, Tick
    PROVE  /\ \A h \in head : \E g \in head' : g.disk = h.disk /\ g.epoch = h.epoch /\ g.id = h.id
           /\ \A g \in head' : \E h \in head : g.disk = h.disk /\ g.epoch = h.epoch /\ g.id = h.id
<1>0. head' = {[h EXCEPT !.age = Older(h.age)] : h \in head}
    <2>1. {[h EXCEPT !.age = Older(@)] : h \in head} = {[h EXCEPT !.age = Older(h.age)] : h \in head}
        OBVIOUS
    <2> QED  BY <2>1 DEF Tick
<1>1. ASSUME NEW h \in head
      PROVE  /\ [h EXCEPT !.age = Older(h.age)].id = h.id /\ [h EXCEPT !.age = Older(h.age)].disk = h.disk
             /\ [h EXCEPT !.age = Older(h.age)].epoch = h.epoch
    <2>1. PICK a : a = Older(h.age)
        OBVIOUS
    <2>2. h \in Head
        BY DEF DInv, Types
    <2>3. [h EXCEPT !.age = a].id = h.id /\ [h EXCEPT !.age = a].disk = h.disk /\ [h EXCEPT !.age = a].epoch = h.epoch
        BY <2>2 DEF Head
    <2> QED  BY <2>1, <2>3
<1> QED  BY <1>0, <1>1

LEMMA TickHibernation ==
    ASSUME DInv, Tick
    PROVE  /\ hib'.pc = hib.pc /\ hib'.done = hib.done /\ hib'.disk = hib.disk /\ hib'.todo = hib.todo
           /\ hib'.pushed = hib.pushed
           /\ hib.pc # "none" => hib.age < Longest /\ hib'.age = hib.age + 1
<1>0. /\ hib # NoHibernation => hib.age < Longest
      /\ hib' = IF hib = NoHibernation THEN hib ELSE [hib EXCEPT !.age = hib.age + 1]
    <2>1. [hib EXCEPT !.age = @ + 1] = [hib EXCEPT !.age = hib.age + 1]
        OBVIOUS
    <2> QED  BY <2>1 DEF Tick
<1>1. CASE hib = NoHibernation
    BY <1>0, <1>1, NoHibernationColumns
<1>2. CASE hib # NoHibernation
    <2>1. PICK a : a = hib.age + 1
        OBVIOUS
    <2>2. hib' = [hib EXCEPT !.age = a] /\ hib \in Hibernation /\ hib.age < Longest
        BY <1>0, <1>2, <2>1 DEF DInv, Types
    <2>3. /\ hib'.pc = hib.pc /\ hib'.done = hib.done /\ hib'.disk = hib.disk /\ hib'.todo = hib.todo
          /\ hib'.pushed = hib.pushed /\ hib'.age = a
        BY <2>2 DEF Hibernation
    <2> QED  BY <2>1, <2>2, <2>3
<1> QED  BY <1>1, <1>2

LEMMA TickJournals ==
    ASSUME DInv, CInv, Tick
    PROVE  /\ journal' \in [Nodes -> [Disks -> Journal \cup {NoJournal}]]
           /\ \A n \in Nodes, d \in Disks :
                /\ journal'[n][d] = NoJournal <=> journal[n][d] = NoJournal
                /\ journal[n][d] # NoJournal =>
                     /\ journal'[n][d].chunks = journal[n][d].chunks /\ journal'[n][d].layers = journal[n][d].layers
                     /\ journal'[n][d].age = Older(journal[n][d].age)
<1> DEFINE J(n, d) == [journal[n][d] EXCEPT !.age = Older(journal[n][d].age)]
<1>0. journal' = [n \in Nodes |-> [d \in Disks |-> J(n, d)]]
    <2>1. ASSUME NEW n \in Nodes, NEW d \in Disks
          PROVE  [journal[n][d] EXCEPT !.age = Older(@)] = J(n, d)
        OBVIOUS
    <2> QED  BY <2>1, Zenon DEF Tick
<1>1. ASSUME NEW n \in Nodes, NEW d \in Disks
      PROVE  /\ J(n, d) \in Journal \cup {NoJournal} /\ (J(n, d) = NoJournal <=> journal[n][d] = NoJournal)
             /\ journal[n][d] # NoJournal =>
                     /\ J(n, d).chunks = journal[n][d].chunks /\ J(n, d).layers = journal[n][d].layers
                     /\ J(n, d).age = Older(journal[n][d].age)
    <2>1. PICK j : j = journal[n][d]
        OBVIOUS
    <2>2. PICK a : a = Older(j.age)
        OBVIOUS
    <2>3. PICK k : k = [j EXCEPT !.age = a]
        OBVIOUS
    <2>4. k = J(n, d)
        BY <2>1, <2>2, <2>3
    <2>5. CASE j = NoJournal
        <3>1. a = Gone
            BY <2>2, <2>5 DEF NoJournal, Older
        <3>2. k = NoJournal
            BY <2>3, <2>5, <3>1 DEF NoJournal
        <3> QED  BY <2>1, <2>4, <2>5, <3>2
    <2>6. CASE j # NoJournal
        <3>1. j \in Journal
            BY <2>1, <2>6, JournalThere DEF CInv
        <3>2. a \in Age
            BY <2>2, <3>1, JournalColumns, OlderAges
        <3>3. k \in Journal /\ k.chunks = j.chunks /\ k.layers = j.layers /\ k.age = a
            BY <2>3, <3>1, <3>2 DEF Journal
        <3>4. k # NoJournal
            BY <3>3, JournalColumns
        <3> HIDE DEF J
        <3> QED  BY <2>1, <2>2, <2>4, <2>6, <3>3, <3>4
    <2> QED  BY <2>5, <2>6
<1> HIDE DEF J
<1> QED  BY <1>0, <1>1

\* Ages grow together.
LEMMA OlderKeeps ==
    ASSUME NEW a \in Age \cup {Gone}, NEW b \in Age, a <= b, a = Gone => b = Grace
    PROVE  Older(a) <= Older(b) /\ (Older(a) = Gone => Older(b) = Grace)
<1> QED  BY Times DEF Older, Age, Gone

LEMMA OlderNear ==
    ASSUME NEW a \in Age \cup {Gone}, NEW b \in Int, a # Gone, a <= b
    PROVE  Older(a) # Gone /\ Older(a) <= b + 1 /\ (b \in Age => Older(b) <= b + 1)
<1> QED  BY Times DEF Older, Age, Gone

LEMMA TickC == ASSUME DInv, CInv, Tick PROVE CInv'
<1>0. /\ UNCHANGED <<pod, row, mark, lmark, cache, sweep, used, fault>> /\ sweep = NoSweep
      /\ chunk' = [c \in Chunks |-> Older(chunk[c])]
    BY DEF Tick
<1>1. /\ \A h \in head : \E g \in head' : g.disk = h.disk /\ g.epoch = h.epoch /\ g.id = h.id
      /\ \A g \in head' : \E h \in head : g.disk = h.disk /\ g.epoch = h.epoch /\ g.id = h.id
    BY TickHeads
<1>2. /\ hib'.pc = hib.pc /\ hib'.done = hib.done /\ hib'.disk = hib.disk /\ hib'.todo = hib.todo
      /\ hib'.pushed = hib.pushed
      /\ hib.pc # "none" => hib.age < Longest /\ hib'.age = hib.age + 1
    BY TickHibernation
<1>3. /\ journal' \in [Nodes -> [Disks -> Journal \cup {NoJournal}]]
      /\ \A n \in Nodes, d \in Disks :
                /\ journal'[n][d] = NoJournal <=> journal[n][d] = NoJournal
                /\ journal[n][d] # NoJournal =>
                     /\ journal'[n][d].chunks = journal[n][d].chunks /\ journal'[n][d].layers = journal[n][d].layers
                     /\ journal'[n][d].age = Older(journal[n][d].age)
    BY TickJournals
<1>4. \A c, d : Base(c, d)' <=> Base(c, d)
    BY <1>0, <1>1 DEF Base, Live
<1>5. chunk \in [Chunks -> Age \cup {Gone}] /\ \A c \in Chunks : chunk'[c] = Older(chunk[c])
    BY <1>0 DEF CInv, Stores
<1>6. \A a \in Age \cup {Gone} : Older(a) \in Age \cup {Gone} /\ (Older(a) = Gone <=> a = Gone)
    BY Times DEF Older, Age, Gone
<1>7. Stores'
    BY <1>0, <1>3, <1>5, <1>6 DEF CInv, Stores
<1>8. OnlyHere' /\ Written'
    BY <1>0, <1>1, <1>3 DEF CInv, OnlyHere, Written
<1>9. OwnHeads'
    BY <1>0, <1>1, <1>2 DEF CInv, OwnHeads, Heading, IdOf
<1>10. hib.disk \in Disks /\ hib.age \in Age /\ row \in [Disks -> Contents]
    BY HibernationColumns DEF DInv, Types
<1>11. hib.pc # "none" => pod.at \in Nodes
    BY HereNode DEF DInv
<1>11a. Trust + hib.age \in Int /\ (hib.pc # "none" => Trust + hib'.age = Trust + hib.age + 1)
    <2>1. PICK e : e = hib.age
        OBVIOUS
    <2>2. e \in Int /\ Trust \in Int
        <3>1. e \in Age
            BY <1>10, <2>1
        <3>2. e \in Int
            BY <3>1, Times DEF Age
        <3>3. Trust \in Nat
            BY DiskStoreConstants
        <3> QED  BY <3>2, <3>3
    <2>3. Trust + e \in Int /\ Trust + (e + 1) = Trust + e + 1
        BY <2>2
    <2> QED  BY <1>2, <2>1, <2>3
<1>12. ASSUME Pushing PROVE journal'[pod.at][hib.disk].age <= Trust + hib'.age
    <2>0. PICK j, a, b : j = journal[pod.at][hib.disk] /\ a = journal[pod.at][hib.disk].age /\ b = Trust + hib.age
        OBVIOUS
    <2>1. j # NoJournal /\ j \in Journal /\ a <= b /\ hib.pc # "none" /\ pod.at \in Nodes
        BY <1>10, <1>11, <1>12, <2>0, JournalThere DEF CInv, Journaled, Pushing
    <2>2. a \in Age /\ b \in Int
        BY <1>11a, <2>0, <2>1, JournalColumns
    <2>3. Older(a) <= b + 1 /\ a # Gone
        BY <2>1, <2>2, Times DEF Older, Age, Gone
    <2>4. Trust + hib'.age = b + 1
        BY <1>11a, <2>0, <2>1
    <2>5. journal'[pod.at][hib.disk].age = Older(a)
        BY <1>3, <1>10, <2>0, <2>1
    <2> QED  BY <2>3, <2>4, <2>5
<1>13. Journaled'
    BY <1>0, <1>2, <1>3, <1>10, <1>11, <1>12 DEF CInv, Journaled, Pushing
<1>14. ASSUME Calm' PROVE ChunksOk'
    <2>1. ChunksOk
        BY <1>0, <1>14 DEF CInv, Calm
    <2>2. Apart'
        BY <1>0, <1>1, <2>1 DEF ChunksOk, Apart, Live
    <2>3. LiveWhole'
        <3> SUFFICES ASSUME NEW g \in head', g.epoch = pod.ckpt, NEW c \in g.id[2] PROVE chunk'[c] # Gone
            BY <1>0 DEF LiveWhole, HasChunks, Live
        <3>1. PICK h \in head : h.epoch = pod.ckpt /\ h.id = g.id
            BY <1>1
        <3>2. c \in Chunks
            BY <3>1, HeadColumns DEF DInv, Types, Layer, Contents
        <3>3. chunk[c] # Gone
            BY <2>1, <3>1 DEF ChunksOk, LiveWhole, HasChunks, Live
        <3> QED  BY <1>5, <1>6, <3>2, <3>3
    <2>4. ASSUME NEW c \in Chunks, NEW d \in Disks, Near(c, d), hib.pc # "none" PROVE Near(c, d)'
        <3>1. CASE Base(c, d)
            BY <1>4, <3>1 DEF Near
        <3>2. CASE ~Base(c, d)
            <4>0. PICK a, b : a = chunk[c] /\ b = Trust + hib.age
                OBVIOUS
            <4>1. a # Gone /\ a <= b /\ a \in Age \cup {Gone}
                BY <1>5, <2>4, <3>2, <4>0 DEF Near
            <4>2. b \in Int /\ Trust + hib'.age = b + 1
                BY <1>11a, <2>4, <4>0
            <4>3. Older(a) # Gone /\ Older(a) <= b + 1
                BY <4>1, <4>2, OlderNear
            <4> QED  BY <1>5, <4>0, <4>2, <4>3 DEF Near
        <3> QED  BY <3>1, <3>2
    <2>5. DoneThere'
        BY <1>0, <1>2, <1>10, <2>1, <2>4 DEF ChunksOk, DoneThere, Done, Heading, Contents
    <2>6. ASSUME NEW c \in Chunks, NEW d \in Disks, Fresh(c, d), pod.at \in Nodes, journal[pod.at][d] # NoJournal
          PROVE  Fresh(c, d)'
        <3>1. CASE Base(c, d)
            BY <1>4, <3>1 DEF Fresh
        <3>2. CASE ~Base(c, d)
            <4>0. PICK a, b : a = chunk[c] /\ b = journal[pod.at][d].age
                OBVIOUS
            <4>1. a <= b /\ (a = Gone => b = Grace) /\ b \in Age /\ a \in Age \cup {Gone}
                BY <1>5, <2>6, <3>2, <4>0, JournalThere, JournalColumns DEF Fresh, CInv
            <4>2. Older(a) <= Older(b) /\ (Older(a) = Gone => Older(b) = Grace)
                BY <4>1, OlderKeeps
            <4>3. chunk'[c] = Older(a) /\ journal'[pod.at][d].age = Older(b) /\ pod'.at = pod.at
                BY <1>0, <1>3, <1>5, <2>6, <4>0
            <4> QED  BY <4>2, <4>3 DEF Fresh
        <3> QED  BY <3>1, <3>2
    <2>7. PushingThere'
        <3> SUFFICES ASSUME Pushing, NEW d \in Disks, d = hib.disk, NEW c \in row[d] \ hib.todo PROVE Fresh(c, d)'
            BY <1>0, <1>2, <1>10 DEF PushingThere, Pushing
        <3>1. pod.at \in Nodes /\ journal[pod.at][d] # NoJournal /\ c \in Chunks
            BY <1>10, HereNode DEF DInv, Pushing, CInv, Journaled, Contents
        <3>2. Fresh(c, d)
            BY <2>1 DEF ChunksOk, PushingThere
        <3> QED  BY <2>6, <3>1, <3>2
    <2>8. JournalsTrue'
        <3> SUFFICES ASSUME pod.at # None, NEW d \in Disks, journal'[pod.at][d] # NoJournal
                     PROVE  /\ \A c \in journal'[pod.at][d].chunks : Fresh(c, d)'
                            /\ \A id \in journal'[pod.at][d].layers : \A c \in id[2] : Fresh(c, d)'
            BY <1>0 DEF JournalsTrue
        <3>1. pod.at \in Nodes
            BY DEF DInv, Types
        <3>2. /\ journal[pod.at][d] # NoJournal
              /\ journal'[pod.at][d].chunks = journal[pod.at][d].chunks
              /\ journal'[pod.at][d].layers = journal[pod.at][d].layers
            BY <1>3, <3>1
        <3>3. journal[pod.at][d].chunks \subseteq Chunks /\ \A id \in journal[pod.at][d].layers : id[2] \subseteq Chunks
            BY <3>1, <3>2, JournalThere, JournalColumns DEF CInv, Contents, Layer
        <3>4. /\ \A c \in journal[pod.at][d].chunks : Fresh(c, d)
              /\ \A id \in journal[pod.at][d].layers : \A c \in id[2] : Fresh(c, d)
            BY <2>1, <3>2 DEF ChunksOk, JournalsTrue
        <3> QED  BY <2>6, <3>1, <3>2, <3>3, <3>4
    <2>9. \A d : Headed(d)' <=> Headed(d)
        BY <1>2 DEF Headed, Heading
    <2>10. pod.at # None => pod.at \in Nodes
        BY DEF DInv, Types
    <2>11. Kept'
        BY <1>0, <1>3, <1>4, <2>1, <2>9, <2>10 DEF ChunksOk, Kept
    <2>12. MarksKnown' /\ LayersKnown'
        BY <1>0, <1>3, <1>4, <2>1, <2>9 DEF ChunksOk, MarksKnown, LayersKnown
    <2>13. SweepSpares'
        BY <1>0, NoSweepColumns, SpareNothing
    <2> QED  BY <2>2, <2>3, <2>5, <2>7, <2>8, <2>11, <2>12, <2>13 DEF ChunksOk
<1> QED  BY <1>7, <1>8, <1>9, <1>13, <1>14 DEF CInv

-----------------------------------------------------------------------------
(* The pod comes and goes *)

\* Nothing is on a node that has no journals and no rows.
LEMMA NothingThere ==
    ASSUME \A d \in Disks : row'[d] = {}, hib'.pc = "none", sweep'.pc = "none",
           pod'.at # None => \A d \in Disks : journal'[pod'.at][d] = NoJournal,
           LiveWhole', \A g, h \in head' : Live(g)' /\ Live(h)' /\ g.disk # h.disk => g.id[2] \cap h.id[2] = {}
    PROVE  ChunksOk'
<1>1. Apart' /\ SweepSpares'
    BY SpareNothing DEF Apart
<1>2. DoneThere' /\ PushingThere'
    BY DEF DoneThere, Done, Heading, PushingThere, Pushing
<1>3. JournalsTrue' /\ MarksKnown' /\ Kept'
    BY DEF JournalsTrue, MarksKnown, Kept
<1>4. LayersKnown'
    BY DEF LayersKnown
<1> QED  BY <1>1, <1>2, <1>3, <1>4 DEF ChunksOk

LEMMA CreateC == ASSUME DInv, CInv, NEW n \in Nodes, Create(n) PROVE CInv'
<1>0. /\ UNCHANGED <<bucket, mark, lmark, cache, journal, hib, sweep, used, fault>> /\ pod.at = None /\ Quiet
      /\ pod' = [pod EXCEPT !.at = n] /\ row' = [d \in Disks |-> {}]
    BY DEF Create
<1>1. hib.pc = "none"
    BY <1>0, AwayIdle
<1>2. pod'.ckpt = pod.ckpt /\ pod'.epoch = pod.epoch /\ pod'.at = n
    BY <1>0 DEF DInv, Types
<1>3. \A m \in Nodes, d \in Disks : journal[m][d] = NoJournal
    BY <1>0, DiskStoreConstants DEF CInv, OnlyHere
<1>4. (\A h : Live(h)' <=> Live(h)) /\ head' = head
    BY <1>0, <1>2, BaseFrame DEF bucket
<1>5. Stores' /\ Written' /\ OnlyHere'
    BY <1>0, <1>3 DEF CInv, Stores, Written, OnlyHere, bucket
<1>6. OwnHeads' /\ Journaled'
    BY <1>0, <1>1, <1>2, <1>4 DEF CInv, OwnHeads, Journaled, Pushing
<1>7. ASSUME Calm' PROVE ChunksOk'
    <2>1. ChunksOk /\ sweep.pc = "none"
        BY <1>0, <1>7, QuietCalm DEF CInv, Calm
    <2>2. LiveWhole' /\ \A g, h \in head' : Live(g)' /\ Live(h)' /\ g.disk # h.disk => g.id[2] \cap h.id[2] = {}
        BY <1>0, <1>4, <2>1 DEF ChunksOk, LiveWhole, HasChunks, Apart, bucket
    <2> QED  BY <1>0, <1>1, <1>2, <1>3, <2>1, <2>2, NothingThere
<1> QED  BY <1>5, <1>6, <1>7 DEF CInv

\* RemoveDevice leaves no journal anywhere.
LEMMA NoJournalsLeft ==
    ASSUME Stores, OnlyHere, RemoveDevice(pod.at)
    PROVE  /\ journal' \in [Nodes -> [Disks -> Journal \cup {NoJournal}]]
           /\ \A m \in Nodes, d \in Disks : journal'[m][d] = NoJournal
           /\ row' = [d \in Disks |-> {}]
<1> DEFINE none == [d \in Disks |-> NoJournal]
<1>1. journal' = [m \in Nodes |-> IF m = pod.at THEN none ELSE journal[m]] /\ row' = [d \in Disks |-> {}]
    BY DEF RemoveDevice
<1>2. none \in [Disks -> Journal \cup {NoJournal}] /\ \A d \in Disks : none[d] = NoJournal
    OBVIOUS
<1> HIDE DEF none
<1>3. journal' \in [Nodes -> [Disks -> Journal \cup {NoJournal}]]
    BY <1>1, <1>2 DEF Stores
<1>4. ASSUME NEW m \in Nodes, NEW d \in Disks PROVE journal'[m][d] = NoJournal
    BY <1>1, <1>2 DEF Stores, OnlyHere
<1> QED  BY <1>1, <1>3, <1>4

LEMMA DeleteC == ASSUME DInv, CInv, Delete PROVE CInv'
<1>0. /\ UNCHANGED <<bucket, mark, lmark, cache, hib, sweep, used, fault>> /\ Quiet
      /\ pod' = [pod EXCEPT !.at = None, !.ckpt = 0] /\ RemoveDevice(pod.at) /\ hib = NoHibernation
    BY DEF Delete
<1>1. hib.pc = "none"
    BY <1>0, NoHibernationColumns
<1>2. pod'.ckpt = 0 /\ pod'.epoch = pod.epoch /\ pod'.at = None
    BY <1>0 DEF DInv, Types
<1>3. /\ journal' \in [Nodes -> [Disks -> Journal \cup {NoJournal}]]
      /\ \A m \in Nodes, d \in Disks : journal'[m][d] = NoJournal
      /\ row' = [d \in Disks |-> {}]
    BY <1>0, <1>1, NoJournalsLeft DEF CInv
<1>4. \A h \in head' : ~Live(h)'
    <2> SUFFICES ASSUME NEW h \in head PROVE h.epoch # 0
        BY <1>0, <1>2 DEF Live, bucket
    <2>1. h.epoch \in 1 .. MaxEpoch
        BY HeadColumns DEF DInv, Types
    <2> QED  BY <2>1, Times
<1>5. Stores' /\ Written' /\ OnlyHere'
    BY <1>0, <1>3 DEF CInv, Stores, Written, OnlyHere, bucket
<1>6. OwnHeads' /\ Journaled'
    BY <1>0, <1>1, <1>2 DEF CInv, OwnHeads, Journaled, Pushing, bucket
<1>7. ASSUME Calm' PROVE ChunksOk'
    <2>1. sweep.pc = "none"
        BY <1>0, <1>7, QuietCalm DEF Calm
    <2>2. LiveWhole' /\ \A g, h \in head' : Live(g)' /\ Live(h)' /\ g.disk # h.disk => g.id[2] \cap h.id[2] = {}
        BY <1>4 DEF LiveWhole
    <2> QED  BY <1>0, <1>1, <1>2, <1>3, <2>1, <2>2, NothingThere
<1> QED  BY <1>5, <1>6, <1>7 DEF CInv

\* The checkpoint that is recorded is what the disks have, which is in the bucket.
LEMMA LeaveC == ASSUME DInv, CInv, Leave PROVE CInv'
<1>0. /\ UNCHANGED <<bucket, mark, lmark, cache, sweep, used, fault>> /\ hib.pc = "leave" /\ Quiet
      /\ pod' = [pod EXCEPT !.at = None, !.ckpt = pod.epoch] /\ RemoveDevice(pod.at) /\ hib' = NoHibernation
    BY DEF Leave
<1>1. hib'.pc = "none" /\ pod.at \in Nodes
    BY <1>0, NoHibernationColumns, HereNode DEF DInv
<1>2. pod'.ckpt = pod.epoch /\ pod'.epoch = pod.epoch /\ pod'.at = None
    BY <1>0 DEF DInv, Types
<1>3. /\ journal' \in [Nodes -> [Disks -> Journal \cup {NoJournal}]]
      /\ \A m \in Nodes, d \in Disks : journal'[m][d] = NoJournal
      /\ row' = [d \in Disks |-> {}]
    BY <1>0, <1>1, NoJournalsLeft DEF CInv
<1>4. \A h \in head' : h \in head /\ h.disk \in Disks /\ (Live(h)' => h.id = <<h.disk, row[h.disk]>>)
    BY <1>0, <1>2, HeadColumns DEF Live, bucket, CInv, OwnHeads, IdOf, DInv, Types
<1>5. Stores' /\ Written' /\ OnlyHere'
    BY <1>0, <1>3 DEF CInv, Stores, Written, OnlyHere, bucket
<1>6. OwnHeads' /\ Journaled'
    BY <1>0, <1>1, <1>2 DEF CInv, OwnHeads, Journaled, Pushing, bucket
<1>7. ASSUME Calm' PROVE ChunksOk'
    <2>1. ChunksOk /\ sweep.pc = "none"
        BY <1>0, <1>7, QuietCalm DEF CInv, Calm
    <2>2. ASSUME NEW h \in head', Live(h)', NEW c \in h.id[2] PROVE chunk'[c] # Gone
        <3>1. h.disk \in Disks /\ c \in row[h.disk]
            BY <1>4, <2>2
        <3>2. Near(c, h.disk)
            BY <1>0, <2>1, <3>1 DEF ChunksOk, DoneThere, Done, Heading
        <3>3. chunk[c] # Gone
            BY <2>1, <3>2, BaseThere DEF ChunksOk, Near
        <3> QED  BY <1>0, <3>3 DEF bucket
    <2>3. LiveWhole' 
        BY <2>2 DEF LiveWhole, HasChunks
    <2>4. \A g, h \in head' : Live(g)' /\ Live(h)' /\ g.disk # h.disk => g.id[2] \cap h.id[2] = {}
        BY <1>4, <2>1 DEF ChunksOk, Apart
    <2> QED  BY <1>0, <1>1, <1>2, <1>3, <2>1, <2>3, <2>4, NothingThere
<1> QED  BY <1>5, <1>6, <1>7 DEF CInv

\* The disks are those of the checkpoint.
LEMMA RestoreC == ASSUME DInv, CInv, NEW n \in Nodes, Restore(n) PROVE CInv'
<1> DEFINE of(d) == (CHOOSE h \in head : h.disk = d /\ h.epoch = pod.ckpt).id
           new == {of(d) : d \in Disks} \ local[n]
           chunks == UNION {id[2] : id \in new}
           none == [d \in Disks |-> NoJournal]
<1>0. /\ UNCHANGED <<bucket, cache, hib, sweep, used, fault>> /\ pod.at = None /\ Quiet
      /\ \A d \in Disks : \E h \in head : h.disk = d /\ h.epoch = pod.ckpt
      /\ pod' = [pod EXCEPT !.at = n] /\ row' = [d \in Disks |-> of(d)[2]]
      /\ mark' = [mark EXCEPT ![n] = mark[n] \cup chunks] /\ lmark' = [lmark EXCEPT ![n] = lmark[n] \cup new]
      /\ journal' = [journal EXCEPT ![n] = none]
    BY DEF Restore
<1>1. hib.pc = "none"
    BY <1>0, AwayIdle
<1>2. pod'.ckpt = pod.ckpt /\ pod'.epoch = pod.epoch /\ pod'.at = n
    BY <1>0 DEF DInv, Types
<1>3. ASSUME NEW d \in Disks
      PROVE  \E h \in head : h.disk = d /\ Live(h) /\ h.id = of(d)
    <2>1. PICK h : h = (CHOOSE g \in head : g.disk = d /\ g.epoch = pod.ckpt)
        OBVIOUS
    <2>2. h \in head /\ h.disk = d /\ h.epoch = pod.ckpt /\ h.id = of(d)
        BY <1>0, <2>1
    <2> QED  BY <2>2 DEF Live
<1>4. \A id \in new : \E d \in Disks : id = of(d)
    OBVIOUS
<1>5. \A c \in chunks : \E id \in new : c \in id[2]
    OBVIOUS
<1>6. none \in [Disks -> Journal \cup {NoJournal}] /\ \A d \in Disks : none[d] = NoJournal
    OBVIOUS
<1>7. \A d \in Disks : row'[d] = of(d)[2]
    BY <1>0
<1> HIDE DEF of, new, chunks, none
<1>8. \A d \in Disks : of(d) \in Layer /\ of(d)[2] \in Contents /\ of(d)[2] \subseteq used
    BY <1>3, HeadColumns DEF DInv, Types, Layer, CInv, Written
<1>9. new \in SUBSET Layer /\ chunks \in Contents /\ chunks \subseteq used /\ \A id \in new : id[2] \subseteq used
    BY <1>4, <1>5, <1>8 DEF Contents
<1>10. mark' \in [Nodes -> Contents] /\ lmark' \in [Nodes -> SUBSET Layer]
    BY <1>0, <1>9 DEF CInv, Stores, Contents
<1>11. journal' \in [Nodes -> [Disks -> Journal \cup {NoJournal}]]
    BY <1>0, <1>6 DEF CInv, Stores
<1>12. \A m \in Nodes, d \in Disks : journal'[m][d] = NoJournal
    <2>1. \A m \in Nodes, d \in Disks : journal[m][d] = NoJournal
        BY <1>0, DiskStoreConstants DEF CInv, OnlyHere
    <2>2. \A m \in Nodes : journal'[m] = IF m = n THEN none ELSE journal[m]
        BY <1>0 DEF CInv, Stores
    <2> QED  BY <1>6, <2>1, <2>2
<1>13. Stores' /\ OnlyHere'
    BY <1>0, <1>10, <1>11, <1>12 DEF CInv, Stores, OnlyHere, bucket
<1>14. Written'
    <2>1. \A m \in Nodes : mark'[m] \subseteq mark[m] \cup chunks /\ lmark'[m] \subseteq lmark[m] \cup new
        BY <1>0 DEF CInv, Stores
    <2> QED  BY <1>0, <1>7, <1>8, <1>9, <2>1 DEF CInv, Written, bucket
<1>15. OwnHeads' /\ Journaled'
    BY <1>0, <1>1, <1>2 DEF CInv, OwnHeads, Journaled, Pushing, bucket
<1>16. (\A h : Live(h)' <=> Live(h)) /\ head' = head /\ (\A c, d : Base(c, d)' <=> Base(c, d))
    BY <1>0, <1>2, BaseFrame DEF bucket
<1>17. \A d \in Disks : \A c \in row'[d] : Base(c, d)'
    BY <1>3, <1>7, <1>16 DEF Base
<1>18. ASSUME Calm' PROVE ChunksOk'
    <2>1. ChunksOk /\ sweep'.pc = "none"
        BY <1>0, <1>18, QuietCalm DEF CInv, Calm
    <2>2. LiveWhole' /\ SweepSpares'
        BY <1>0, <1>16, <2>1, SpareNothing DEF ChunksOk, LiveWhole, HasChunks, bucket
    <2>3. Apart'
        BY <1>0, <1>3, <1>7, <1>16, <2>1 DEF ChunksOk, Apart
    <2>4. DoneThere' /\ PushingThere'
        BY <1>0, <1>1 DEF DoneThere, Done, Heading, PushingThere, Pushing
    <2>5. JournalsTrue'
        BY <1>2, <1>12 DEF JournalsTrue
    <2>6. MarksKnown' /\ Kept'
        BY <1>17 DEF MarksKnown, Kept
    <2>7. LayersKnown'
        BY <1>17 DEF LayersKnown
    <2> QED  BY <2>2, <2>3, <2>4, <2>5, <2>6, <2>7 DEF ChunksOk
<1> QED  BY <1>13, <1>14, <1>15, <1>18 DEF CInv

-----------------------------------------------------------------------------
(* A hibernation's steps that move no chunk *)

\* A step that leaves the bucket's chunks and heads, and what the node has, alone.
LEMMA StoresSame ==
    ASSUME ChunksOk, UNCHANGED <<chunk, head, row, mark, lmark, cache, journal>>,
           pod'.at = pod.at, pod'.ckpt = pod.ckpt, \A d \in Disks : Headed(d) => Headed(d)'
    PROVE  Apart' /\ LiveWhole' /\ JournalsTrue' /\ MarksKnown' /\ LayersKnown' /\ Kept'
<1>1. (\A h : Live(h)' <=> Live(h)) /\ (\A c, d : Base(c, d)' <=> Base(c, d))
    BY BaseFrame
<1>2. Apart' /\ LiveWhole'
    BY <1>1 DEF ChunksOk, Apart, LiveWhole, HasChunks
<1>3. JournalsTrue' /\ Kept'
    BY <1>1 DEF ChunksOk, JournalsTrue, Fresh, Kept
<1>4. MarksKnown' /\ LayersKnown'
    BY <1>1 DEF ChunksOk, MarksKnown, LayersKnown
<1> QED  BY <1>2, <1>3, <1>4

LEMMA EvictC == ASSUME DInv, CInv, NEW n \in Nodes, NEW c \in Chunks, Evict(n, c) PROVE CInv'
<1>0. /\ UNCHANGED <<bucket, pod, row, mark, lmark, journal, hib, sweep, used, fault>> /\ c \notin Pinned(n)
      /\ cache' = [cache EXCEPT ![n] = cache[n] \ {c}]
    BY DEF Evict
<1>1. (\A h : Live(h)' <=> Live(h)) /\ (\A x, d : Base(x, d)' <=> Base(x, d))
    BY <1>0, BaseFrame DEF bucket
<1>2. cache \in [Nodes -> Contents] /\ cache' \in [Nodes -> Contents]
    BY <1>0 DEF CInv, Stores, Contents
<1>3. Stores' /\ OnlyHere' /\ Written'
    BY <1>0, <1>2 DEF CInv, Stores, OnlyHere, Written, bucket
<1>4. OwnHeads' /\ Journaled'
    BY <1>0 DEF CInv, OwnHeads, Heading, IdOf, Journaled, Pushing, bucket
<1>5. ASSUME Calm' PROVE ChunksOk'
    <2>1. ChunksOk
        BY <1>0, <1>5 DEF CInv, Calm
    <2>2. Apart' /\ LiveWhole' /\ DoneThere'
        BY <1>0, <1>1, <2>1 DEF ChunksOk, Apart, LiveWhole, HasChunks, DoneThere, Done, Heading, Near, bucket
    <2>3. PushingThere' /\ JournalsTrue' /\ SweepSpares'
        BY <1>0, <1>1, <2>1 DEF ChunksOk, PushingThere, Pushing, Fresh, JournalsTrue, SweepSpares, bucket
    <2>4. \A d : Headed(d)' <=> Headed(d)
        BY <1>0 DEF Headed, Heading
    <2>5. MarksKnown' /\ LayersKnown'
        BY <1>0, <1>1, <2>1, <2>4 DEF ChunksOk, MarksKnown, LayersKnown
    <2>6. Kept'
        <3> SUFFICES ASSUME pod.at # None, NEW d \in Disks, ~Headed(d), NEW x \in row[d], ~Base(x, d)
                     PROVE  x \in cache'[pod.at] /\ journal[pod.at][d] # NoJournal
            BY <1>0, <1>1, <2>4 DEF Kept
        <3>1. x \in cache[pod.at] /\ journal[pod.at][d] # NoJournal
            BY <2>1 DEF ChunksOk, Kept
        <3>2. pod.at = n => x # c
            BY <1>0, <3>1 DEF Pinned
        <3>3. pod.at \in Nodes
            BY DEF DInv, Types
        <3> QED  BY <1>0, <1>2, <3>1, <3>2, <3>3
    <2> QED  BY <2>2, <2>3, <2>5, <2>6 DEF ChunksOk
<1> QED  BY <1>3, <1>4, <1>5 DEF CInv

LEMMA HibernateC == ASSUME DInv, CInv, Hibernate PROVE CInv'
<1>0. /\ UNCHANGED <<bucket, diskd, sweep, used, fault>> /\ hib = NoHibernation /\ Quiet
      /\ pod' = [pod EXCEPT !.epoch = pod.epoch + 1] /\ hib' = [NoHibernation EXCEPT !.pc = "seal"]
    BY DEF Hibernate, DInv, Types
<1>1. hib.pc = "none" /\ hib'.pc = "seal" /\ hib'.done = {}
    BY <1>0, NoHibernationColumns DEF NoHibernation
<1>2. pod'.at = pod.at /\ pod'.ckpt = pod.ckpt /\ pod'.epoch = pod.epoch + 1
    BY <1>0 DEF DInv, Types
<1>3. Stores' /\ OnlyHere' /\ Written'
    BY <1>0, <1>2 DEF CInv, Stores, OnlyHere, Written, bucket, diskd
<1>4. Journaled'
    BY <1>1 DEF Journaled, Pushing
<1>5. OwnHeads'
    <2> SUFFICES ASSUME NEW h \in head PROVE h.epoch <= pod.epoch + 1 /\ h.epoch # pod.epoch + 1
        BY <1>0, <1>2 DEF OwnHeads, bucket
    <2>1. PICK a, b : a = h.epoch /\ b = pod.epoch
        OBVIOUS
    <2>2. a \in 1 .. MaxEpoch /\ b \in 0 .. MaxEpoch /\ a <= b
        BY <2>1, HeadColumns, PodColumns DEF DInv, Types, CInv, OwnHeads
    <2>3. a <= b + 1 /\ a # b + 1
        BY <2>2, Times
    <2> QED  BY <2>1, <2>3
<1>6. ASSUME Calm' PROVE ChunksOk'
    <2>1. ChunksOk /\ sweep'.pc = "none"
        BY <1>0, <1>6, QuietCalm DEF CInv, Calm
    <2>2. Apart' /\ LiveWhole' /\ JournalsTrue' /\ MarksKnown' /\ LayersKnown' /\ Kept'
        BY <1>0, <1>1, <1>2, <2>1, StoresSame DEF Headed, Heading, bucket, diskd
    <2>3. DoneThere' /\ PushingThere'
        BY <1>1 DEF DoneThere, Done, Heading, PushingThere, Pushing
    <2> QED  BY <2>1, <2>2, <2>3, SpareNothing DEF ChunksOk
<1> QED  BY <1>3, <1>4, <1>5, <1>6 DEF CInv

LEMMA CutOffC == ASSUME DInv, CInv, CutOff PROVE CInv'
<1>0. UNCHANGED <<bucket, pod, diskd, sweep, used>> /\ hib'.pc = "none" /\ ~Calm'
    BY NoHibernationColumns DEF CutOff, Fault, Calm
<1>1. Stores' /\ OnlyHere' /\ Written'
    BY <1>0 DEF CInv, Stores, OnlyHere, Written, bucket, diskd
<1>2. Journaled' /\ OwnHeads'
    BY <1>0 DEF CInv, Journaled, Pushing, OwnHeads, bucket
<1> QED  BY <1>0, <1>1, <1>2 DEF CInv

LEMMA PutManifestC == ASSUME DInv, CInv, PutManifest PROVE CInv'
<1>0. /\ UNCHANGED <<chunk, head, pod, diskd, sweep, used, fault>> /\ hib.pc = "manifest" /\ Quiet
      /\ hib' = [hib EXCEPT !.pc = "layer"]
    BY DEF PutManifest
<1>1. /\ hib'.pc = "layer" /\ hib'.disk = hib.disk /\ hib'.todo = hib.todo /\ hib'.pushed = hib.pushed
      /\ hib'.done = hib.done /\ hib'.age = hib.age
    BY <1>0 DEF DInv, Types, Hibernation
<1>2. Stores' /\ OnlyHere' /\ Written'
    BY <1>0 DEF CInv, Stores, OnlyHere, Written, diskd
<1>3. Journaled'
    BY <1>0, <1>1 DEF CInv, Journaled, Pushing, diskd
<1>4. OwnHeads'
    BY <1>0, <1>1 DEF CInv, OwnHeads, Heading
<1>5. ASSUME Calm' PROVE ChunksOk'
    <2>1. ChunksOk /\ sweep'.pc = "none"
        BY <1>0, <1>5, QuietCalm DEF CInv, Calm
    <2>2. Apart' /\ LiveWhole' /\ JournalsTrue' /\ MarksKnown' /\ LayersKnown' /\ Kept'
        BY <1>0, <2>1, StoresSame DEF Headed, Heading, diskd
    <2>3. \A c, d : Base(c, d)' <=> Base(c, d)
        BY <1>0, BaseFrame
    <2>4. DoneThere'
        BY <1>0, <1>1, <2>1, <2>3 DEF ChunksOk, DoneThere, Done, Heading, Near, diskd
    <2>5. PushingThere'
        BY <1>0, <1>1, <2>1, <2>3 DEF ChunksOk, PushingThere, Pushing, Fresh, diskd
    <2> QED  BY <2>1, <2>2, <2>4, <2>5, SpareNothing DEF ChunksOk
<1> QED  BY <1>2, <1>3, <1>4, <1>5 DEF CInv

\* What was put is listed, and then marked.
LEMMA MarkPushedJournals ==
    ASSUME DInv, CInv, hib.pc = "push", MarkPushed(pod.at)
    PROVE  /\ journal' \in [Nodes -> [Disks -> Journal \cup {NoJournal}]] /\ mark' \in [Nodes -> Contents]
           /\ pod.at \in Nodes /\ hib.disk \in Disks /\ journal[pod.at][hib.disk] # NoJournal
           /\ \A n \in Nodes, d \in Disks : n # pod.at \/ d # hib.disk => journal'[n][d] = journal[n][d]
           /\ journal'[pod.at][hib.disk] # NoJournal
           /\ journal'[pod.at][hib.disk].age = journal[pod.at][hib.disk].age
           /\ journal'[pod.at][hib.disk].layers = journal[pod.at][hib.disk].layers
           /\ journal'[pod.at][hib.disk].chunks = journal[pod.at][hib.disk].chunks \cup hib.pushed
           /\ mark'[pod.at] = mark[pod.at] \cup hib.pushed
           /\ \A n \in Nodes : n # pod.at => mark'[n] = mark[n]
           /\ hib.pushed \subseteq row[hib.disk] \ hib.todo /\ hib.pushed \subseteq used
<1>1. pod.at \in Nodes /\ hib.disk \in Disks /\ journal[pod.at][hib.disk] # NoJournal
    <2>1. pod.at \in Nodes
        BY HereNode DEF DInv
    <2>2. hib.disk \in Disks
        BY HibernationColumns DEF DInv, Types
    <2> QED  BY <2>1, <2>2 DEF CInv, Journaled, Pushing
<1>2. hib.pushed \in Contents /\ hib.pushed \subseteq row[hib.disk] \ hib.todo /\ hib.pushed \subseteq used
    BY <1>1, HibernationColumns DEF DInv, Types, CInv, Journaled, Written
<1>3. PICK n, d, j, p : n = pod.at /\ d = hib.disk /\ j = journal[n][d] /\ p = hib.pushed
    OBVIOUS
<1>4. n \in Nodes /\ d \in Disks /\ j \in Journal /\ p \in Contents
    BY <1>1, <1>2, <1>3, JournalThere DEF CInv
<1>5. PICK k : k = [j EXCEPT !.chunks = j.chunks \cup p]
    OBVIOUS
<1>6. /\ k \in Journal /\ k.age = j.age /\ k.layers = j.layers /\ k.chunks = j.chunks \cup p /\ k # NoJournal
    <2>1. j.chunks \cup p \in Contents
        BY <1>4, JournalColumns DEF Contents
    <2>2. PICK z : z = j.chunks \cup p
        OBVIOUS
    <2>3. k \in Journal /\ k.age = j.age /\ k.layers = j.layers /\ k.chunks = z
        BY <1>4, <1>5, <2>1, <2>2 DEF Journal
    <2> QED  BY <2>2, <2>3, JournalColumns
<1>7. journal' = [journal EXCEPT ![n] = [journal[n] EXCEPT ![d] = k]]
    <2>1. journal' = [journal EXCEPT ![n][d].chunks = @ \cup p]
        BY <1>3 DEF MarkPushed
    <2>2. [journal EXCEPT ![n][d].chunks = @ \cup p] = [journal EXCEPT ![n] = [journal[n] EXCEPT ![d] = [journal[n][d] EXCEPT !.chunks = journal[n][d].chunks \cup p]]]
        BY <1>4 DEF CInv, Stores
    <2> QED  BY <1>3, <1>5, <2>1, <2>2
<1>8. journal \in [Nodes -> [Disks -> Journal \cup {NoJournal}]] /\ mark \in [Nodes -> Contents]
    BY DEF CInv, Stores
<1>9. /\ journal' \in [Nodes -> [Disks -> Journal \cup {NoJournal}]] /\ journal'[n][d] = k
      /\ \A m \in Nodes, x \in Disks : m # n \/ x # d => journal'[m][x] = journal[m][x]
    BY <1>4, <1>6, <1>7, <1>8
<1>10. mark' = [mark EXCEPT ![n] = mark[n] \cup p]
    BY <1>3 DEF MarkPushed
<1>11. /\ mark' \in [Nodes -> Contents] /\ mark'[n] = mark[n] \cup p
       /\ \A m \in Nodes : m # n => mark'[m] = mark[m]
    BY <1>4, <1>8, <1>10 DEF Contents
<1> QED  BY <1>1, <1>2, <1>3, <1>6, <1>9, <1>11

\* Listed and marked, as the marks must be.
LEMMA MarkPushedKeeps ==
    ASSUME DInv, CInv, ChunksOk, hib.pc = "push", MarkPushed(pod.at), UNCHANGED <<chunk, head, pod, row, lmark, cache>>
    PROVE  Apart' /\ LiveWhole' /\ JournalsTrue' /\ MarksKnown' /\ LayersKnown' /\ Kept'
           /\ \A c, d : d \in Disks => (Fresh(c, d)' <=> Fresh(c, d))
<1>0. PICK n, x, p : n = pod.at /\ x = hib.disk /\ p = hib.pushed
    OBVIOUS
<1>1. /\ n \in Nodes /\ x \in Disks /\ journal[n][x] # NoJournal
      /\ \A m \in Nodes, d \in Disks : m # n \/ d # x => journal'[m][d] = journal[m][d]
      /\ journal'[n][x] # NoJournal /\ journal'[n][x].age = journal[n][x].age
      /\ journal'[n][x].layers = journal[n][x].layers /\ journal'[n][x].chunks = journal[n][x].chunks \cup p
      /\ mark'[n] = mark[n] \cup p /\ (\A m \in Nodes : m # n => mark'[m] = mark[m])
      /\ p \subseteq row[x] \ hib.todo
    BY <1>0, MarkPushedJournals
<1>2. (\A h : Live(h)' <=> Live(h)) /\ (\A c, d : Base(c, d)' <=> Base(c, d))
    BY BaseFrame
<1>3. Apart' /\ LiveWhole'
    BY <1>2 DEF ChunksOk, Apart, LiveWhole, HasChunks
<1>4. \A c, d : d \in Disks => (Fresh(c, d)' <=> Fresh(c, d))
    <2>1. \A d \in Disks : journal'[n][d].age = journal[n][d].age
        BY <1>1
    <2> QED  BY <1>0, <1>2, <2>1 DEF Fresh
<1>5. \A c \in p : Fresh(c, x)
    BY <1>0, <1>1 DEF ChunksOk, PushingThere, Pushing
<1>6. JournalsTrue'
    <2> SUFFICES ASSUME NEW d \in Disks, journal'[n][d] # NoJournal
                 PROVE  /\ \A c \in journal'[n][d].chunks : Fresh(c, d)'
                        /\ \A id \in journal'[n][d].layers : \A c \in id[2] : Fresh(c, d)'
        BY <1>0 DEF JournalsTrue
    <2>1. n # None /\ journal[n][d] # NoJournal
        BY <1>1, DiskStoreConstants
    <2>2. /\ \A c \in journal[n][d].chunks : Fresh(c, d)
          /\ \A id \in journal[n][d].layers : \A c \in id[2] : Fresh(c, d)
        BY <1>0, <2>1 DEF ChunksOk, JournalsTrue
    <2>3. CASE d = x
        BY <1>1, <1>4, <1>5, <2>2, <2>3
    <2>4. CASE d # x
        BY <1>1, <1>4, <2>2, <2>4
    <2> QED  BY <2>3, <2>4
<1>7. \A d : ~Headed(d)
    BY DEF Headed, Heading
<1>8. \A m \in Nodes, d \in Disks : (journal'[m][d] = NoJournal <=> journal[m][d] = NoJournal)
    BY <1>1
<1>9. Kept'
    BY <1>0, <1>1, <1>2, <1>7, <1>8 DEF ChunksOk, Kept
<1>10. MarksKnown'
    <2> SUFFICES ASSUME NEW m \in Nodes, NEW d \in Disks, NEW c \in mark'[m] \cap row[d], ~Base(c, d)
                 PROVE  m = n /\ journal'[m][d] # NoJournal /\ c \in journal'[m][d].chunks
        BY <1>0, <1>2 DEF MarksKnown
    <2>0. n # None
        BY <1>1, DiskStoreConstants
    <2>1. CASE c \in mark[m]
        <3>1. m = n /\ journal[m][d] # NoJournal /\ c \in journal[m][d].chunks
            BY <1>0, <1>7, <2>0, <2>1 DEF ChunksOk, MarksKnown
        <3>2. CASE d = x
            BY <1>1, <3>1, <3>2
        <3>3. CASE d # x
            BY <1>1, <3>1, <3>3
        <3> QED  BY <3>2, <3>3
    <2>2. CASE c \notin mark[m]
        <3>1. m = n /\ c \in p /\ c \in row[x]
            BY <1>1, <2>2
        <3>2. d = x
            BY <1>1, <3>1 DEF ChunksOk, Apart
        <3> QED  BY <1>1, <3>1, <3>2
    <2> QED  BY <2>1, <2>2
<1>11. LayersKnown'
    <2> SUFFICES ASSUME NEW m \in Nodes, NEW d \in Disks, NEW id \in lmark[m], id[1] = d, id[2] \subseteq row[d],
                        ~(\A c \in id[2] : Base(c, d))
                 PROVE  m = n /\ journal'[m][d] # NoJournal /\ id \in journal'[m][d].layers
        BY <1>0, <1>2 DEF LayersKnown
    <2>0. n # None
        BY <1>1, DiskStoreConstants
    <2>1. m = n /\ journal[m][d] # NoJournal /\ id \in journal[m][d].layers
        BY <1>0, <1>7, <2>0 DEF ChunksOk, LayersKnown
    <2>2. CASE d = x
        BY <1>1, <2>1, <2>2
    <2>3. CASE d # x
        BY <1>1, <2>1, <2>3
    <2> QED  BY <2>2, <2>3
<1> QED  BY <1>3, <1>4, <1>6, <1>9, <1>10, <1>11

LEMMA MarkPushedStores ==
    ASSUME DInv, CInv, hib.pc = "push", MarkPushed(pod.at), UNCHANGED <<chunk, head, pod, row, lmark, cache, used>>
    PROVE  Stores' /\ OnlyHere' /\ Written'
<1>1. /\ journal' \in [Nodes -> [Disks -> Journal \cup {NoJournal}]] /\ mark' \in [Nodes -> Contents]
      /\ \A n \in Nodes, d \in Disks : n # pod.at => journal'[n][d] = journal[n][d]
      /\ \A n \in Nodes : mark'[n] \subseteq mark[n] \cup hib.pushed
      /\ hib.pushed \subseteq used
    BY MarkPushedJournals
<1>2. Stores' /\ OnlyHere'
    BY <1>1 DEF CInv, Stores, OnlyHere
<1>3. Written'
    BY <1>1 DEF CInv, Written
<1> QED  BY <1>2, <1>3

LEMMA MarkC == ASSUME DInv, CInv, Mark PROVE CInv'
<1>0. /\ UNCHANGED <<bucket, pod, row, lmark, local, cache, sweep, used, fault>> /\ hib.pc = "push" /\ hib.todo = {}
      /\ MarkPushed(pod.at) /\ Quiet /\ hib' = [hib EXCEPT !.pc = "manifest"]
    BY DEF Mark
<1>1. /\ hib'.pc = "manifest" /\ hib'.disk = hib.disk /\ hib'.todo = hib.todo /\ hib'.done = hib.done
      /\ hib'.age = hib.age
    BY <1>0 DEF DInv, Types, Hibernation
<1>2. Stores' /\ OnlyHere' /\ Written'
    BY <1>0, MarkPushedStores DEF bucket
<1>3. Journaled'
    <2>1. /\ journal'[pod.at][hib.disk] # NoJournal
          /\ journal'[pod.at][hib.disk].age = journal[pod.at][hib.disk].age
        BY <1>0, MarkPushedJournals
    <2> QED  BY <1>0, <1>1, <2>1 DEF CInv, Journaled, Pushing
<1>4. OwnHeads'
    BY <1>0, <1>1 DEF CInv, OwnHeads, Heading, bucket
<1>5. ASSUME Calm' PROVE ChunksOk'
    <2>1. ChunksOk /\ sweep'.pc = "none"
        BY <1>0, <1>5, QuietCalm DEF CInv, Calm
    <2>2. Apart' /\ LiveWhole' /\ JournalsTrue' /\ MarksKnown' /\ LayersKnown' /\ Kept'
          /\ \A c, d : d \in Disks => (Fresh(c, d)' <=> Fresh(c, d))
        BY <1>0, <2>1, MarkPushedKeeps DEF bucket
    <2>3. \A c, d : Base(c, d)' <=> Base(c, d)
        BY <1>0, BaseFrame DEF bucket
    <2>4. DoneThere'
        BY <1>0, <1>1, <2>1, <2>3 DEF ChunksOk, DoneThere, Done, Heading, Near, bucket
    <2>5. PushingThere'
        <3> SUFFICES ASSUME NEW d, d = hib.disk, NEW c \in row[d] \ hib.todo PROVE Fresh(c, d)'
            BY <1>0, <1>1 DEF PushingThere
        <3>1. d \in Disks /\ Fresh(c, d)
            BY <1>0, <2>1, HibernationColumns DEF ChunksOk, PushingThere, Pushing, DInv, Types
        <3> QED  BY <2>2, <3>1
    <2> QED  BY <2>1, <2>2, <2>4, <2>5, SpareNothing DEF ChunksOk
<1> QED  BY <1>2, <1>3, <1>4, <1>5 DEF CInv

LEMMA AbandonC == ASSUME DInv, CInv, Abandon PROVE CInv'
<1>0. /\ UNCHANGED <<bucket, pod, row, lmark, cache, sweep, used, fault>> /\ Quiet /\ hib'.pc = "none"
      /\ hib.pc # "leave" /\ (hib.pc = "head" => hib.done = {})
      /\ UNCHANGED <<journal, mark>> \/ (hib.pc = "push" /\ MarkPushed(pod.at))
    BY NoHibernationColumns DEF Abandon
<1>1. Stores' /\ OnlyHere' /\ Written'
    <2>1. CASE UNCHANGED <<journal, mark>>
        BY <1>0, <2>1 DEF CInv, Stores, OnlyHere, Written, bucket
    <2>2. CASE hib.pc = "push" /\ MarkPushed(pod.at)
        BY <1>0, <2>2, MarkPushedStores DEF bucket
    <2> QED  BY <1>0, <2>1, <2>2
<1>2. Journaled' /\ OwnHeads'
    BY <1>0 DEF CInv, Journaled, Pushing, OwnHeads, bucket
<1>3. ASSUME Calm' PROVE ChunksOk'
    <2>1. ChunksOk /\ sweep'.pc = "none"
        BY <1>0, <1>3, QuietCalm DEF CInv, Calm
    <2>2. Apart' /\ LiveWhole' /\ JournalsTrue' /\ MarksKnown' /\ LayersKnown' /\ Kept'
        <3>1. CASE UNCHANGED <<journal, mark>>
            BY <1>0, <2>1, <3>1, StoresSame DEF Headed, Heading, bucket
        <3>2. CASE hib.pc = "push" /\ MarkPushed(pod.at)
            BY <1>0, <2>1, <3>2, MarkPushedKeeps DEF bucket
        <3> QED  BY <1>0, <3>1, <3>2
    <2>3. DoneThere' /\ PushingThere'
        BY <1>0 DEF DoneThere, Done, Heading, PushingThere, Pushing
    <2> QED  BY <2>1, <2>2, <2>3, SpareNothing DEF ChunksOk
<1> QED  BY <1>1, <1>2, <1>3 DEF CInv

-----------------------------------------------------------------------------
(* A hibernation's steps that change rows, journals or the bucket's chunks *)

\* The guest's new chunks are in no checkpoint and marked nowhere, as they were
\* never written before.
LEMMA SealC == ASSUME DInv, CInv, NEW d \in Disks, NEW new \in Contents, Seal(d, new) PROVE CInv'
<1>a. PICK n, j : n = pod.at /\ j = (IF journal[n][d] = NoJournal THEN NewJournal ELSE journal[n][d])
    OBVIOUS
<1>0. /\ UNCHANGED <<bucket, pod, mark, lmark, sweep>> /\ Quiet /\ hib.pc = "seal" /\ d \notin hib.done
      /\ \/ new \cap used \subseteq row[d] /\ fault' = fault
         \/ Fault("contents recur")
      /\ used' = used \cup new
      /\ journal' = [journal EXCEPT ![n][d] = IF @ = NoJournal THEN NewJournal ELSE @]
      /\ row' = [row EXCEPT ![d] = new] /\ cache' = [cache EXCEPT ![n] = cache[n] \cup (new \ row[d])]
      /\ hib' = [hib EXCEPT !.pc = "expire", !.disk = d]
    BY <1>a DEF Seal
<1>1. /\ hib'.pc = "expire" /\ hib'.disk = d /\ hib'.done = hib.done /\ hib'.age = hib.age
    BY <1>0 DEF DInv, Types, Hibernation
<1>2. n \in Nodes /\ n # None
    BY <1>0, <1>a, HereNode DEF DInv
<1>3. /\ journal \in [Nodes -> [Disks -> Journal \cup {NoJournal}]] /\ row \in [Disks -> Contents]
      /\ cache \in [Nodes -> Contents]
    BY DEF CInv, Stores, DInv, Types
<1>4. journal' = [journal EXCEPT ![n] = [journal[n] EXCEPT ![d] = j]]
    <2>1. [journal EXCEPT ![n][d] = IF @ = NoJournal THEN NewJournal ELSE @] =
            [journal EXCEPT ![n] = [journal[n] EXCEPT ![d] = IF journal[n][d] = NoJournal THEN NewJournal ELSE journal[n][d]]]
        BY <1>2, <1>3
    <2> QED  BY <1>0, <1>a, <2>1
<1>5. j \in Journal /\ j # NoJournal
    BY <1>2, <1>3, <1>a, JournalColumns
<1>6. /\ journal' \in [Nodes -> [Disks -> Journal \cup {NoJournal}]] /\ journal'[n][d] = j
      /\ \A m \in Nodes, x \in Disks : m # n \/ x # d => journal'[m][x] = journal[m][x]
    BY <1>2, <1>3, <1>4, <1>5
<1>7. /\ row'[d] = new /\ \A x \in Disks : x # d => row'[x] = row[x]
    BY <1>0, <1>3
<1>8. /\ cache' \in [Nodes -> Contents] /\ cache'[n] = cache[n] \cup (new \ row[d])
    BY <1>0, <1>2, <1>3 DEF Contents
<1>9. (\A h : Live(h)' <=> Live(h)) /\ (\A c, x : Base(c, x)' <=> Base(c, x))
    BY <1>0, BaseFrame DEF bucket
<1>10. Stores' /\ OnlyHere'
    <2>1. used' \in Contents
        BY <1>0 DEF CInv, Stores, Contents
    <2>2. Stores'
        BY <1>0, <1>6, <1>8, <2>1 DEF CInv, Stores, bucket
    <2> QED  BY <1>0, <1>6, <1>a, <2>2 DEF CInv, OnlyHere
<1>11. Written'
    BY <1>0, <1>7 DEF CInv, Written, bucket
<1>12. OwnHeads'
    BY <1>0, <1>1 DEF CInv, OwnHeads, Heading, bucket
<1>13. Journaled'
    BY <1>0, <1>1, <1>5, <1>6, <1>a DEF Journaled, Pushing
<1>14. ASSUME Calm' PROVE ChunksOk'
    <2>1. ChunksOk /\ sweep'.pc = "none"
        BY <1>0, <1>14, QuietCalm, CalmBefore DEF CInv
    <2>2. new \cap used \subseteq row[d]
        BY <1>0, <1>14 DEF Fault, Calm
    <2>3. LiveWhole'
        BY <1>0, <1>9, <2>1 DEF ChunksOk, LiveWhole, HasChunks, bucket
    <2>4. Apart'
        <3>1. \A x \in Disks : x # d => new \cap row[x] = {}
            BY <2>1, <2>2 DEF ChunksOk, Apart, CInv, Written
        <3>2. \A x, y \in Disks : x # y => row'[x] \cap row'[y] = {}
            BY <1>7, <2>1, <3>1 DEF ChunksOk, Apart
        <3> QED  BY <1>0, <1>9, <2>1, <3>2 DEF ChunksOk, Apart, bucket
    <2>5. DoneThere'
        BY <1>0, <1>1, <1>7, <1>9, <2>1 DEF ChunksOk, DoneThere, Done, Heading, Near, bucket
    <2>6. PushingThere'
        BY <1>1 DEF PushingThere, Pushing
    <2>7. JournalsTrue'
        <3> SUFFICES ASSUME NEW x \in Disks, journal'[n][x] # NoJournal
                     PROVE  /\ \A c \in journal'[n][x].chunks : Fresh(c, x)'
                            /\ \A id \in journal'[n][x].layers : \A c \in id[2] : Fresh(c, x)'
            BY <1>0, <1>a DEF JournalsTrue
        <3>1. CASE journal[n][x] = NoJournal
            <4>1. x = d /\ journal'[n][x] = NewJournal
                BY <1>2, <1>6, <1>a, <3>1
            <4> QED  BY <4>1, JournalColumns
        <3>2. CASE journal[n][x] # NoJournal
            <4>1. journal'[n][x] = journal[n][x]
                BY <1>2, <1>6, <1>a, <3>2
            <4>2. \A c : Fresh(c, x)' <=> Fresh(c, x)
                BY <1>0, <1>9, <1>a, <4>1 DEF Fresh, bucket
            <4> QED  BY <1>2, <1>a, <2>1, <3>2, <4>1, <4>2 DEF ChunksOk, JournalsTrue
        <3> QED  BY <3>1, <3>2
    <2>8. \A x : ~Headed(x) /\ ~Headed(x)'
        BY <1>0, <1>1 DEF Headed, Heading
    <2>9. Kept'
        <3> SUFFICES ASSUME NEW x \in Disks, NEW c \in row'[x], ~Base(c, x)
                     PROVE  c \in cache'[n] /\ journal'[n][x] # NoJournal
            BY <1>0, <1>9, <1>a DEF Kept
        <3>1. CASE x # d
            BY <1>2, <1>6, <1>7, <1>8, <1>a, <2>1, <2>8, <3>1 DEF ChunksOk, Kept
        <3>2. CASE x = d
            <4>1. c \in row[d] => c \in cache[n]
                BY <1>2, <1>a, <2>1, <2>8, <3>2 DEF ChunksOk, Kept
            <4> QED  BY <1>5, <1>6, <1>7, <1>8, <3>2, <4>1
        <3> QED  BY <3>1, <3>2
    <2>10. ASSUME NEW m \in Nodes, NEW x \in Disks, journal[m][x] # NoJournal PROVE journal'[m][x] = journal[m][x]
        BY <1>2, <1>6, <1>a, <2>10
    <2>11. MarksKnown'
        <3> SUFFICES ASSUME NEW m \in Nodes, NEW x \in Disks, NEW c \in mark[m] \cap row'[x], ~Base(c, x)
                     PROVE  m = n /\ journal'[m][x] # NoJournal /\ c \in journal'[m][x].chunks
            BY <1>0, <1>9, <1>a DEF MarksKnown
        <3>1. c \in row[x]
            BY <1>7, <2>2 DEF CInv, Written
        <3>2. m = n /\ journal[m][x] # NoJournal /\ c \in journal[m][x].chunks
            BY <1>2, <1>a, <2>1, <2>8, <3>1 DEF ChunksOk, MarksKnown
        <3> QED  BY <2>10, <3>2
    <2>12. LayersKnown'
        <3> SUFFICES ASSUME NEW m \in Nodes, NEW x \in Disks, NEW id \in lmark[m], id[1] = x, id[2] \subseteq row'[x],
                            ~(\A c \in id[2] : Base(c, x))
                     PROVE  m = n /\ journal'[m][x] # NoJournal /\ id \in journal'[m][x].layers
            BY <1>0, <1>9, <1>a DEF LayersKnown
        <3>1. id[2] \subseteq used
            BY DEF CInv, Written
        <3>2. id[2] \subseteq row[x]
            BY <1>7, <2>2, <3>1
        <3>3. m = n /\ journal[m][x] # NoJournal /\ id \in journal[m][x].layers
            BY <1>2, <1>a, <2>1, <2>8, <3>2 DEF ChunksOk, LayersKnown
        <3> QED  BY <2>10, <3>3
    <2> QED  BY <2>1, <2>3, <2>4, <2>5, <2>6, <2>7, <2>9, <2>11, <2>12, SpareNothing DEF ChunksOk
<1> QED  BY <1>10, <1>11, <1>12, <1>13, <1>14 DEF CInv

\* A chunk is marked, which the journal or the checkpoint vouches for, or put, or
\* not in the cache and then of the checkpoint.
LEMMA PushChunkC == ASSUME DInv, CInv, NEW c \in Chunks, PushChunk(c) PROVE CInv'
<1>a. PICK n, x : n = pod.at /\ x = hib.disk
    OBVIOUS
<1> DEFINE todo == hib.todo \ {c}
           pushed == hib.pushed \cup {c}
<1>0. /\ UNCHANGED <<layer, head, pod, diskd, sweep, used, fault>> /\ hib.pc = "push" /\ Quiet /\ c \in hib.todo
      /\ \/ c \in mark[n] /\ chunk' = chunk /\ hib' = [hib EXCEPT !.todo = todo]
         \/ /\ c \notin mark[n] /\ chunk' = [chunk EXCEPT ![c] = 0]
            /\ hib' = [hib EXCEPT !.todo = todo, !.pushed = pushed]
         \/ /\ c \notin cache[n] /\ chunk[c] # Gone /\ chunk' = chunk
            /\ hib' = [hib EXCEPT !.todo = todo, !.pushed = pushed]
    BY <1>a DEF PushChunk, DInv, Types, Hibernation
<1>1. hib \in Hibernation /\ todo \in Contents /\ pushed \in Contents
    BY HibernationColumns DEF DInv, Types, Contents
<1>b. todo \subseteq hib.todo /\ (\A y \in hib.todo : y = c \/ y \in todo) /\ c \notin todo
      /\ pushed \subseteq hib.pushed \cup {c}
    OBVIOUS
<1> HIDE DEF todo, pushed
<1>2. /\ hib'.pc = "push" /\ hib'.disk = x /\ hib'.done = hib.done /\ hib'.age = hib.age /\ hib'.todo = todo
      /\ hib'.pushed \in {hib.pushed, pushed}
    <2>1. CASE hib' = [hib EXCEPT !.todo = todo]
        BY <1>0, <1>1, <1>a, <2>1 DEF Hibernation
    <2>2. CASE hib' = [hib EXCEPT !.todo = todo, !.pushed = pushed]
        BY <1>0, <1>1, <1>a, <2>2 DEF Hibernation
    <2> QED  BY <1>0, <2>1, <2>2
<1>3. n \in Nodes /\ n # None /\ x \in Disks
    BY <1>0, <1>a, HereNode, HibernationColumns DEF DInv, Types
<1>4. /\ journal[n][x] # NoJournal /\ journal[n][x].age <= Trust + hib.age
      /\ hib.pushed \subseteq row[x] \ hib.todo
    BY <1>0, <1>a DEF CInv, Journaled, Pushing
<1>5. /\ chunk \in [Chunks -> Age \cup {Gone}] /\ chunk' \in [Chunks -> Age \cup {Gone}]
      /\ \A y \in Chunks : y # c => chunk'[y] = chunk[y]
      /\ chunk'[c] \in {chunk[c], 0}
    <2>1. 0 \in Age /\ chunk \in [Chunks -> Age \cup {Gone}]
        BY Times DEF CInv, Stores, Age
    <2> QED  BY <1>0, <2>1
<1>6. 0 # Gone
    BY DEF Gone
<1>7. (\A h : Live(h)' <=> Live(h)) /\ (\A y, d : Base(y, d)' <=> Base(y, d))
    BY <1>0, BaseFrame
<1>8. Stores' /\ OnlyHere' /\ Written'
    BY <1>0, <1>5 DEF CInv, Stores, OnlyHere, Written, diskd
<1>9. OwnHeads'
    BY <1>0, <1>2 DEF CInv, OwnHeads, Heading
<1>10. c \in row[x]
    BY <1>0, <1>a, <1>4 DEF CInv, Journaled, Pushing
<1>11. Journaled'
    <2>1. hib.todo \subseteq row[x]
        BY <1>0, <1>a DEF CInv, Journaled
    <2>2. todo \subseteq row[x] /\ hib'.pushed \subseteq row[x] \ todo
        BY <1>2, <1>4, <1>10, <1>b, <2>1
    <2> QED  BY <1>0, <1>2, <1>4, <1>a, <2>2 DEF Journaled, Pushing, diskd
<1>12. ASSUME NEW b \in Age PROVE 0 <= b /\ 0 <= Trust + b
    <2>1. Trust \in Nat
        BY DiskStoreConstants
    <2> QED  BY <2>1, Times DEF Age
<1>13. ASSUME Calm' PROVE ChunksOk'
    <2>1. ChunksOk /\ sweep'.pc = "none"
        BY <1>0, <1>13, QuietCalm DEF CInv, Calm
    <2>2. \A d : ~Headed(d) /\ ~Headed(d)'
        BY <1>0, <1>2 DEF Headed, Heading
    <2>3. \A y \in Chunks : chunk[y] # Gone => chunk'[y] # Gone
        BY <1>5, <1>6
    <2>4. LiveWhole'
        <3>1. \A h \in head : h.id[2] \subseteq Chunks
            BY HeadColumns DEF DInv, Types, Layer, Contents
        <3> QED  BY <1>0, <1>7, <2>1, <2>3, <3>1 DEF ChunksOk, LiveWhole, HasChunks
    <2>5. Apart' /\ Kept'
        BY <1>0, <1>7, <2>1, <2>2 DEF ChunksOk, Apart, Kept, diskd
    <2>6. MarksKnown' /\ LayersKnown'
        BY <1>0, <1>7, <2>1, <2>2 DEF ChunksOk, MarksKnown, LayersKnown, diskd
    <2>7. row \in [Disks -> Contents] /\ hib.age \in Age
        BY HibernationColumns DEF DInv, Types
    <2>8. DoneThere'
        <3> SUFFICES ASSUME NEW d \in Disks, d \in hib.done, NEW y \in row[d] PROVE Near(y, d)'
            BY <1>0, <1>2 DEF DoneThere, Done, Heading, diskd
        <3>1. Near(y, d) /\ y \in Chunks
            BY <1>0, <2>1, <2>7 DEF ChunksOk, DoneThere, Done, Contents
        <3>2. CASE chunk'[y] = chunk[y]
            BY <1>2, <1>7, <3>1, <3>2 DEF Near
        <3>3. CASE chunk'[y] = 0
            <4>1. 0 <= Trust + hib'.age
                BY <1>2, <1>12, <2>7
            <4> QED  BY <1>6, <3>3, <4>1 DEF Near
        <3> QED  BY <1>5, <3>1, <3>2, <3>3
    <2>9. ASSUME NEW y \in Chunks, NEW d \in Disks, journal[n][d] # NoJournal, Fresh(y, d) \/ chunk'[y] = 0
          PROVE  Fresh(y, d)'
        <3>1. journal'[n][d] = journal[n][d] /\ pod' = pod
            BY <1>0 DEF diskd
        <3>2. CASE chunk'[y] = 0
            <4>1. 0 <= journal[n][d].age
                BY <1>3, <1>12, <2>9, JournalThere, JournalColumns DEF CInv
            <4> QED  BY <1>6, <1>a, <3>1, <3>2, <4>1 DEF Fresh
        <3>3. CASE chunk'[y] # 0
            <4>1. chunk'[y] = chunk[y] /\ Fresh(y, d)
                BY <1>5, <2>9, <3>3
            <4> QED  BY <1>7, <1>a, <3>1, <4>1 DEF Fresh
        <3> QED  BY <3>2, <3>3
    <2>10. JournalsTrue'
        <3> SUFFICES ASSUME NEW d \in Disks, journal[n][d] # NoJournal
                     PROVE  /\ \A y \in journal[n][d].chunks : Fresh(y, d)'
                            /\ \A id \in journal[n][d].layers : \A y \in id[2] : Fresh(y, d)'
            BY <1>0, <1>a DEF JournalsTrue, diskd
        <3>1. journal[n][d].chunks \subseteq Chunks /\ \A id \in journal[n][d].layers : id[2] \subseteq Chunks
            BY <1>3, JournalThere, JournalColumns DEF CInv, Contents, Layer
        <3>2. /\ \A y \in journal[n][d].chunks : Fresh(y, d)
              /\ \A id \in journal[n][d].layers : \A y \in id[2] : Fresh(y, d)
            BY <1>3, <1>a, <2>1 DEF ChunksOk, JournalsTrue
        <3> QED  BY <2>9, <3>1, <3>2
    <2>11. Fresh(c, x) \/ chunk'[c] = 0
        <3>1. CASE c \in mark[n]
            <4>1. Base(c, x) \/ c \in journal[n][x].chunks
                BY <1>3, <1>10, <1>a, <2>1, <2>2, <3>1 DEF ChunksOk, MarksKnown
            <4>2. c \in journal[n][x].chunks => Fresh(c, x)
                BY <1>3, <1>4, <1>a, <2>1 DEF ChunksOk, JournalsTrue
            <4> QED  BY <4>1, <4>2 DEF Fresh
        <3>2. CASE chunk' = [chunk EXCEPT ![c] = 0]
            BY <1>5, <3>2
        <3>3. CASE c \notin cache[n]
            <4>1. Base(c, x)
                BY <1>3, <1>10, <1>a, <2>1, <2>2, <3>3 DEF ChunksOk, Kept
            <4> QED  BY <4>1 DEF Fresh
        <3> QED  BY <1>0, <3>1, <3>2, <3>3
    <2>12. PushingThere'
        <3> SUFFICES ASSUME NEW y \in row[x] \ todo PROVE Fresh(y, x)'
            BY <1>0, <1>2, <1>a DEF PushingThere, diskd
        <3>1. y \in Chunks
            BY <1>3, <2>7 DEF Contents
        <3>2. CASE y = c
            BY <1>3, <1>4, <2>9, <2>11, <3>2
        <3>3. CASE y # c
            <4>1. y \in row[x] \ hib.todo
                BY <1>b, <3>3
            <4>2. Fresh(y, x)
                BY <1>0, <1>a, <2>1, <4>1 DEF ChunksOk, PushingThere, Pushing
            <4> QED  BY <1>3, <1>4, <2>9, <3>1, <4>2
        <3> QED  BY <3>2, <3>3
    <2> QED  BY <2>1, <2>4, <2>5, <2>6, <2>8, <2>10, <2>12, SpareNothing DEF ChunksOk
<1> QED  BY <1>8, <1>9, <1>11, <1>13 DEF CInv

LEMMA PushedDone ==
    ASSUME Types, hib.pc \in {"expire", "layer"}, hib' = Pushed(hib)
    PROVE  /\ hib'.pc \in {"seal", "head"} /\ hib'.age = hib.age
           /\ \A d \in Disks : ~Headed(d)' /\ (Done(d)' => d = hib.disk \/ Done(d))
<1> DEFINE done == hib.done \cup {hib.disk}
           new == IF done = Disks THEN {} ELSE done
           pc == IF done = Disks THEN "head" ELSE "seal"
<1>1. /\ pc \in {"head", "seal"} /\ (pc = "head" => new = {} /\ \A d \in Disks : d = hib.disk \/ d \in hib.done)
      /\ (pc = "seal" => \A d \in new : d = hib.disk \/ d \in hib.done)
    OBVIOUS
<1>2. hib' = [hib EXCEPT !.todo = {}, !.pushed = {}, !.done = new, !.pc = pc] /\ hib \in Hibernation
    BY DEF Pushed, Types
<1> HIDE DEF done, new, pc
<1>3. hib'.pc = pc /\ hib'.age = hib.age /\ hib'.done = new
    BY <1>2 DEF Hibernation
<1> QED  BY <1>1, <1>3 DEF Headed, Done, Heading

LEMMA PushChainC == ASSUME DInv, CInv, PushChain PROVE CInv'
<1>a. PICK n, x, old : n = pod.at /\ x = hib.disk /\ old = Expired(n)
    OBVIOUS
<1> DEFINE chunks == UNION {journal[n][y].chunks : y \in old}
           layers == UNION {journal[n][y].layers : y \in old}
           J == [y \in Disks |-> IF y \in old THEN NewJournal ELSE journal[n][y]]
<1>0. /\ UNCHANGED <<bucket, pod, row, cache, sweep, used, fault>> /\ Quiet /\ hib.pc = "expire"
      /\ mark' = [mark EXCEPT ![n] = mark[n] \ chunks] /\ lmark' = [lmark EXCEPT ![n] = lmark[n] \ layers]
      /\ journal' = [journal EXCEPT ![n] = J]
      /\ \/ hib' = Pushed(hib) /\ IdOf(x) \in lmark'[n]
         \/ hib' = [hib EXCEPT !.pc = "push", !.todo = row[x], !.pushed = {}]
    <2>1. journal' = [journal EXCEPT ![n] = [y \in Disks |-> IF y \in old THEN NewJournal ELSE @[y]]]
        BY <1>a DEF PushChain
    <2>2. [journal EXCEPT ![n] = [y \in Disks |-> IF y \in old THEN NewJournal ELSE @[y]]] = [journal EXCEPT ![n] = J]
        OBVIOUS
    <2> QED  BY <1>a, <2>1, <2>2 DEF PushChain
<1>1. n \in Nodes /\ n # None /\ x \in Disks
    BY <1>0, <1>a, HereNode, HibernationColumns DEF DInv, Types
<1>2. \A y \in old : y \in Disks /\ journal[n][y] # NoJournal /\ journal[n][y].age > Trust
    BY <1>a DEF Expired
<1>3. \A y \in Disks \ old : journal[n][y] # NoJournal => ~(journal[n][y].age > Trust)
    BY <1>a DEF Expired
<1>4. /\ \A y \in old : \A c \in journal[n][y].chunks : c \in chunks
      /\ \A y \in old : \A id \in journal[n][y].layers : id \in layers
    OBVIOUS
<1>5. /\ J \in [Disks -> Journal \cup {NoJournal}]
      /\ \A y \in Disks : J[y] = IF y \in old THEN NewJournal ELSE journal[n][y]
    BY <1>1, JournalThere, JournalColumns DEF CInv
<1> HIDE DEF chunks, layers, J
<1>6. /\ journal \in [Nodes -> [Disks -> Journal \cup {NoJournal}]] /\ mark \in [Nodes -> Contents]
      /\ lmark \in [Nodes -> SUBSET Layer]
    BY DEF CInv, Stores
<1>7. /\ journal' \in [Nodes -> [Disks -> Journal \cup {NoJournal}]] /\ journal'[n] = J
      /\ \A m \in Nodes : m # n => journal'[m] = journal[m]
    BY <1>0, <1>1, <1>5, <1>6
<1>8. /\ mark' \in [Nodes -> Contents] /\ lmark' \in [Nodes -> SUBSET Layer]
      /\ mark'[n] = mark[n] \ chunks /\ lmark'[n] = lmark[n] \ layers
      /\ \A m \in Nodes : mark'[m] \subseteq mark[m] /\ lmark'[m] \subseteq lmark[m]
    BY <1>0, <1>1, <1>6 DEF Contents
<1>9. \A m \in Nodes, y \in Disks : (journal'[m][y] = NoJournal <=> journal[m][y] = NoJournal)
    BY <1>2, <1>5, <1>7, JournalColumns
<1>10. /\ hib'.pc \in {"seal", "head", "push"} /\ hib'.age = hib.age /\ (\A d \in Disks : ~Headed(d)')
       /\ hib'.pc = "push" => hib'.disk = x /\ hib'.todo = row[x] /\ hib'.pushed = {} /\ hib'.done = hib.done
       /\ hib'.pc # "push" => hib' = Pushed(hib) /\ IdOf(x) \in lmark'[n]
    <2>1. CASE hib' = Pushed(hib) /\ IdOf(x) \in lmark'[n]
        BY <1>0, <2>1, PushedDone DEF DInv
    <2>2. CASE hib' = [hib EXCEPT !.pc = "push", !.todo = row[x], !.pushed = {}]
        <3>1. /\ hib'.pc = "push" /\ hib'.disk = x /\ hib'.todo = row[x] /\ hib'.pushed = {} /\ hib'.done = hib.done
              /\ hib'.age = hib.age
            BY <1>a, <2>2 DEF DInv, Types, Hibernation
        <3> QED  BY <3>1 DEF Headed, Heading
    <2> QED  BY <1>0, <2>1, <2>2
<1>11. (\A h : Live(h)' <=> Live(h)) /\ (\A c, d : Base(c, d)' <=> Base(c, d))
    BY <1>0, BaseFrame DEF bucket
<1>12. Stores' /\ OnlyHere'
    BY <1>0, <1>7, <1>8, <1>9 DEF CInv, Stores, OnlyHere, bucket
<1>13. Written'
    BY <1>0, <1>8 DEF CInv, Written, bucket
<1>14. OwnHeads'
    <2>1. \A h \in head : h.epoch <= pod.epoch /\ h.epoch # pod.epoch
        BY <1>0 DEF CInv, OwnHeads, Heading
    <2> QED  BY <1>0, <2>1 DEF OwnHeads, bucket
<1>15. ASSUME NEW y \in Disks, journal'[n][y] # NoJournal
       PROVE  /\ journal'[n][y].age \in Age /\ journal'[n][y].age <= Trust
              /\ y \notin old => journal'[n][y] = journal[n][y] /\ journal[n][y] # NoJournal
              /\ y \in old => journal'[n][y] = NewJournal
    <2>1. Trust \in Nat
        BY DiskStoreConstants
    <2>2. CASE y \in old
        BY <1>5, <1>7, <2>1, <2>2, JournalColumns, Times DEF Age
    <2>3. CASE y \notin old
        <3>1. journal'[n][y] = journal[n][y] /\ journal[n][y] # NoJournal
            BY <1>5, <1>7, <1>15, <2>3
        <3>2. PICK a : a = journal[n][y].age
            OBVIOUS
        <3>3. a \in Age /\ ~(a > Trust)
            BY <1>1, <1>3, <2>3, <3>1, <3>2, JournalThere, JournalColumns DEF CInv
        <3>4. a <= Trust
            BY <2>1, <3>3, Times DEF Age
        <3> QED  BY <2>3, <3>1, <3>2, <3>3, <3>4
    <2> QED  BY <2>2, <2>3
<1>16. ASSUME NEW a \in Int, a <= Trust PROVE a <= Trust + hib.age
    <2>1. PICK b : b = hib.age
        OBVIOUS
    <2>2. b \in Age
        BY <2>1, HibernationColumns DEF DInv, Types
    <2>3. 0 <= b /\ b \in Int
        BY <2>2, Times DEF Age
    <2>4. Trust \in Nat
        BY DiskStoreConstants
    <2>5. a <= Trust + b
        BY <1>16, <2>3, <2>4
    <2> QED  BY <2>1, <2>5
<1>17. Journaled'
    <2>1. journal[n][x] # NoJournal
        BY <1>0, <1>a DEF CInv, Journaled
    <2>2. journal'[n][x] # NoJournal
        BY <1>1, <1>9, <2>1
    <2>3. journal'[n][x].age <= Trust + hib.age
        <3>1. PICK a : a = journal'[n][x].age
            OBVIOUS
        <3>2. a \in Age /\ a <= Trust
            BY <1>1, <1>15, <2>2, <3>1
        <3>3. a \in Int
            BY <3>2, Times DEF Age
        <3> QED  BY <1>16, <3>1, <3>2, <3>3
    <2> QED  BY <1>0, <1>10, <1>a, <2>2, <2>3 DEF Journaled, Pushing
<1>18. ASSUME Calm' PROVE ChunksOk'
    <2>1. ChunksOk /\ sweep'.pc = "none"
        BY <1>0, <1>18, QuietCalm DEF CInv, Calm
    <2>2. Apart' /\ LiveWhole'
        BY <1>0, <1>11, <2>1 DEF ChunksOk, Apart, LiveWhole, HasChunks, bucket
    <2>3. \A d : ~Headed(d)
        BY <1>0 DEF Headed, Heading
    <2>4. Kept'
        BY <1>0, <1>1, <1>9, <1>11, <1>a, <2>1, <2>3 DEF ChunksOk, Kept
    <2>5. JournalsTrue'
        <3> SUFFICES ASSUME NEW y \in Disks, journal'[n][y] # NoJournal
                     PROVE  /\ \A c \in journal'[n][y].chunks : Fresh(c, y)'
                            /\ \A id \in journal'[n][y].layers : \A c \in id[2] : Fresh(c, y)'
            BY <1>0, <1>a DEF JournalsTrue
        <3>1. CASE y \in old
            BY <1>15, <3>1, JournalColumns
        <3>2. CASE y \notin old
            <4>1. journal'[n][y] = journal[n][y] /\ journal[n][y] # NoJournal
                BY <1>15, <3>2
            <4>2. \A c : Fresh(c, y)' <=> Fresh(c, y)
                BY <1>0, <1>11, <1>a, <4>1 DEF Fresh, bucket
            <4> QED  BY <1>1, <1>a, <2>1, <4>1, <4>2 DEF ChunksOk, JournalsTrue
        <3> QED  BY <3>1, <3>2
    <2>6. MarksKnown'
        <3> SUFFICES ASSUME NEW m \in Nodes, NEW y \in Disks, NEW c \in mark'[m] \cap row[y], ~Base(c, y)
                     PROVE  m = n /\ journal'[m][y] # NoJournal /\ c \in journal'[m][y].chunks
            BY <1>0, <1>11, <1>a DEF MarksKnown
        <3>1. m = n /\ journal[m][y] # NoJournal /\ c \in journal[m][y].chunks
            BY <1>1, <1>8, <1>a, <2>1, <2>3 DEF ChunksOk, MarksKnown
        <3>2. y \notin old
            BY <1>4, <1>8, <3>1
        <3> QED  BY <1>5, <1>7, <3>1, <3>2
    <2>7. ASSUME NEW m \in Nodes, NEW y \in Disks, NEW id \in lmark'[m], id[1] = y, id[2] \subseteq row[y],
                 ~(\A c \in id[2] : Base(c, y))
          PROVE  m = n /\ journal'[m][y] # NoJournal /\ id \in journal'[m][y].layers
        <3>1. m = n /\ journal[m][y] # NoJournal /\ id \in journal[m][y].layers
            BY <1>1, <1>8, <1>a, <2>1, <2>3, <2>7 DEF ChunksOk, LayersKnown
        <3>2. y \notin old
            BY <1>4, <1>8, <2>7, <3>1
        <3> QED  BY <1>5, <1>7, <3>1, <3>2
    <2>8. LayersKnown'
        BY <1>0, <1>11, <1>a, <2>7 DEF LayersKnown
    <2>9. PushingThere'
        BY <1>0, <1>10 DEF PushingThere, Pushing
    <2>10. ASSUME hib'.pc # "push", NEW c \in row[x] PROVE Near(c, x)
        <3>1. PICK id : id = IdOf(x)
            OBVIOUS
        <3>2. id \in lmark'[n] /\ id[1] = x /\ id[2] = row[x]
            BY <1>10, <2>10, <3>1 DEF IdOf
        <3>3. CASE Base(c, x)
            BY <3>3 DEF Near
        <3>4. CASE ~Base(c, x)
            <4>1. journal'[n][x] # NoJournal /\ id \in journal'[n][x].layers
                BY <1>1, <2>7, <2>10, <3>2, <3>4
            <4>2. Fresh(c, x)'
                BY <1>0, <1>1, <1>a, <2>5, <2>10, <3>2, <4>1 DEF JournalsTrue
            <4>3. PICK a, b : a = chunk[c] /\ b = journal'[n][x].age
                OBVIOUS
            <4>4. a <= b /\ (a = Gone => b = Grace) /\ b \in Age /\ b <= Trust
                BY <1>0, <1>1, <1>11, <1>15, <1>a, <3>4, <4>1, <4>2, <4>3 DEF Fresh, bucket
            <4>5. row[x] \in Contents /\ a \in Age \cup {Gone}
                BY <1>1, <2>10, <4>3 DEF DInv, Types, CInv, Stores, Contents
            <4>6. Trust \in Nat /\ Longest \in Nat /\ Grace \in Nat /\ Grace > Trust + Longest
                BY DiskStoreConstants
            <4>7. a # Gone /\ a <= Trust /\ a \in Int
                BY <4>4, <4>5, <4>6 DEF Age, Gone
            <4> QED  BY <1>16, <4>3, <4>7 DEF Near
        <3> QED  BY <3>3, <3>4
    <2>11. DoneThere'
        <3>1. \A c, d : Near(c, d)' <=> Near(c, d)
            BY <1>0, <1>10, <1>11 DEF Near, bucket
        <3>2. \A d \in Disks : Done(d)' => Done(d) \/ (hib'.pc # "push" /\ d = x)
            BY <1>0, <1>10, <1>a, PushedDone DEF Done, Heading, DInv
        <3> QED  BY <1>0, <2>1, <2>10, <3>1, <3>2 DEF ChunksOk, DoneThere
    <2> QED  BY <2>1, <2>2, <2>4, <2>5, <2>6, <2>8, <2>9, <2>11, SpareNothing DEF ChunksOk
<1> QED  BY <1>12, <1>13, <1>14, <1>17, <1>18 DEF CInv

\* The layer is listed with the age that its chunks are within.
LEMMA MarkLayerC == ASSUME DInv, CInv, MarkLayer PROVE CInv'
<1>a. PICK n, x, j, i : n = pod.at /\ x = hib.disk /\ j = journal[n][x] /\ i = <<x, row[x]>>
    OBVIOUS
<1>0. /\ UNCHANGED <<bucket, pod, row, mark, cache, sweep, used, fault>> /\ Quiet /\ hib.pc = "layer"
      /\ journal' = [journal EXCEPT ![n][x].layers = @ \cup {i}]
      /\ lmark' = [lmark EXCEPT ![n] = lmark[n] \cup {i}] /\ hib' = Pushed(hib)
    BY <1>a DEF MarkLayer, IdOf
<1>1. n \in Nodes /\ n # None /\ x \in Disks
    BY <1>0, <1>a, HereNode, HibernationColumns DEF DInv, Types
<1>2. j # NoJournal /\ j.age <= Trust + hib.age /\ hib.todo = {}
    BY <1>0, <1>a DEF CInv, Journaled, Pushing
<1>3. j \in Journal /\ j.age \in Age /\ j.layers \in SUBSET Layer
    BY <1>1, <1>2, <1>a, JournalThere, JournalColumns DEF CInv
<1>4. row[x] \in Contents /\ i \in Layer /\ i[1] = x /\ i[2] = row[x]
    BY <1>1, <1>a DEF DInv, Types, Layer
<1>5. PICK k : k = [j EXCEPT !.layers = j.layers \cup {i}]
    OBVIOUS
<1>6. k \in Journal /\ k.age = j.age /\ k.chunks = j.chunks /\ k.layers = j.layers \cup {i} /\ k # NoJournal
    <2>1. PICK z : z = j.layers \cup {i}
        OBVIOUS
    <2>2. z \in SUBSET Layer
        BY <1>3, <1>4, <2>1
    <2>3. k \in Journal /\ k.age = j.age /\ k.chunks = j.chunks /\ k.layers = z
        BY <1>3, <1>5, <2>1, <2>2 DEF Journal
    <2> QED  BY <2>1, <2>3, JournalColumns
<1>7. /\ journal \in [Nodes -> [Disks -> Journal \cup {NoJournal}]] /\ lmark \in [Nodes -> SUBSET Layer]
    BY DEF CInv, Stores
<1>8. journal' = [journal EXCEPT ![n] = [journal[n] EXCEPT ![x] = k]]
    <2>1. [journal EXCEPT ![n][x].layers = @ \cup {i}] =
            [journal EXCEPT ![n] = [journal[n] EXCEPT ![x] = [journal[n][x] EXCEPT !.layers = journal[n][x].layers \cup {i}]]]
        BY <1>1, <1>7
    <2> QED  BY <1>0, <1>5, <1>a, <2>1
<1>9. /\ journal' \in [Nodes -> [Disks -> Journal \cup {NoJournal}]] /\ journal'[n][x] = k
      /\ \A m \in Nodes, y \in Disks : m # n \/ y # x => journal'[m][y] = journal[m][y]
    BY <1>1, <1>6, <1>7, <1>8
<1>10. /\ lmark' \in [Nodes -> SUBSET Layer]
       /\ \A m \in Nodes : \A id \in lmark'[m] : id \in lmark[m] \/ (m = n /\ id = i)
    BY <1>0, <1>1, <1>4, <1>7
<1>11. hib'.pc \in {"seal", "head"} /\ hib'.age = hib.age
       /\ \A d \in Disks : ~Headed(d)' /\ (Done(d)' => d = x \/ Done(d))
    BY <1>0, <1>a, PushedDone DEF DInv
<1>12. (\A h : Live(h)' <=> Live(h)) /\ (\A c, d : Base(c, d)' <=> Base(c, d))
    BY <1>0, BaseFrame DEF bucket
<1>13. Stores' /\ OnlyHere'
    <2>1. Stores'
        BY SMTT(30), <1>0, <1>9, <1>10 DEF CInv, Stores, bucket
    <2>2. pod' = pod /\ n = pod.at /\ OnlyHere
        BY <1>0, <1>a DEF CInv
    <2>3. OnlyHere'
        BY <1>9, <2>2 DEF OnlyHere
    <2> QED  BY <2>1, <2>3
<1>14. Written'
    <2>1. i[2] \subseteq used
        BY <1>1, <1>4 DEF CInv, Written
    <2> QED  BY <1>0, <1>10, <2>1 DEF CInv, Written, bucket
<1>15. OwnHeads'
    <2>1. \A h \in head : h.epoch <= pod.epoch /\ h.epoch # pod.epoch
        BY <1>0 DEF CInv, OwnHeads, Heading
    <2> QED  BY <1>0, <2>1 DEF OwnHeads, bucket
<1>16. Journaled'
    BY <1>11 DEF Journaled, Pushing
<1>17. ASSUME Calm' PROVE ChunksOk'
    <2>1. ChunksOk /\ sweep'.pc = "none"
        BY <1>0, <1>17, QuietCalm DEF CInv, Calm
    <2>2. Apart' /\ LiveWhole'
        BY <1>0, <1>12, <2>1 DEF ChunksOk, Apart, LiveWhole, HasChunks, bucket
    <2>3. \A d : ~Headed(d)
        BY <1>0 DEF Headed, Heading
    <2>4. \A m \in Nodes, y \in Disks : journal[m][y] # NoJournal =>
            /\ journal'[m][y] # NoJournal /\ journal'[m][y].age = journal[m][y].age
            /\ journal'[m][y].chunks = journal[m][y].chunks
            /\ \A id \in journal[m][y].layers : id \in journal'[m][y].layers
        BY <1>6, <1>9, <1>a
    <2>5. Kept'
        BY <1>0, <1>1, <1>12, <1>a, <2>1, <2>3, <2>4 DEF ChunksOk, Kept
    <2>6. MarksKnown'
        BY <1>0, <1>12, <2>1, <2>3, <2>4 DEF ChunksOk, MarksKnown
    <2>7. LayersKnown'
        <3> SUFFICES ASSUME NEW m \in Nodes, NEW y \in Disks, NEW id \in lmark'[m], id[1] = y, id[2] \subseteq row[y],
                            ~(\A c \in id[2] : Base(c, y))
                     PROVE  m = n /\ journal'[m][y] # NoJournal /\ id \in journal'[m][y].layers
            BY <1>0, <1>12, <1>a DEF LayersKnown
        <3>1. CASE id \in lmark[m]
            <4>1. m = n /\ journal[m][y] # NoJournal /\ id \in journal[m][y].layers
                BY <1>1, <1>a, <2>1, <2>3, <3>1 DEF ChunksOk, LayersKnown
            <4> QED  BY <2>4, <4>1
        <3>2. CASE id \notin lmark[m]
            <4>1. m = n /\ id = i /\ y = x
                BY <1>4, <1>10, <3>2
            <4> QED  BY <1>6, <1>9, <4>1
        <3> QED  BY <3>1, <3>2
    <2>8. \A c, y : y \in Disks /\ journal[n][y] # NoJournal => (Fresh(c, y)' <=> Fresh(c, y))
        BY <1>0, <1>1, <1>12, <1>a, <2>4 DEF Fresh, bucket
    <2>9. \A c \in row[x] : Fresh(c, x)
        BY <1>0, <1>2, <1>a, <2>1 DEF ChunksOk, PushingThere, Pushing
    <2>10. JournalsTrue'
        <3> SUFFICES ASSUME NEW y \in Disks, journal'[n][y] # NoJournal
                     PROVE  /\ \A c \in journal'[n][y].chunks : Fresh(c, y)'
                            /\ \A id \in journal'[n][y].layers : \A c \in id[2] : Fresh(c, y)'
            BY <1>0, <1>a DEF JournalsTrue
        <3>1. journal[n][y] # NoJournal
            BY <1>1, <1>2, <1>9, <1>a
        <3>2. /\ \A c \in journal[n][y].chunks : Fresh(c, y)
              /\ \A id \in journal[n][y].layers : \A c \in id[2] : Fresh(c, y)
            BY <1>1, <1>a, <2>1, <3>1 DEF ChunksOk, JournalsTrue
        <3>3. journal'[n][y].chunks = journal[n][y].chunks
            BY <1>1, <2>4, <3>1
        <3>4. \A id \in journal'[n][y].layers : id \in journal[n][y].layers \/ (y = x /\ id = i)
            BY <1>1, <1>6, <1>9, <1>a
        <3> QED  BY <1>4, <2>8, <2>9, <3>1, <3>2, <3>3, <3>4
    <2>11. PushingThere'
        BY <1>11 DEF PushingThere, Pushing
    <2>12. ASSUME NEW c \in row[x] PROVE Near(c, x)
        <3>1. CASE Base(c, x)
            BY <3>1 DEF Near
        <3>2. CASE ~Base(c, x)
            <4>1. PICK a, b, e : a = chunk[c] /\ b = j.age /\ e = Trust + hib.age
                OBVIOUS
            <4>2. a <= b /\ (a = Gone => b = Grace) /\ b <= e /\ b \in Age /\ b # Grace
                BY <1>2, <1>3, <1>a, <2>9, <3>2, <4>1, YoungEnough DEF Fresh
            <4>3. a \in Age \cup {Gone}
                BY <1>4, <4>1 DEF CInv, Stores, Contents
            <4>4. e \in Int
                <5>1. PICK f : f = hib.age
                    OBVIOUS
                <5>2. f \in Age
                    BY <5>1, HibernationColumns DEF DInv, Types
                <5>3. f \in Int
                    BY <5>2, Times DEF Age
                <5>4. Trust \in Nat
                    BY DiskStoreConstants
                <5> QED  BY <4>1, <5>1, <5>3, <5>4
            <4>5. a # Gone /\ a <= e
                BY <4>2, <4>3, <4>4, Times DEF Age, Gone
            <4> QED  BY <4>1, <4>5 DEF Near
        <3> QED  BY <3>1, <3>2
    <2>13. DoneThere'
        <3>1. \A c, d : Near(c, d)' <=> Near(c, d)
            BY <1>0, <1>11, <1>12 DEF Near, bucket
        <3> QED  BY <1>0, <1>11, <2>1, <2>12, <3>1 DEF ChunksOk, DoneThere
    <2> QED  BY <2>1, <2>2, <2>5, <2>6, <2>7, <2>10, <2>11, <2>13, SpareNothing DEF ChunksOk
<1> QED  BY <1>13, <1>14, <1>15, <1>16, <1>17 DEF CInv

\* The head names the disk as it is, and is not of the recorded checkpoint.
LEMMA PutHeadC == ASSUME DInv, CInv, NEW d \in Disks, PutHead(d) PROVE CInv'
<1>a. PICK n, i : n = pod.at /\ i = <<d, row[d]>>
    OBVIOUS
<1> DEFINE new == [disk |-> d, epoch |-> pod.epoch, id |-> i, age |-> 0]
           done == hib.done \cup {d}
           pc == IF d = Own THEN "leave" ELSE "head"
<1>0. /\ UNCHANGED <<chunk, layer, pod, row, mark, lmark, cache, sweep, used, fault>> /\ hib.pc = "head" /\ Quiet
      /\ head' = head \cup {new} /\ hib' = [hib EXCEPT !.done = done, !.pc = pc]
      /\ journal' = [journal EXCEPT ![n] = [journal[n] EXCEPT ![d] = NoJournal]]
    BY <1>a DEF PutHead, IdOf, DInv, Types, Hibernation
<1>1. pc \in {"head", "leave"} /\ \A y : y \in done <=> y \in hib.done \/ y = d
    OBVIOUS
<1>2. new.disk = d /\ new.epoch = pod.epoch /\ new.id = i
    OBVIOUS
<1> HIDE DEF new, done, pc
<1>3. hib'.pc = pc /\ hib'.done = done /\ hib'.age = hib.age
    BY <1>0 DEF DInv, Types, Hibernation
<1>4. n \in Nodes /\ n # None /\ pod.ckpt # pod.epoch /\ i[2] = row[d]
    <2>1. n \in Nodes /\ n # None
        BY <1>0, <1>a, HereNode DEF DInv
    <2>2. pod.ckpt < pod.epoch /\ pod.ckpt \in 0 .. MaxEpoch /\ pod.epoch \in 0 .. MaxEpoch
        BY <1>0, PodColumns DEF DInv, HibernationOk
    <2>3. pod.ckpt # pod.epoch
        BY <2>2, Times
    <2> QED  BY <1>a, <2>1, <2>3
<1>5. journal \in [Nodes -> [Disks -> Journal \cup {NoJournal}]]
    BY DEF CInv, Stores
<1>6. /\ journal' \in [Nodes -> [Disks -> Journal \cup {NoJournal}]] /\ journal'[n][d] = NoJournal
      /\ \A m \in Nodes, y \in Disks : m # n \/ y # d => journal'[m][y] = journal[m][y]
    BY <1>0, <1>4, <1>5
<1>7. (\A h : Live(h)' <=> Live(h)) /\ (\A h : Live(h) => (h \in head' <=> h \in head))
    BY <1>0, <1>2, <1>4 DEF Live
<1>8. \A c, y : Base(c, y)' <=> Base(c, y)
    BY <1>7 DEF Base
<1>9. Stores' /\ OnlyHere'
    BY <1>0, <1>6, <1>a DEF CInv, Stores, OnlyHere
<1>10. Written'
    BY <1>0, <1>2, <1>4 DEF CInv, Written
<1>11. OwnHeads'
    <2> SUFFICES ASSUME NEW h \in head'
                 PROVE  /\ h.epoch <= pod.epoch
                        /\ h.epoch = pod.epoch => h.disk \in done /\ h.id = <<h.disk, row[h.disk]>>
        BY <1>0, <1>1, <1>3 DEF OwnHeads, Heading, IdOf
    <2>1. CASE h = new
        <3>1. pod.epoch <= pod.epoch
            BY PodColumns, Times DEF DInv
        <3> QED  BY <1>1, <1>2, <1>a, <2>1, <3>1
    <2>2. CASE h \in head
        BY <1>0, <1>1, <2>2 DEF CInv, OwnHeads, IdOf
    <2> QED  BY <1>0, <2>1, <2>2
<1>12. Journaled'
    BY <1>1, <1>3 DEF Journaled, Pushing
<1>13. ASSUME Calm' PROVE ChunksOk'
    <2>1. ChunksOk /\ sweep'.pc = "none"
        BY <1>0, <1>13, QuietCalm DEF CInv, Calm
    <2>2. Apart' /\ LiveWhole'
        BY <1>0, <1>7, <2>1 DEF ChunksOk, Apart, LiveWhole, HasChunks
    <2>3. \A y : ~Headed(y)' => ~Headed(y) /\ y # d
        BY <1>0, <1>1, <1>3 DEF Headed, Heading
    <2>4. DoneThere'
        BY <1>0, <1>3, <1>8, <2>1 DEF ChunksOk, DoneThere, Done, Heading, Near
    <2>5. PushingThere'
        BY <1>1, <1>3 DEF PushingThere, Pushing
    <2>6. JournalsTrue'
        <3> SUFFICES ASSUME NEW y \in Disks, journal'[n][y] # NoJournal
                     PROVE  /\ \A c \in journal'[n][y].chunks : Fresh(c, y)'
                            /\ \A id \in journal'[n][y].layers : \A c \in id[2] : Fresh(c, y)'
            BY <1>0, <1>a DEF JournalsTrue
        <3>1. journal'[n][y] = journal[n][y]
            BY <1>4, <1>6
        <3>2. \A c : Fresh(c, y)' <=> Fresh(c, y)
            BY <1>0, <1>8, <1>a, <3>1 DEF Fresh
        <3> QED  BY <1>4, <1>a, <2>1, <3>1, <3>2 DEF ChunksOk, JournalsTrue
    <2>7. Kept'
        BY <1>0, <1>4, <1>6, <1>8, <1>a, <2>1, <2>3 DEF ChunksOk, Kept
    <2>8. MarksKnown' /\ LayersKnown'
        BY <1>0, <1>4, <1>6, <1>8, <1>a, <2>1, <2>3 DEF ChunksOk, MarksKnown, LayersKnown
    <2> QED  BY <2>1, <2>2, <2>4, <2>5, <2>6, <2>7, <2>8, SpareNothing DEF ChunksOk
<1> QED  BY <1>9, <1>10, <1>11, <1>12, <1>13 DEF CInv

-----------------------------------------------------------------------------
(* Every state *)

LEMMA InitCInv == ASSUME Init PROVE CInv
<1>0. /\ chunk = [c \in Chunks |-> Gone] /\ head = {} /\ row = [d \in Disks |-> {}] /\ used = {}
      /\ mark = [n \in Nodes |-> {}] /\ lmark = [n \in Nodes |-> {}] /\ cache = [n \in Nodes |-> {}]
      /\ journal = [n \in Nodes |-> [d \in Disks |-> NoJournal]] /\ hib = NoHibernation /\ sweep = NoSweep
      /\ pod = [at |-> None, ckpt |-> 0, epoch |-> 0]
    BY DEF Init
<1>1. hib.pc = "none" /\ sweep.pc = "none" /\ pod.at = None
    BY <1>0, NoHibernationColumns, NoSweepColumns
<1>2. Stores
    <2>1. journal \in [Nodes -> [Disks -> Journal \cup {NoJournal}]]
        BY <1>0
    <2> QED  BY <1>0, <2>1 DEF Stores, Contents
<1>3. Written /\ OwnHeads /\ OnlyHere /\ Journaled
    BY <1>0, <1>1 DEF Written, OwnHeads, OnlyHere, Journaled, Pushing
<1>4. ChunksOk
    BY <1>0, <1>1 DEF ChunksOk, Apart, LiveWhole, DoneThere, Done, Heading, PushingThere, Pushing, JournalsTrue,
       MarksKnown, LayersKnown, Kept, SweepSpares
<1> QED  BY <1>2, <1>3, <1>4 DEF CInv

LEMMA StepCInv == ASSUME DInv, CInv, [Next]_vars PROVE CInv'
<1>1. CASE UNCHANGED vars
    BY <1>1, UnchangedC
<1>2. CASE Next
    BY <1>2, CreateC, RestoreC, EvictC, PutHeadC, SealC, PushChunkC, DeleteC, HibernateC, PushChainC, MarkC,
       PutManifestC, MarkLayerC, LeaveC, AbandonC, CutOffC, SweepHeadsC, SweepLayersC, SweepListC, SweepDeleteC,
       SweepEndsC, TickC DEF Next
<1> QED  BY <1>1, <1>2

LEMMA CInvAlways == Spec => []CInv
<1>1. Init => CInv
    BY InitCInv
<1>2. DInv /\ CInv /\ [Next]_vars => CInv'
    BY StepCInv
<1> QED  BY <1>1, <1>2, DInvAlways, PTL DEF Spec

\* A recorded checkpoint has its heads, their manifests and every chunk they name in
\* the bucket, for any nodes, disks, chunks and times, though pushes trust markers,
\* hibernations are abandoned, and sweeps of any node run, or stop, between them, as
\* long as Calm holds.
THEOREM CheckpointIsWhole == Spec => []CheckpointWhole
<1>1. DInv /\ CInv => CheckpointWhole
    <2> SUFFICES ASSUME DInv, CInv, pod.ckpt # 0, fault \in {"none", "sweep stops"}, NEW d \in Disks
                 PROVE  \E h \in head : h.disk = d /\ Live(h) /\ InBucket({h.id}) /\ HasChunks(h.id)
        BY DEF CheckpointWhole
    <2>1. PICK h \in head : h.disk = d /\ Live(h)
        BY DEF DInv, HeadsLive
    <2>2. InBucket({h.id})
        BY DEF DInv, HeadsNamed
    <2>3. HasChunks(h.id)
        BY <2>1 DEF CInv, Calm, ChunksOk, LiveWhole
    <2> QED  BY <2>1, <2>2, <2>3
<1> QED  BY <1>1, DInvAlways, CInvAlways, PTL

\* No eviction and no sweep takes the last copy of a chunk that a pod's disk has:
\* what is not in the recorded checkpoint is in the node's cache and pinned there by
\* the disk's journal, until the hibernation has put it and its head, as long as
\* Calm holds.
THEOREM LastCopyStays == Spec => []DiskReadable
<1>1. DInv /\ CInv => DiskReadable
    <2> SUFFICES ASSUME DInv, CInv, pod.at # None, fault \in {"none", "sweep stops"}, NEW d \in Disks, NEW c \in row[d]
                 PROVE  c \in cache[pod.at] \/ chunk[c] # Gone
        BY DEF DiskReadable
    <2>1. ChunksOk
        BY DEF CInv, Calm
    <2>2. CASE Headed(d)
        <3>1. Near(c, d)
            BY <2>1, <2>2 DEF ChunksOk, DoneThere, Done, Headed
        <3> QED  BY <2>1, <3>1, BaseThere DEF ChunksOk, Near
    <2>3. CASE ~Headed(d)
        <3>1. Base(c, d) \/ c \in cache[pod.at]
            BY <2>1, <2>3 DEF ChunksOk, Kept
        <3> QED  BY <2>1, <3>1, BaseThere DEF ChunksOk
    <2> QED  BY <2>2, <2>3
<1> QED  BY <1>1, DInvAlways, CInvAlways, PTL

=============================================================================

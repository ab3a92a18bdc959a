------------------------- MODULE HibernationsProofs -------------------------
(***************************************************************************)
(* Proofs about module Hibernations: of an abandon and the point of no     *)
(* return of a hibernation one comes first, a hibernation at work on its   *)
(* pod is the one in the pod's slot, and an id that was abandoned starts   *)
(* or joins no other, for any number of calls, resumes, deletes, tasks and *)
(* incarnations.                                                           *)
(***************************************************************************)
EXTENDS Hibernations, SequenceTheorems, FiniteSetTheorems, TLAPS

-----------------------------------------------------------------------------
(* The inductive invariant *)

Pod == [inc : 0 .. MaxPods, last : Pods, state : {"running", "suspended", "stopped", "hibernated", "gone"},
        abandoned : Seq(Ids)]

\* The variables that decide who is in the slot have their types.
Typed ==
    /\ pod \in Pod
    /\ slot = NoSlot \/ slot \in Slot
    /\ task \in [Tasks -> Task]

\* A task from its start to the end of its slot.
ActivePcs == {"spawned", "queued", "locked", "suspend", "work", "head", "ending"}
Active(t) == task[t].pc \in ActivePcs

\* An incarnation is made once, and a task was started for one of them.
Incarnations ==
    /\ pod.inc <= pod.last
    /\ \A t \in Tasks : Active(t) => task[t].for \in 1 .. pod.last

\* The slot of a pod is its active task's.
ActiveInSlot == \A t \in Tasks : Active(t) /\ task[t].for = pod.inc => slot.task = t

\* What enter_head tells a resume that comes after it.
HeadInSlot == \A t \in Tasks : task[t].pc = "head" /\ slot.task = t => slot.head = "yes"

HInv == Typed /\ Incarnations /\ ActiveInSlot /\ HeadInSlot /\ AbandonOrHead

-----------------------------------------------------------------------------
(* Lemmas *)

\* What is kept of the ids is a sequence of ids.
LEMMA LastIdsType == \A s \in Seq(Ids) : LastIds(s) \in Seq(Ids)
<1> TAKE s \in Seq(Ids)
<1>1. Kept \in Nat \ {0}
    BY HibernationsConstants
<1>2. Len(s) \in Nat
    BY LenProperties
<1>3. CASE Len(s) > Kept
    <2>1. \A i \in (Len(s) - Kept + 1) .. Len(s) : i \in 1 .. Len(s)
        BY <1>1, <1>2, <1>3
    <2>2. \A i \in 1 .. Len(s) : s[i] \in Ids
        BY ElementOfSeq
    <2>3. SubSeq(s, Len(s) - Kept + 1, Len(s)) \in Seq(Ids)
        BY <1>1, <1>2, <1>3, <2>1, <2>2, SubSeqProperties
    <2> QED  BY <1>3, <2>3 DEF LastIds
<1>4. CASE ~(Len(s) > Kept)
    BY <1>4 DEF LastIds
<1> QED  BY <1>3, <1>4

\* What a request adds to a hibernation's ids.
LEMMA AddRequestType == ASSUME NEW s \in Seq(Ids), NEW i \in Ids  PROVE AddRequest(s, i) \in Seq(Ids)
<1>1. Append(s, i) \in Seq(Ids)
    BY AppendProperties
<1> QED  BY <1>1, LastIdsType DEF AddRequest

LEMMA Constants == MaxTasks \in Nat \ {0} /\ MaxPods \in Nat \ {0}
<1> QED  BY HibernationsConstants

LEMMA SlotTask == HInv => /\ NoSlot.task = 0
                          /\ slot # NoSlot => slot \in Slot /\ slot.task \in Tasks
<1> QED  BY DEF HInv, Typed, Slot, NoSlot

-----------------------------------------------------------------------------
(* The invariant at the start, and under every action *)

LEMMA HInit == Init => HInv
<1> SUFFICES ASSUME Init PROVE HInv
    OBVIOUS
<1> USE Constants
<1>1. pod \in Pod
    BY EmptySeq DEF Init, Pod, Pods
<1>2. \A t \in Tasks : task[t] = NoTask
    BY DEF Init
<1>3. NoTask \in Task
    BY DEF NoTask, Task
<1>4. task \in [Tasks -> Task]
    BY <1>3 DEF Init
<1>5. Typed
    BY <1>1, <1>4 DEF Init, Typed
<1>6. NoTask.pc = "none"
    BY DEF NoTask
<1>7. Incarnations
    BY <1>2, <1>6 DEF Incarnations, ActivePcs, Active, Init
<1> QED  BY <1>2, <1>5, <1>6, <1>7 DEF HInv, ActiveInSlot, HeadInSlot, AbandonOrHead, ActivePcs, Active

\* The pod may change its state and what it abandoned, and the slot its ids.
SamePod == pod' \in Pod /\ pod'.inc = pod.inc /\ pod'.last = pod.last
SameSlot ==
    /\ slot' = NoSlot \/ slot' \in Slot
    /\ slot'.task = slot.task
    /\ slot.head = "yes" => slot'.head = "yes"

\* A step of a task that keeps the pod and who is in the slot, asks for nothing
\* and goes neither to the head nor back into the slot.
LEMMA HMoves ==
    ASSUME HInv, SamePod, SameSlot, NEW t \in Tasks, NEW r \in Task,
           task' = [task EXCEPT ![t] = r], r.pc \in ActivePcs => Active(t),
           r.for = task[t].for, r.pc # "head"
    PROVE  HInv'
<1>1. task' \in [Tasks -> Task]
    BY DEF HInv, Typed
<1>2. task'[t] = r /\ \A u \in Tasks \ {t} : task'[u] = task[u]
    BY DEF HInv, Typed
<1>3. Typed'
    BY <1>1 DEF HInv, Typed, SamePod, SameSlot
<1>4. \A u \in Tasks : Active(u)' => Active(u) /\ task'[u].for = task[u].for
    BY <1>2 DEF Active
<1>5. \A u \in Tasks : task'[u].pc = "head" => task'[u] = task[u]
    BY <1>2
<1>6. Incarnations'
    BY <1>4 DEF HInv, Incarnations, SamePod
<1>7. ActiveInSlot'
    BY <1>4 DEF HInv, ActiveInSlot, SamePod, SameSlot
<1>8. HeadInSlot'
    BY <1>5 DEF HInv, HeadInSlot, SameSlot
<1>9. AbandonOrHead'
    BY <1>5 DEF HInv, AbandonOrHead, Asked
<1> QED  BY <1>3, <1>6, <1>7, <1>8, <1>9 DEF HInv

\* A change of the pod's state alone.
LEMMA HState ==
    ASSUME HInv, UNCHANGED slot,
           NEW s \in {"running", "suspended", "stopped", "hibernated", "gone"},
           pod' = [pod EXCEPT !.state = s]
    PROVE  SamePod /\ SameSlot
<1>1. SamePod
    BY DEF HInv, Typed, SamePod, Pod
<1>2. SameSlot
    BY DEF HInv, Typed, SameSlot
<1> QED  BY <1>1, <1>2

\* A step that keeps the pod, who is in the slot, and the tasks.
LEMMA HSame == ASSUME HInv, SamePod, SameSlot, UNCHANGED task  PROVE HInv'
<1> QED
    BY DEF HInv, Typed, Incarnations, ActiveInSlot, HeadInSlot, AbandonOrHead, Active, Asked, SamePod, SameSlot

LEMMA HStutter == ASSUME HInv, UNCHANGED <<pod, slot>>  PROVE SamePod /\ SameSlot
<1> QED  BY DEF HInv, Typed, SamePod, SameSlot

LEMMA HJoin == ASSUME HInv, NEW c \in Calls, Join(c)  PROVE HInv'
<1>1. slot \in Slot
    BY SlotTask DEF Join
<1>2. IdOf[c] \in Ids
    BY HibernationsConstants
<1>3. AddRequest(slot.ids, IdOf[c]) \in Seq(Ids)
    BY <1>1, <1>2, AddRequestType DEF Slot
<1>4. slot' \in Slot /\ slot'.task = slot.task /\ slot'.head = slot.head
    <2> DEFINE a == AddRequest(slot.ids, IdOf[c])
    <2>1. slot' = [slot EXCEPT !.ids = a, !.noAbandon = IF c \in NoAbandon THEN "yes" ELSE @] /\ a \in Seq(Ids)
        BY <1>3 DEF Join
    <2> HIDE DEF a
    <2> QED  BY <1>1, <2>1 DEF Slot
<1>5. UNCHANGED <<pod, task>>
    BY DEF Join
<1>6. SamePod /\ SameSlot
    BY <1>4, <1>5 DEF HInv, Typed, SamePod, SameSlot
<1> QED  BY <1>5, <1>6, HSame

LEMMA HStart == ASSUME HInv, NEW c \in Calls, pod.inc # 0, Start(c)  PROVE HInv'
<1>1. PICK t \in Tasks :
        /\ slot = NoSlot /\ task[t].pc = "none"
        /\ task' = [task EXCEPT ![t].pc = "spawned", ![t].for = pod.inc]
        /\ slot' = [task |-> t, noAbandon |-> IF c \in NoAbandon THEN "yes" ELSE "no",
                    ids |-> <<IdOf[c]>>, head |-> "no", memory |-> "unknown"]
        /\ pod' = pod
    BY DEF Start
<1>2. slot' \in Slot /\ slot'.task = t
    <2>1. IdOf[c] \in Ids
        BY HibernationsConstants
    <2>2. <<IdOf[c]>> \in Seq(Ids)
        BY <2>1
    <2> QED  BY <1>1, <2>2 DEF Slot
<1>3. task' \in [Tasks -> Task] /\ task'[t].pc = "spawned" /\ task'[t].for = pod.inc
    <2> DEFINE i == pod.inc
    <2>1. i \in 0 .. MaxPods
        BY DEF HInv, Typed, Pod
    <2>2. task' = [task EXCEPT ![t].pc = "spawned", ![t].for = i] /\ task \in [Tasks -> Task]
        BY <1>1 DEF HInv, Typed
    <2> HIDE DEF i
    <2>3. task' \in [Tasks -> Task] /\ task'[t].pc = "spawned" /\ task'[t].for = i
        BY ZenonT(30), <2>1, <2>2 DEF Task
    <2> QED  BY <2>3 DEF i
<1>4. \A u \in Tasks \ {t} : task'[u] = task[u]
    BY <1>1 DEF HInv, Typed
<1>5. pod \in Pod /\ pod' = pod /\ Incarnations /\ ActiveInSlot /\ AbandonOrHead /\ slot.task = 0
    BY <1>1, SlotTask DEF HInv, Typed
<1>6. pod.inc \in 1 .. pod.last
    BY <1>5, Constants DEF Incarnations, Pod, Pods
<1>7. Typed'
    BY <1>2, <1>3, <1>5 DEF Typed
<1>8. Incarnations'
    BY <1>3, <1>4, <1>5, <1>6 DEF Incarnations, Active
<1>9. \A u \in Tasks \ {t} : ~(Active(u) /\ task[u].for = pod.inc)
    BY <1>5 DEF ActiveInSlot, Tasks
<1>10. ActiveInSlot'
    BY <1>2, <1>4, <1>5, <1>9 DEF ActiveInSlot, Active
<1>11. HeadInSlot'
    BY <1>2, <1>3, <1>4 DEF HeadInSlot
<1>12. AbandonOrHead'
    BY <1>3, <1>4, <1>5 DEF AbandonOrHead, Asked
<1> QED  BY <1>7, <1>8, <1>10, <1>11, <1>12 DEF HInv

\* The steps of a task that leave the slot alone.
LEMMA HQueues == ASSUME HInv, NEW t \in Tasks, Queues(t)  PROVE HInv'
<1>1. SamePod /\ SameSlot
    BY HStutter DEF Queues
<1>2. Active(t) /\ pod.inc \in 0 .. MaxPods
    BY DEF Queues, Active, ActivePcs, HInv, Typed, Pod
<1>3. CASE pod.inc = 0
    <2> DEFINE r == [task[t] EXCEPT !.pc = "ending", !.answer = "failed"]
    <2>1. task' = [task EXCEPT ![t] = r] /\ r \in Task /\ r.for = task[t].for /\ r.pc # "head"
        BY ZenonT(30), <1>3 DEF Queues, Ends, HInv, Typed, Task
    <2> HIDE DEF r
    <2> QED  BY <1>1, <1>2, <2>1, HMoves
<1>4. CASE pod.inc # 0
    <2> DEFINE r == [task[t] EXCEPT !.pc = "queued", !.lock = pod.inc]
    <2>1. task' = [task EXCEPT ![t] = r] /\ r \in Task /\ r.for = task[t].for /\ r.pc # "head"
        BY ZenonT(30), <1>2, <1>4 DEF Queues, HInv, Typed, Task
    <2> HIDE DEF r
    <2> QED  BY <1>1, <1>2, <2>1, HMoves
<1> QED  BY <1>3, <1>4

LEMMA HLocked == ASSUME HInv, NEW t \in Tasks, Locked(t)  PROVE HInv'
<1>1. SamePod /\ SameSlot
    BY HStutter DEF Locked
<1>2. Active(t)
    BY DEF Locked, Active, ActivePcs
<1>3. CASE pod.inc = task[t].lock
    <2> DEFINE r == [task[t] EXCEPT !.pc = "locked"]
    <2>1. task' = [task EXCEPT ![t] = r] /\ r \in Task /\ r.for = task[t].for /\ r.pc # "head"
        BY <1>3 DEF Locked, HInv, Typed, Task
    <2> HIDE DEF r
    <2> QED  BY <1>1, <1>2, <2>1, HMoves
<1>4. CASE pod.inc # task[t].lock
    <2> DEFINE r == [task[t] EXCEPT !.pc = "ending", !.answer = "failed", !.lock = 0]
    <2>1. task' = [task EXCEPT ![t] = r]
        BY <1>4 DEF Locked, HInv, Typed
    <2>2. 0 \in 0 .. MaxPods
        BY Constants
    <2>3. r \in Task /\ r.for = task[t].for /\ r.pc # "head"
        BY <2>2 DEF HInv, Typed, Task
    <2> HIDE DEF r
    <2> QED  BY <1>1, <1>2, <2>1, <2>3, HMoves
<1> QED  BY <1>3, <1>4

\* A task ends with an answer.
LEMMA HEnds ==
    ASSUME HInv, SamePod, SameSlot, NEW t \in Tasks, Active(t),
           NEW a \in {"none", "ok", "failed", "aborted"}, Ends(t, a)
    PROVE  HInv'
<1> DEFINE r == [task[t] EXCEPT !.pc = "ending", !.answer = a]
<1>1. task' = [task EXCEPT ![t] = r] /\ r \in Task /\ r.for = task[t].for /\ r.pc # "head"
    BY DEF Ends, HInv, Typed, Task
<1> HIDE DEF r
<1> QED  BY <1>1, HMoves

LEMMA HDecide == ASSUME HInv, NEW t \in Tasks, Decide(t)  PROVE HInv'
<1>1. Active(t) /\ pod' = pod
    BY DEF Decide, Active, ActivePcs
<1>2. CASE Ends(t, "ok") /\ UNCHANGED slot
    BY <1>1, <1>2, HStutter, HEnds
<1>3. ASSUME NEW memory \in {"yes", "no"},
             InSlot(t, [slot EXCEPT !.memory = memory]),
             task' = [task EXCEPT ![t].obeys = memory,
                            ![t].pc = IF memory = "yes" /\ task[t].asked = "yes" THEN "ending"
                                      ELSE IF pod.state = "running" THEN "suspend" ELSE "work",
                            ![t].answer = IF memory = "yes" /\ task[t].asked = "yes" THEN "aborted" ELSE "none"]
      PROVE  HInv'
    <2>1. SameSlot
        <3>1. CASE slot.task = t
            <4>1. slot \in Slot /\ slot' = [slot EXCEPT !.memory = memory]
                BY <1>3, <3>1, SlotTask DEF InSlot, Tasks
            <4> QED  BY <4>1 DEF SameSlot, Slot
        <3>2. CASE slot.task # t
            BY <1>3, <3>2 DEF InSlot, SameSlot, HInv, Typed
        <3> QED  BY <3>1, <3>2
    <2>2. SamePod
        BY <1>1 DEF SamePod, HInv, Typed
    <2> DEFINE pc == IF memory = "yes" /\ task[t].asked = "yes" THEN "ending"
                     ELSE IF pod.state = "running" THEN "suspend" ELSE "work"
               an == IF memory = "yes" /\ task[t].asked = "yes" THEN "aborted" ELSE "none"
               r == [task[t] EXCEPT !.obeys = memory, !.pc = pc, !.answer = an]
    <2>3. task' = [task EXCEPT ![t] = r]
        BY <1>3 DEF HInv, Typed
    <2>4. pc \in {"ending", "suspend", "work"} /\ an \in {"aborted", "none"}
        OBVIOUS
    <2> HIDE DEF pc, an
    <2>5. r \in Task /\ r.for = task[t].for /\ r.pc # "head"
        BY ZenonT(30), <2>4 DEF HInv, Typed, Task
    <2> HIDE DEF r
    <2> QED  BY <1>1, <2>1, <2>2, <2>3, <2>5, HMoves
<1>4. CASE \E memory \in CASE pod.state = "running" -> {"yes"} [] pod.state = "suspended" -> {"yes", "no"}
                          [] pod.state = "stopped" -> {"no"} [] OTHER -> {} :
             /\ InSlot(t, [slot EXCEPT !.memory = memory])
             /\ task' = [task EXCEPT ![t].obeys = memory,
                            ![t].pc = IF memory = "yes" /\ task[t].asked = "yes" THEN "ending"
                                      ELSE IF pod.state = "running" THEN "suspend" ELSE "work",
                            ![t].answer = IF memory = "yes" /\ task[t].asked = "yes" THEN "aborted" ELSE "none"]
    <2>1. (CASE pod.state = "running" -> {"yes"} [] pod.state = "suspended" -> {"yes", "no"}
             [] pod.state = "stopped" -> {"no"} [] OTHER -> {}) \subseteq {"yes", "no"}
        OBVIOUS
    <2> QED  BY <1>3, <1>4, <2>1
<1> QED  BY <1>2, <1>4 DEF Decide

LEMMA HSuspend == ASSUME HInv, NEW t \in Tasks, Suspend(t)  PROVE HInv'
<1>1. Active(t) /\ SamePod /\ SameSlot
    BY HState DEF Suspend, Active, ActivePcs
<1>2. CASE Ends(t, "aborted")
    BY <1>1, <1>2, HEnds
<1>3. CASE task' = [task EXCEPT ![t].pc = "work"]
    <2> DEFINE r == [task[t] EXCEPT !.pc = "work"]
    <2>1. task' = [task EXCEPT ![t] = r] /\ r \in Task /\ r.for = task[t].for /\ r.pc # "head"
        BY <1>3 DEF HInv, Typed, Task
    <2> HIDE DEF r
    <2> QED  BY <1>1, <2>1, HMoves
<1> QED  BY <1>2, <1>3 DEF Suspend

LEMMA HDropped == ASSUME HInv, NEW t \in Tasks, Dropped(t)  PROVE HInv'
<1>1. Active(t) /\ SamePod /\ SameSlot
    BY HStutter DEF Dropped, Active, ActivePcs
<1> QED  BY <1>1, HEnds DEF Dropped

LEMMA HLeave == ASSUME HInv, NEW t \in Tasks, Leave(t)  PROVE HInv'
<1>1. Active(t) /\ SamePod /\ SameSlot
    BY HState DEF Leave, Active, ActivePcs
<1> QED  BY <1>1, HEnds DEF Leave

LEMMA HFails == ASSUME HInv, NEW t \in Tasks, Fails(t)  PROVE HInv'
<1>1. Active(t) /\ SamePod /\ SameSlot
    BY HStutter DEF Fails, Active, ActivePcs
<1> QED  BY <1>1, HEnds DEF Fails

LEMMA HUnlock == ASSUME HInv, NEW t \in Tasks, Unlock(t)  PROVE HInv'
<1>1. SamePod /\ SameSlot
    BY HStutter DEF Unlock
<1> DEFINE r == [task[t] EXCEPT !.pc = "over"]
<1>2. task' = [task EXCEPT ![t] = r] /\ r \in Task /\ r.for = task[t].for /\ r.pc = "over"
    BY DEF Unlock, HInv, Typed, Task
<1>3. "over" \notin ActivePcs
    BY DEF ActivePcs
<1> HIDE DEF r
<1> QED  BY <1>1, <1>2, <1>3, HMoves

\* The task was not asked before it goes to the head, and is in the slot: what
\* asks later sees slot.head.
LEMMA HEnterHead == ASSUME HInv, NEW t \in Tasks, EnterHead(t)  PROVE HInv'
<1>1. Active(t) /\ pod' = pod
    BY DEF EnterHead, Active, ActivePcs
<1>2. CASE Asked(t)
    BY <1>1, <1>2, HStutter, HEnds DEF EnterHead
<1>3. CASE ~Asked(t)
    <2>1. task' = [task EXCEPT ![t].pc = "head"] /\ InSlot(t, [slot EXCEPT !.head = "yes"])
        BY <1>3 DEF EnterHead
    <2>2. /\ task' \in [Tasks -> Task] /\ \A u \in Tasks \ {t} : task'[u] = task[u]
          /\ task'[t].pc = "head" /\ task'[t].for = task[t].for
          /\ task'[t].asked = task[t].asked /\ task'[t].obeys = task[t].obeys
        BY <2>1 DEF HInv, Typed, Task
    <2>3. SameSlot /\ (slot'.task = t => slot'.head = "yes")
        <3>1. CASE slot.task = t
            <4>1. slot \in Slot /\ slot' = [slot EXCEPT !.head = "yes"]
                BY <2>1, <3>1, SlotTask DEF InSlot, Tasks
            <4> QED  BY <4>1 DEF SameSlot, Slot
        <3>2. CASE slot.task # t
            BY <2>1, <3>2 DEF InSlot, SameSlot, HInv, Typed
        <3> QED  BY <3>1, <3>2
    <2>4. \A u \in Tasks : Active(u)' => Active(u) /\ task'[u].for = task[u].for
        BY <1>1, <2>2 DEF Active
    <2>5. Typed'
        BY <1>1, <2>2, <2>3 DEF HInv, Typed, SameSlot
    <2>6. Incarnations'
        BY <1>1, <2>4 DEF HInv, Incarnations
    <2>7. ActiveInSlot'
        BY <1>1, <2>3, <2>4 DEF HInv, ActiveInSlot, SameSlot
    <2>8. HeadInSlot'
        BY <2>2, <2>3 DEF HInv, HeadInSlot, SameSlot
    <2>9. AbandonOrHead'
        BY <1>3, <2>2 DEF HInv, AbandonOrHead, Asked
    <2> QED  BY <2>5, <2>6, <2>7, <2>8, <2>9 DEF HInv
<1> QED  BY <1>2, <1>3

\* The slot that ends is the task's own: no other active task of this pod is there.
LEMMA HEndSlot == ASSUME HInv, NEW t \in Tasks, EndSlot(t)  PROVE HInv'
<1> DEFINE r == [task[t] EXCEPT !.pc = "unlock"]
<1>1. task' = [task EXCEPT ![t] = r] /\ r \in Task /\ r.for = task[t].for /\ r.pc = "unlock"
    BY DEF EndSlot, HInv, Typed, Task
<1>2. "unlock" \notin ActivePcs /\ task[t].pc = "ending"
    BY DEF EndSlot, ActivePcs
<1> HIDE DEF r
<1>3. CASE slot.task # t
    <2>1. SamePod /\ SameSlot
        BY <1>3, HStutter DEF EndSlot
    <2> QED  BY <1>1, <1>2, <2>1, HMoves
<1>4. CASE slot.task = t
    <2>1. slot' = NoSlot /\ slot \in Slot
        BY <1>4, SlotTask DEF EndSlot, Tasks
    <2>2. SamePod
        <3>1. CASE task[t].answer # "aborted"
            BY <1>4, <3>1 DEF EndSlot, SamePod, HInv, Typed
        <3>2. CASE task[t].answer = "aborted"
            <4> DEFINE a == LastIds(pod.abandoned \o slot.ids)
            <4>1. pod' = [pod EXCEPT !.abandoned = a]
                BY <1>4, <3>2 DEF EndSlot
            <4>2. pod.abandoned \in Seq(Ids) /\ slot.ids \in Seq(Ids)
                BY <2>1 DEF HInv, Typed, Pod, Slot
            <4>3. a \in Seq(Ids)
                BY <4>2, ConcatProperties, LastIdsType
            <4> HIDE DEF a
            <4> QED  BY <4>1, <4>3 DEF SamePod, HInv, Typed, Pod
        <3> QED  BY <3>1, <3>2
    <2>3. task' \in [Tasks -> Task] /\ task'[t] = r /\ \A u \in Tasks \ {t} : task'[u] = task[u]
        BY <1>1 DEF HInv, Typed
    <2>4. \A u \in Tasks : Active(u)' => u # t /\ Active(u) /\ task'[u].for = task[u].for
        BY <1>1, <1>2, <2>3 DEF Active
    <2>5. Typed'
        BY <2>1, <2>2, <2>3 DEF Typed, SamePod
    <2>6. Incarnations'
        BY <2>2, <2>4 DEF HInv, Incarnations, SamePod
    <2>7. ActiveInSlot'
        BY <1>4, <2>2, <2>4 DEF HInv, ActiveInSlot, SamePod
    <2>8. HeadInSlot'
        BY <2>1, SlotTask DEF HeadInSlot, Tasks
    <2>9. AbandonOrHead'
        BY <1>1, <2>3 DEF HInv, AbandonOrHead, Asked
    <2> QED  BY <2>5, <2>6, <2>7, <2>8, <2>9 DEF HInv
<1> QED  BY <1>3, <1>4

\* A resume asks only a task that is not yet at its head.
LEMMA HRequestAbandon == ASSUME HInv, NEW r \in Resumes, RequestAbandon(r)  PROVE HInv'
<1>1. UNCHANGED <<pod, slot>>
    BY DEF RequestAbandon
<1>2. CASE slot # NoSlot /\ Abandonable
    <2> DEFINE t == slot.task
    <2>1. t \in Tasks /\ slot.head = "no"
        BY <1>2, SlotTask DEF Abandonable
    <2>2. task' = [task EXCEPT ![t].asked = "yes"]
        BY <1>2 DEF RequestAbandon
    <2>3. task[t].pc # "head"
        BY <2>1 DEF HInv, HeadInSlot
    <2> DEFINE q == [task[t] EXCEPT !.asked = "yes"]
    <2>4. task' = [task EXCEPT ![t] = q] /\ q \in Task /\ q.for = task[t].for /\ q.pc = task[t].pc
        BY <2>1, <2>2 DEF HInv, Typed, Task
    <2> HIDE DEF t, q
    <2>5. SamePod /\ SameSlot
        BY <1>1, HStutter
    <2> QED  BY <2>1, <2>3, <2>4, <2>5, HMoves DEF Active
<1>3. CASE ~(slot # NoSlot /\ Abandonable)
    BY <1>1, <1>3, HStutter, HSame DEF RequestAbandon
<1> QED  BY <1>2, <1>3

\* No task is for no pod, or for the one made next.
LEMMA HDelete == ASSUME HInv, NEW x \in Deletes, Delete(x)  PROVE HInv'
<1>1. task' = task
    BY DEF Delete
<1>2. CASE pod.inc = delete[x].lock
    <2>1. pod' = [pod EXCEPT !.inc = 0, !.state = "gone", !.abandoned = <<>>] /\ slot' = NoSlot
        BY <1>2 DEF Delete
    <2>2. <<>> \in Seq(Ids) /\ 0 \in 0 .. MaxPods
        BY EmptySeq, Constants
    <2>3. pod' \in Pod /\ pod'.inc = 0 /\ pod'.last = pod.last /\ pod.last \in Pods
        BY <2>1, <2>2 DEF HInv, Typed, Pod
    <2>4. Typed'
        BY <1>1, <2>1, <2>3 DEF HInv, Typed
    <2>5. Incarnations'
        BY <1>1, <2>3, Constants DEF HInv, Incarnations, Active, Pods
    <2>6. \A t \in Tasks : Active(t)' => Active(t) /\ task'[t].for \in 1 .. pod.last
        BY <1>1 DEF HInv, Incarnations, Active
    <2>7. \A t \in Tasks : Active(t)' => task'[t].for # pod'.inc
        BY <2>3, <2>6 DEF Pods
    <2>8. ActiveInSlot'
        BY <2>7 DEF ActiveInSlot
    <2>9. HeadInSlot'
        BY <2>1, SlotTask DEF HeadInSlot, Tasks
    <2>10. AbandonOrHead'
        BY <1>1 DEF HInv, AbandonOrHead, Asked
    <2> QED  BY <2>4, <2>5, <2>8, <2>9, <2>10 DEF HInv
<1>3. CASE pod.inc # delete[x].lock
    BY <1>1, <1>3, HStutter, HSame DEF Delete
<1> QED  BY <1>2, <1>3

LEMMA HCreate == ASSUME HInv, Create  PROVE HInv'
<1>1. UNCHANGED <<task, slot>>
    BY DEF Create
<1>2. pod.last \in Pods /\ pod.last + 1 \in Pods /\ pod.last + 1 \in 0 .. MaxPods
    BY Constants DEF HInv, Typed, Pod, Pods, Create
<1>3. pod' \in Pod /\ pod'.inc = pod.last + 1 /\ pod'.last = pod.last + 1
    <2> DEFINE i == pod.last + 1
    <2>1. pod' = [pod EXCEPT !.inc = i, !.last = i, !.state = "running"]
        BY DEF Create
    <2>2. i \in Pods /\ i \in 0 .. MaxPods
        BY <1>2
    <2> HIDE DEF i
    <2>3. pod' \in Pod /\ pod'.inc = i /\ pod'.last = i
        BY <2>1, <2>2 DEF HInv, Typed, Pod
    <2> QED  BY <2>3 DEF i
<1>4. Typed'
    BY <1>1, <1>3 DEF HInv, Typed
<1>5. \A t \in Tasks : Active(t)' => Active(t) /\ task'[t].for \in 1 .. pod.last
    BY <1>1 DEF HInv, Incarnations, Active
<1>6. Incarnations'
    BY <1>2, <1>3, <1>5 DEF Incarnations, Pods
<1>7. \A t \in Tasks : Active(t)' => task'[t].for # pod'.inc
    BY <1>2, <1>3, <1>5 DEF Pods
<1>8. ActiveInSlot'
    BY <1>7 DEF ActiveInSlot
<1>9. HeadInSlot' /\ AbandonOrHead'
    BY <1>1 DEF HInv, HeadInSlot, AbandonOrHead, Asked
<1> QED  BY <1>4, <1>6, <1>8, <1>9 DEF HInv

LEMMA HStep == HInv /\ [Next]_vars => HInv'
<1> SUFFICES ASSUME HInv, [Next]_vars  PROVE HInv'
    OBVIOUS
<1>1. ASSUME UNCHANGED <<pod, slot, task>>  PROVE HInv'
    BY <1>1, HStutter, HSame
<1>2. ASSUME NEW c \in Calls, Hibernate(c) \/ Answer(c) \/ Lost(c)  PROVE HInv'
    <2>1. CASE Refuse(c) \/ Answer(c) \/ Lost(c)
        BY <1>1, <2>1 DEF Refuse, Answer, Lost
    <2>2. CASE pod.inc # 0 /\ (Join(c) \/ Start(c))
        BY <2>2, HJoin, HStart
    <2> QED  BY <1>2, <2>1, <2>2 DEF Hibernate
<1>3. ASSUME NEW t \in Tasks, Run(t) \/ Fails(t)  PROVE HInv'
    BY <1>3, HQueues, HLocked, HDecide, HSuspend, HDropped, HEnterHead, HLeave, HEndSlot, HUnlock, HFails DEF Run
<1>4. ASSUME NEW r \in Resumes,
             ResumeQueues(r) \/ RequestAbandon(r) \/ Resume(r) \/ RestoreQueues(r) \/ Restore(r)
      PROVE  HInv'
    <2>1. CASE ResumeQueues(r) \/ RestoreQueues(r)
        BY <1>1, <2>1 DEF ResumeQueues, RestoreQueues
    <2>2. CASE RequestAbandon(r)
        BY <2>2, HRequestAbandon
    <2>3. ASSUME UNCHANGED <<slot, task>>, pod' = [pod EXCEPT !.state = "running"]  PROVE HInv'
        BY <2>3, HState, HSame
    <2>4. CASE Resume(r)
        BY <1>1, <2>3, <2>4 DEF Resume
    <2>5. CASE Restore(r)
        BY <1>1, <2>3, <2>5 DEF Restore
    <2> QED  BY <1>4, <2>1, <2>2, <2>4, <2>5
<1>5. ASSUME NEW x \in Deletes, DeleteQueues(x) \/ Delete(x)  PROVE HInv'
    BY <1>1, <1>5, HDelete DEF DeleteQueues
<1>6. CASE Create
    BY <1>6, HCreate
<1>7. CASE GuestEnds
    BY <1>7, HState, HSame DEF GuestEnds
<1>8. CASE UNCHANGED vars
    BY <1>1, <1>8 DEF vars
<1> QED  BY <1>2, <1>3, <1>4, <1>5, <1>6, <1>7, <1>8 DEF Next

LEMMA HAlways == Spec => []HInv
<1> QED  BY HInit, HStep, PTL DEF Spec

-----------------------------------------------------------------------------
(* The theorems *)

\* Of a resume's abandon and a hibernation's point of no return (enter_head and
\* request_abandon of pods.rs) one comes first, for all calls, resumes, deletes,
\* tasks and incarnations of the pod.
THEOREM AbandonOrHeadAlways == Spec => []AbandonOrHead
<1>1. HInv => AbandonOrHead
    BY DEF HInv
<1> QED  BY <1>1, HAlways, PTL

\* A hibernation at work on its pod is the one that calls join and a resume
\* reaches, however late an earlier one of that pod or another incarnation's ends
\* (SlotGuard and end_slot of pods.rs).
THEOREM SlotIsWorkers == Spec => []WorkingInSlot
<1>1. HInv => WorkingInSlot
    BY DEF HInv, ActiveInSlot, WorkingInSlot, Working, Active, ActivePcs
<1> QED  BY <1>1, HAlways, PTL

-----------------------------------------------------------------------------
(* The abandoned ids: the inductive invariant *)

\* No id of the hibernation in flight is one that the pod abandoned and remembers.
IdsApart == slot # NoSlot => ToSet(slot.ids) \cap ToSet(pod.abandoned) = {}

\* An id is in a list once.
IdsOnce == IsInjective(pod.abandoned) /\ (slot # NoSlot => IsInjective(slot.ids))

\* A pod can remember every id that its callers have.
IdsFit == IsFiniteSet(Ids) /\ Cardinality(Ids) <= Kept

\* Then it does.
Remembered == IdsFit => aborted \subseteq ToSet(pod.abandoned)

AInv == IdsApart /\ IdsOnce /\ Remembered

-----------------------------------------------------------------------------
(* Lists of ids *)

LEMMA IdsList ==
    ASSUME NEW s \in Seq(Ids)
    PROVE  /\ Len(s) \in Nat /\ DOMAIN s = 1 .. Len(s) /\ s \in [1 .. Len(s) -> Ids]
           /\ \A x : x \in ToSet(s) <=> \E i \in 1 .. Len(s) : s[i] = x
<1>1. Len(s) \in Nat /\ DOMAIN s = 1 .. Len(s) /\ s \in [1 .. Len(s) -> Ids]
    BY LenProperties
<1> QED  BY <1>1 DEF ToSet

\* What is kept of a list is of it, once.
LEMMA LastIdsOf ==
    ASSUME NEW s \in Seq(Ids)
    PROVE  ToSet(LastIds(s)) \subseteq ToSet(s) /\ (IsInjective(s) => IsInjective(LastIds(s)))
<1>1. Kept \in Nat \ {0} /\ Len(s) \in Nat
    BY HibernationsConstants, IdsList
<1>2. CASE Len(s) > Kept
    <2> DEFINE m == Len(s) - Kept + 1
               z == SubSeq(s, m, Len(s))
    <2>1. m \in 1 .. Len(s) /\ m \in Int /\ Len(s) - m + 1 = Kept
        BY <1>1, <1>2
    <2>2. \A i \in m .. Len(s) : i \in 1 .. Len(s) /\ s[i] \in Ids
        BY <1>1, <2>1, IdsList
    <2>3. /\ z \in Seq(Ids) /\ Len(z) = Len(s) - m + 1
          /\ \A i \in 1 .. Len(s) - m + 1 : z[i] = s[m + i - 1]
        <3> HIDE DEF m
        <3> QED  BY <1>1, <2>1, <2>2, SubSeqProperties
    <2>4. LastIds(s) = z
        BY <1>2 DEF LastIds
    <2> HIDE DEF z, m
    <2>5. \A i \in 1 .. Kept : m + i - 1 \in 1 .. Len(s) /\ z[i] = s[m + i - 1]
        BY <1>1, <2>1, <2>3
    <2>6. DOMAIN z = 1 .. Kept
        BY <2>1, <2>3, IdsList
    <2>7. ToSet(z) \subseteq ToSet(s)
        <3> SUFFICES ASSUME NEW i \in 1 .. Kept  PROVE z[i] \in ToSet(s)
            BY <2>6 DEF ToSet
        <3> QED  BY <2>5, IdsList
    <2>8. ASSUME IsInjective(s)  PROVE IsInjective(z)
        <3> SUFFICES ASSUME NEW i \in 1 .. Kept, NEW j \in 1 .. Kept, z[i] = z[j]  PROVE i = j
            BY <2>6 DEF IsInjective
        <3>1. m + i - 1 = m + j - 1
            BY <2>5, <2>8, IdsList DEF IsInjective
        <3> QED  BY <1>1, <2>1, <3>1
    <2> QED  BY <2>4, <2>7, <2>8
<1>3. CASE ~(Len(s) > Kept)
    BY <1>3 DEF LastIds
<1> QED  BY <1>2, <1>3

\* A list that has no id twice is kept whole, if the ids fit.
LEMMA LastIdsAll ==
    ASSUME IdsFit, NEW s \in Seq(Ids), IsInjective(s)
    PROVE  LastIds(s) = s
<1>1. Len(s) \in Nat /\ s \in [1 .. Len(s) -> Ids] /\ Kept \in Nat
    BY IdsList, HibernationsConstants
<1>2. s \in Injection(1 .. Len(s), Ids)
    BY <1>1 DEF Injection
<1>3. Cardinality(1 .. Len(s)) <= Cardinality(Ids) /\ Cardinality(Ids) \in Nat
    BY <1>2, FS_Injection, FS_CardinalityType DEF IdsFit
<1>4. Cardinality(1 .. Len(s)) = Len(s)
    BY <1>1, FS_Interval
<1>5. ~(Len(s) > Kept)
    BY <1>1, <1>3, <1>4 DEF IdsFit
<1> QED  BY <1>5 DEF LastIds

LEMMA AppendOnce ==
    ASSUME NEW s \in Seq(Ids), NEW d \in Ids, IsInjective(s), d \notin ToSet(s)
    PROVE  /\ Append(s, d) \in Seq(Ids) /\ IsInjective(Append(s, d))
           /\ ToSet(Append(s, d)) \subseteq ToSet(s) \cup {d}
<1> DEFINE z == Append(s, d)
           n == Len(s)
<1>1. /\ z \in Seq(Ids) /\ Len(z) = n + 1
      /\ (\A i \in 1 .. n : z[i] = s[i]) /\ z[n + 1] = d
    BY AppendProperties
<1>2. n \in Nat
    BY IdsList
<1> HIDE DEF z, n
<1>3. DOMAIN z = 1 .. n + 1
    BY <1>1, IdsList
<1>4. \A i \in 1 .. n : s[i] \in ToSet(s)
    BY IdsList DEF n
<1>5. IsInjective(z)
    <2> SUFFICES ASSUME NEW i \in 1 .. n + 1, NEW j \in 1 .. n + 1, z[i] = z[j]  PROVE i = j
        BY <1>3 DEF IsInjective
    <2>1. i \in 1 .. n \/ i = n + 1
        BY <1>2
    <2>2. j \in 1 .. n \/ j = n + 1
        BY <1>2
    <2>3. DOMAIN s = 1 .. n
        BY IdsList DEF n
    <2> QED  BY <1>1, <1>4, <2>1, <2>2, <2>3 DEF IsInjective
<1>6. ToSet(z) \subseteq ToSet(s) \cup {d}
    <2> SUFFICES ASSUME NEW i \in 1 .. n + 1  PROVE z[i] \in ToSet(s) \cup {d}
        BY <1>1, IdsList
    <2>1. i \in 1 .. n \/ i = n + 1
        BY <1>2
    <2> QED  BY <1>1, <1>4, <2>1
<1> QED  BY <1>1, <1>5, <1>6 DEF z

LEMMA ConcatOnce ==
    ASSUME NEW s \in Seq(Ids), NEW t \in Seq(Ids), IsInjective(s), IsInjective(t), ToSet(s) \cap ToSet(t) = {}
    PROVE  /\ s \o t \in Seq(Ids) /\ IsInjective(s \o t)
           /\ ToSet(s) \subseteq ToSet(s \o t) /\ ToSet(t) \subseteq ToSet(s \o t)
<1> DEFINE z == s \o t
           m == Len(s)
           n == Len(t)
<1>1. /\ z \in Seq(Ids) /\ Len(z) = m + n
      /\ \A i \in 1 .. m + n : z[i] = IF i <= m THEN s[i] ELSE t[i - m]
    BY ConcatProperties
<1>2. m \in Nat /\ n \in Nat /\ DOMAIN s = 1 .. m /\ DOMAIN t = 1 .. n
    BY IdsList
<1>3. (\A i \in 1 .. m : s[i] \in ToSet(s)) /\ (\A i \in 1 .. n : t[i] \in ToSet(t))
    BY IdsList
<1>4. /\ \A x \in ToSet(s) : \E i \in 1 .. m : s[i] = x
      /\ \A x \in ToSet(t) : \E i \in 1 .. n : t[i] = x
      /\ DOMAIN z = 1 .. m + n /\ \A i \in 1 .. m + n : z[i] \in ToSet(z)
    BY <1>1, IdsList
<1> HIDE DEF z, m, n
<1>5. \A i \in 1 .. m + n : \/ i \in 1 .. m /\ z[i] = s[i]
                            \/ i - m \in 1 .. n /\ z[i] = t[i - m]
    BY <1>1, <1>2
<1>6. IsInjective(z)
    <2> SUFFICES ASSUME NEW i \in 1 .. m + n, NEW j \in 1 .. m + n, z[i] = z[j]  PROVE i = j
        BY <1>4 DEF IsInjective
    <2>1. CASE i \in 1 .. m /\ z[i] = s[i]
        <3>1. j \in 1 .. m /\ z[j] = s[j]
            BY <1>3, <1>5, <2>1
        <3> QED  BY <1>2, <2>1, <3>1 DEF IsInjective
    <2>2. CASE i - m \in 1 .. n /\ z[i] = t[i - m]
        <3>1. j - m \in 1 .. n /\ z[j] = t[j - m]
            BY <1>3, <1>5, <2>2
        <3>2. i - m = j - m
            BY <1>2, <2>2, <3>1 DEF IsInjective
        <3> QED  BY <1>2, <3>2
    <2> QED  BY <1>5, <2>1, <2>2
<1>7. ToSet(s) \subseteq ToSet(z)
    <2> SUFFICES ASSUME NEW i \in 1 .. m  PROVE s[i] \in ToSet(z)
        BY <1>4
    <2>1. i \in 1 .. m + n /\ z[i] = s[i]
        BY <1>1, <1>2
    <2> QED  BY <1>4, <2>1
<1>8. ToSet(t) \subseteq ToSet(z)
    <2> SUFFICES ASSUME NEW i \in 1 .. n  PROVE t[i] \in ToSet(z)
        BY <1>4
    <2>1. m + i \in 1 .. m + n /\ z[m + i] = t[i]
        BY <1>1, <1>2
    <2> QED  BY <1>4, <2>1
<1> QED  BY <1>1, <1>6, <1>7, <1>8 DEF z

-----------------------------------------------------------------------------
(* The abandoned ids at the start, and under every action *)

LEMMA AInit == Init => AInv
<1> SUFFICES ASSUME Init  PROVE AInv
    OBVIOUS
<1>1. pod.abandoned = <<>> /\ aborted = {} /\ slot = NoSlot
    BY DEF Init
<1>2. IsInjective(<<>>)
    BY DEF IsInjective
<1> QED  BY <1>1, <1>2 DEF AInv, IdsApart, IdsOnce, Remembered

\* A step that keeps the lists.
SameIds ==
    /\ pod'.abandoned = pod.abandoned /\ aborted' = aborted
    /\ slot' # NoSlot => slot # NoSlot /\ slot'.ids = slot.ids

LEMMA ASame == ASSUME AInv, SameIds  PROVE AInv'
<1> QED  BY DEF AInv, IdsApart, IdsOnce, Remembered, SameIds

LEMMA Lists == HInv => pod \in Pod /\ pod.abandoned \in Seq(Ids) /\ (slot # NoSlot => slot \in Slot /\ slot.ids \in Seq(Ids))
<1> QED  BY DEF HInv, Typed, Pod, Slot

\* The state of the pod, and a mark in a task's slot.
LEMMA AState ==
    ASSUME HInv, NEW s, pod' = [pod EXCEPT !.state = s], UNCHANGED <<slot, aborted>>
    PROVE  SameIds
<1> QED  BY Lists DEF SameIds, Pod

LEMMA AMemory ==
    ASSUME HInv, NEW t \in Tasks, NEW m, InSlot(t, [slot EXCEPT !.memory = m]), UNCHANGED <<pod, aborted>>
    PROVE  SameIds
<1>1. CASE slot.task = t
    <2>1. slot # NoSlot
        BY <1>1, SlotTask DEF Tasks
    <2>2. slot' = [slot EXCEPT !.memory = m] /\ slot \in Slot
        BY <1>1, <2>1, Lists DEF InSlot
    <2> QED  BY <2>1, <2>2 DEF SameIds, Slot
<1>2. CASE slot.task # t
    BY <1>2 DEF InSlot, SameIds
<1> QED  BY <1>1, <1>2

LEMMA AHead ==
    ASSUME HInv, NEW t \in Tasks, InSlot(t, [slot EXCEPT !.head = "yes"]), UNCHANGED <<pod, aborted>>
    PROVE  SameIds
<1>1. CASE slot.task = t
    <2>1. slot # NoSlot
        BY <1>1, SlotTask DEF Tasks
    <2>2. slot' = [slot EXCEPT !.head = "yes"] /\ slot \in Slot
        BY <1>1, <2>1, Lists DEF InSlot
    <2> QED  BY <2>1, <2>2 DEF SameIds, Slot
<1>2. CASE slot.task # t
    BY <1>2 DEF InSlot, SameIds
<1> QED  BY <1>1, <1>2

\* What joins is not abandoned.
LEMMA AJoin == ASSUME HInv, AInv, NEW c \in Calls, Join(c)  PROVE AInv'
<1> DEFINE s == slot.ids
           d == IdOf[c]
           a == AddRequest(s, d)
<1>1. slot \in Slot /\ s \in Seq(Ids) /\ d \in Ids /\ d \notin ToSet(pod.abandoned) /\ slot # NoSlot
    BY Lists, HibernationsConstants DEF Join
<1>2. slot' = [slot EXCEPT !.ids = a, !.noAbandon = IF c \in NoAbandon THEN "yes" ELSE @] /\ UNCHANGED <<pod, aborted>>
    BY DEF Join
<1>3. IsInjective(s) /\ ToSet(s) \cap ToSet(pod.abandoned) = {}
    BY <1>1 DEF AInv, IdsOnce, IdsApart
<1>4. slot'.ids = a
    <2> HIDE DEF a, s, d
    <2> QED  BY <1>1, <1>2 DEF Slot
<1>5. IsInjective(a) /\ ToSet(a) \subseteq ToSet(s) \cup {d}
    <2>1. CASE d \in ToSet(s)
        BY <1>3, <2>1 DEF AddRequest
    <2>2. CASE d \notin ToSet(s)
        <3>1. /\ Append(s, d) \in Seq(Ids) /\ IsInjective(Append(s, d))
              /\ ToSet(Append(s, d)) \subseteq ToSet(s) \cup {d}
            BY <1>1, <1>3, <2>2, AppendOnce
        <3>2. a = LastIds(Append(s, d))
            BY <2>2 DEF AddRequest
        <3> HIDE DEF a, s, d
        <3> QED  BY <3>1, <3>2, LastIdsOf
    <2> QED  BY <2>1, <2>2
<1> HIDE DEF a, s, d
<1> QED  BY <1>1, <1>2, <1>3, <1>4, <1>5 DEF AInv, IdsApart, IdsOnce, Remembered

\* Nor is what starts.
LEMMA AStart == ASSUME HInv, AInv, NEW c \in Calls, Start(c)  PROVE AInv'
<1>1. slot'.ids = <<IdOf[c]>> /\ IdOf[c] \notin ToSet(pod.abandoned) /\ UNCHANGED <<pod, aborted>>
    BY DEF Start
<1>2. DOMAIN <<IdOf[c]>> = {1} /\ <<IdOf[c]>>[1] = IdOf[c]
    OBVIOUS
<1>3. IsInjective(<<IdOf[c]>>) /\ ToSet(<<IdOf[c]>>) = {IdOf[c]}
    BY <1>2 DEF IsInjective, ToSet
<1> QED  BY <1>1, <1>3 DEF AInv, IdsApart, IdsOnce, Remembered

\* The ids of a hibernation that was abandoned are added to the pod's; none of
\* them was there.
LEMMA AEndSlot == ASSUME HInv, AInv, NEW t \in Tasks, EndSlot(t)  PROVE AInv'
<1>1. CASE slot.task # t
    BY <1>1, ASame DEF EndSlot, SameIds
<1>2. CASE slot.task = t /\ task[t].answer # "aborted"
    BY <1>2, ASame DEF EndSlot, SameIds
<1>3. CASE slot.task = t /\ task[t].answer = "aborted"
    <2> DEFINE s == pod.abandoned
               i == slot.ids
               z == s \o i
               a == LastIds(z)
    <2>1. slot # NoSlot
        BY <1>3, SlotTask DEF Tasks
    <2>2. slot' = NoSlot /\ pod' = [pod EXCEPT !.abandoned = a] /\ aborted' = aborted \cup ToSet(i)
        BY <1>3 DEF EndSlot
    <2>3. pod \in Pod /\ s \in Seq(Ids) /\ i \in Seq(Ids)
        BY <2>1, Lists
    <2>4. IsInjective(s) /\ IsInjective(i) /\ ToSet(s) \cap ToSet(i) = {}
        BY <2>1 DEF AInv, IdsOnce, IdsApart
    <2>5. z \in Seq(Ids) /\ IsInjective(z) /\ ToSet(s) \subseteq ToSet(z) /\ ToSet(i) \subseteq ToSet(z)
        BY <2>3, <2>4, ConcatOnce
    <2>6. pod'.abandoned = a
        <3> HIDE DEF a
        <3> QED  BY <2>2, <2>3 DEF Pod
    <2> HIDE DEF z
    <2>7. IsInjective(a)
        BY <2>5, LastIdsOf
    <2>8. IdsFit => a = z
        BY <2>5, LastIdsAll
    <2>9. IdsFit => aborted \subseteq ToSet(s)
        BY DEF AInv, Remembered
    <2> HIDE DEF a, s, i
    <2>10. IdsOnce' /\ IdsApart'
        BY <2>2, <2>6, <2>7 DEF IdsOnce, IdsApart
    <2>11. Remembered'
        BY <2>2, <2>5, <2>6, <2>8, <2>9 DEF Remembered
    <2> QED  BY <2>10, <2>11 DEF AInv
<1> QED  BY <1>1, <1>2, <1>3

LEMMA ADelete == ASSUME HInv, AInv, NEW x \in Deletes, Delete(x)  PROVE AInv'
<1>1. CASE pod.inc = delete[x].lock
    <2>1. pod' = [pod EXCEPT !.inc = 0, !.state = "gone", !.abandoned = <<>>] /\ slot' = NoSlot /\ aborted' = {}
        BY <1>1 DEF Delete
    <2>2. pod'.abandoned = <<>>
        BY <2>1, Lists DEF Pod
    <2>3. IsInjective(<<>>)
        BY DEF IsInjective
    <2> QED  BY <2>1, <2>2, <2>3 DEF AInv, IdsApart, IdsOnce, Remembered
<1>2. CASE pod.inc # delete[x].lock
    BY <1>2, ASame DEF Delete, SameIds
<1> QED  BY <1>1, <1>2

LEMMA AStep == HInv /\ AInv /\ [Next]_vars => AInv'
<1> SUFFICES ASSUME HInv, AInv, [Next]_vars  PROVE AInv'
    OBVIOUS
<1>1. ASSUME UNCHANGED <<pod, slot, aborted>>  PROVE AInv'
    BY <1>1, ASame DEF SameIds
<1>2. ASSUME NEW s, pod' = [pod EXCEPT !.state = s], UNCHANGED <<slot, aborted>>  PROVE AInv'
    BY <1>2, AState, ASame
<1>3. ASSUME NEW c \in Calls, Hibernate(c) \/ Answer(c) \/ Lost(c)  PROVE AInv'
    <2>1. CASE Refuse(c) \/ Answer(c) \/ Lost(c)
        BY <1>1, <2>1 DEF Refuse, Answer, Lost
    <2> QED  BY <1>3, <2>1, AJoin, AStart DEF Hibernate
<1>4. ASSUME NEW t \in Tasks, Run(t) \/ Fails(t)  PROVE AInv'
    <2>1. CASE Queues(t) \/ Locked(t) \/ Dropped(t) \/ Unlock(t) \/ Fails(t)
        BY <1>1, <2>1 DEF Queues, Locked, Dropped, Unlock, Fails
    <2>2. CASE Decide(t)
        <3>1. CASE UNCHANGED slot
            BY <1>1, <2>2, <3>1 DEF Decide
        <3>2. CASE \E memory : InSlot(t, [slot EXCEPT !.memory = memory])
            BY <2>2, <3>2, AMemory, ASame DEF Decide
        <3> QED  BY <2>2, <3>1, <3>2 DEF Decide
    <2>3. CASE Suspend(t)
        BY <1>2, <2>3 DEF Suspend
    <2>4. CASE EnterHead(t)
        BY <1>1, <2>4, AHead, ASame DEF EnterHead
    <2>5. CASE Leave(t)
        BY <1>2, <2>5 DEF Leave
    <2>6. CASE EndSlot(t)
        BY <2>6, AEndSlot
    <2> QED  BY <1>4, <2>1, <2>2, <2>3, <2>4, <2>5, <2>6 DEF Run
<1>5. ASSUME NEW r \in Resumes,
             ResumeQueues(r) \/ RequestAbandon(r) \/ Resume(r) \/ RestoreQueues(r) \/ Restore(r)
      PROVE  AInv'
    <2>1. CASE ResumeQueues(r) \/ RestoreQueues(r) \/ RequestAbandon(r)
        BY <1>1, <2>1 DEF ResumeQueues, RestoreQueues, RequestAbandon
    <2>2. CASE Resume(r)
        BY <1>1, <1>2, <2>2 DEF Resume
    <2>3. CASE Restore(r)
        BY <1>1, <1>2, <2>3 DEF Restore
    <2> QED  BY <1>5, <2>1, <2>2, <2>3
<1>6. ASSUME NEW x \in Deletes, DeleteQueues(x) \/ Delete(x)  PROVE AInv'
    BY <1>1, <1>6, ADelete DEF DeleteQueues
<1>7. CASE Create
    <2>1. pod'.abandoned = pod.abandoned
        <3>1. pod' = [pod EXCEPT !.inc = pod.last + 1, !.last = @ + 1, !.state = "running"]
            BY <1>7 DEF Create
        <3> QED  BY <3>1, Lists DEF Pod
    <2> QED  BY <1>7, <2>1, ASame DEF Create, SameIds
<1>8. CASE GuestEnds
    BY <1>2, <1>8 DEF GuestEnds
<1>9. CASE UNCHANGED vars
    BY <1>1, <1>9 DEF vars
<1> QED  BY <1>3, <1>4, <1>5, <1>6, <1>7, <1>8, <1>9 DEF Next

LEMMA AAlways == Spec => []AInv
<1> QED  BY AInit, AStep, HAlways, PTL DEF Spec

\* A request id that the pod remembers as abandoned is in no hibernation of it,
\* however many ids its callers use (join and end_slot of pods.rs).
THEOREM RememberedStays == Spec => []IdsApart
<1>1. AInv => IdsApart
    BY DEF AInv
<1> QED  BY <1>1, AAlways, PTL

\* If a pod can remember its callers' ids, none whose hibernation was abandoned
\* starts or joins another one of the pod, however late its call is repeated and
\* whatever ran in between.
THEOREM AbandonedStaysAlways == Spec => [](IdsFit => AbandonedStays)
<1>1. AInv => (IdsFit => AbandonedStays)
    BY DEF AInv, IdsApart, Remembered, AbandonedStays
<1> QED  BY <1>1, AAlways, PTL

=============================================================================

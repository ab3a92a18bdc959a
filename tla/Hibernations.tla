---------------------------- MODULE Hibernations ----------------------------
(***************************************************************************)
(* The hibernations of a pod on its node                                   *)
(* (crates/services/pod-service/src/pods.rs): the slot of the one in       *)
(* flight, which HibernatePods start or join, its task under the pod's     *)
(* fair lock, and the resumes that abandon it until its head is put.  What *)
(* the task asks of diskd is in module DiskStore.                          *)
(***************************************************************************)
EXTENDS Integers, Sequences, SequencesExt

CONSTANTS
    Calls, Ids, IdOf,  \* HibernatePod calls, and their request ids
    NoAbandon,         \* the calls that say no_abandon
    Resumes,           \* ResumePod calls
    Deletes,           \* DeletePod calls
    Kept,              \* REQUEST_IDS
    MaxTasks, MaxPods, MaxLost

ASSUME HibernationsConstants ==
    /\ IdOf \in [Calls -> Ids] /\ NoAbandon \subseteq Calls
    /\ {MaxTasks, MaxPods, Kept} \subseteq Nat \ {0} /\ MaxLost \in Nat

VARIABLES
    pod,        \* its state, its incarnation (0: none), and the ids it abandoned
    slot,       \* its hibernation in flight
    task,       \* the hibernations' tasks
    queue,      \* the lock of each incarnation: its holder, then who waits
    call, resume, delete,
    aborted,    \* the ids whose hibernation of this pod was abandoned
    lost        \* answers lost so far

vars == <<pod, slot, task, queue, call, resume, delete, aborted, lost>>

Tasks == 1 .. MaxTasks
Pods == 1 .. MaxPods
Task == [pc : {"none", "spawned", "queued", "locked", "suspend", "work", "head", "ending", "unlock", "over"},
         for : 0 .. MaxPods, lock : 0 .. MaxPods, asked : {"yes", "no"}, obeys : {"yes", "no"},
         answer : {"none", "ok", "failed", "aborted"}]
NoTask == [pc |-> "none", for |-> 0, lock |-> 0, asked |-> "no", obeys |-> "no", answer |-> "none"]
Slot == [task : Tasks, noAbandon : {"yes", "no"}, ids : Seq(Ids), head : {"yes", "no"},
         memory : {"unknown", "yes", "no"}]
NoSlot == [task |-> 0]

\* The last ones, as many as are kept.
LastIds(s) == IF Len(s) > Kept THEN SubSeq(s, Len(s) - Kept + 1, Len(s)) ELSE s

Holds(a, i) == i # 0 /\ queue[i] # <<>> /\ Head(queue[i]) = a
Enter(a, i) == queue' = [queue EXCEPT ![i] = Append(@, a)]
Exit(i) == queue' = [queue EXCEPT ![i] = Tail(@)]

\* Run::asked
Asked(t) == task[t].obeys = "yes" /\ task[t].asked = "yes"
\* Hibernation::abandonable
Abandonable == slot.noAbandon = "no" /\ slot.memory # "no" /\ slot.head = "no"
\* with_hibernation
InSlot(t, s) == IF slot.task = t THEN slot' = s ELSE UNCHANGED slot
Ends(t, answer) == task' = [task EXCEPT ![t].pc = "ending", ![t].answer = answer]

-----------------------------------------------------------------------------
(* HibernatePod *)

\* Hibernation::add_request
AddRequest(ids, id) == IF id \in ToSet(ids) THEN ids ELSE LastIds(Append(ids, id))

\* join: an abandoned request id, or the hibernation in flight.
Refuse(c) ==
    /\ IdOf[c] \in ToSet(pod.abandoned)
    /\ call' = [call EXCEPT ![c].pc = "aborted"]
    /\ UNCHANGED <<pod, slot, task, queue, resume, delete, aborted, lost>>

Join(c) ==
    /\ IdOf[c] \notin ToSet(pod.abandoned) /\ slot # NoSlot
    /\ slot' = [slot EXCEPT !.ids = AddRequest(@, IdOf[c]), !.noAbandon = IF c \in NoAbandon THEN "yes" ELSE @]
    /\ call' = [call EXCEPT ![c] = [pc |-> "joined", task |-> slot.task]]
    /\ UNCHANGED <<pod, task, queue, resume, delete, aborted, lost>>

\* Mutant: a call that finds no hibernation starts one.
Start_Anew(c) ==
    \E t \in Tasks :
        /\ slot = NoSlot
        /\ task[t].pc = "none" /\ \A u \in 1 .. t - 1 : task[u].pc # "none"
        /\ task' = [task EXCEPT ![t].pc = "spawned", ![t].for = pod.inc]
        /\ slot' = [task |-> t, noAbandon |-> IF c \in NoAbandon THEN "yes" ELSE "no",
                    ids |-> <<IdOf[c]>>, head |-> "no", memory |-> "unknown"]
        /\ call' = [call EXCEPT ![c] = [pc |-> "joined", task |-> t]]
        /\ UNCHANGED <<pod, queue, resume, delete, aborted, lost>>

\* hibernate starts a task.
Start(c) ==
    \E t \in Tasks :
        /\ IdOf[c] \notin ToSet(pod.abandoned) /\ slot = NoSlot
        /\ task[t].pc = "none" /\ \A u \in 1 .. t - 1 : task[u].pc # "none"
        /\ task' = [task EXCEPT ![t].pc = "spawned", ![t].for = pod.inc]
        /\ slot' = [task |-> t, noAbandon |-> IF c \in NoAbandon THEN "yes" ELSE "no",
                    ids |-> <<IdOf[c]>>, head |-> "no", memory |-> "unknown"]
        /\ call' = [call EXCEPT ![c] = [pc |-> "joined", task |-> t]]
        /\ UNCHANGED <<pod, queue, resume, delete, aborted, lost>>

Hibernate(c) == call[c].pc = "idle" /\ pod.inc # 0 /\ (Refuse(c) \/ Join(c) \/ Start(c))

\* The task's answer, for every call that joined it.
Answer(c) ==
    /\ call[c].pc = "joined" /\ task[call[c].task].pc = "over"
    /\ call' = [call EXCEPT ![c].pc = task[call[c].task].answer]
    /\ UNCHANGED <<pod, slot, task, queue, resume, delete, aborted, lost>>

\* A caller that is cancelled or whose connection goes asks again.
Lost(c) ==
    /\ call[c].pc \in {"joined", "aborted"} /\ lost < MaxLost
    /\ call' = [call EXCEPT ![c].pc = "idle"]
    /\ lost' = lost + 1
    /\ UNCHANGED <<pod, slot, task, queue, resume, delete, aborted>>

-----------------------------------------------------------------------------
(* run_hibernation: the steps of a task *)

\* lock: the pod's lock now.
Queues(t) ==
    /\ task[t].pc = "spawned"
    /\ IF pod.inc = 0
       THEN Ends(t, "failed") /\ UNCHANGED queue
       ELSE /\ task' = [task EXCEPT ![t].pc = "queued", ![t].lock = pod.inc]
            /\ Enter(t, pod.inc)
    /\ UNCHANGED <<pod, slot, call, resume, delete, aborted, lost>>

\* still_its_lock
Locked(t) ==
    /\ task[t].pc = "queued" /\ Holds(t, task[t].lock)
    /\ IF pod.inc = task[t].lock
       THEN task' = [task EXCEPT ![t].pc = "locked"] /\ UNCHANGED queue
       ELSE task' = [task EXCEPT ![t].pc = "ending", ![t].answer = "failed", ![t].lock = 0] /\ Exit(task[t].lock)
    /\ UNCHANGED <<pod, slot, call, resume, delete, aborted, lost>>

\* The pod is hibernated, or it is decided whether its memory goes with it: a
\* suspended one's, if its snapshot is there.
Decide(t) ==
    /\ task[t].pc = "locked"
    /\ \/ pod.state = "hibernated" /\ Ends(t, "ok") /\ UNCHANGED slot
       \/ \E memory \in CASE pod.state = "running" -> {"yes"} [] pod.state = "suspended" -> {"yes", "no"}
                          [] pod.state = "stopped" -> {"no"} [] OTHER -> {} :
             /\ InSlot(t, [slot EXCEPT !.memory = memory])
             /\ task' = [task EXCEPT ![t].obeys = memory,
                            ![t].pc = IF memory = "yes" /\ task[t].asked = "yes" THEN "ending"
                                      ELSE IF pod.state = "running" THEN "suspend" ELSE "work",
                            ![t].answer = IF memory = "yes" /\ task[t].asked = "yes" THEN "aborted" ELSE "none"]
    /\ UNCHANGED <<pod, queue, call, resume, delete, aborted, lost>>

\* suspend_locked runs to its end.
Suspend(t) ==
    /\ task[t].pc = "suspend" /\ pod.state = "running"
    /\ pod' = [pod EXCEPT !.state = "suspended"]
    /\ IF Asked(t) THEN Ends(t, "aborted") ELSE task' = [task EXCEPT ![t].pc = "work"]
    /\ UNCHANGED <<slot, queue, call, resume, delete, aborted, lost>>

\* abandonable: a seal or an upload is dropped.
Dropped(t) ==
    /\ task[t].pc = "work" /\ Asked(t)
    /\ Ends(t, "aborted")
    /\ UNCHANGED <<pod, slot, queue, call, resume, delete, aborted, lost>>

\* Mutant: the abandon is not looked at once more.
EnterHead_Unchecked(t) ==
    /\ task[t].pc = "work"
    /\ task' = [task EXCEPT ![t].pc = "head"] /\ InSlot(t, [slot EXCEPT !.head = "yes"])
    /\ UNCHANGED <<pod, queue, call, resume, delete, aborted, lost>>

\* enter_head, under the pods' mutex.
EnterHead(t) ==
    /\ task[t].pc = "work"
    /\ IF Asked(t) THEN Ends(t, "aborted") /\ UNCHANGED slot
       ELSE task' = [task EXCEPT ![t].pc = "head"] /\ InSlot(t, [slot EXCEPT !.head = "yes"])
    /\ UNCHANGED <<pod, queue, call, resume, delete, aborted, lost>>

\* The heads are put, and the checkpoint is the pod.
Leave(t) ==
    /\ task[t].pc = "head"
    /\ pod' = [pod EXCEPT !.state = "hibernated"]
    /\ Ends(t, "ok")
    /\ UNCHANGED <<slot, queue, call, resume, delete, aborted, lost>>

\* A step fails, or the task panics, which abandons nothing.
Fails(t) ==
    /\ task[t].pc \in {"locked", "suspend", "work", "head"}
    /\ Ends(t, "failed") \/ (Asked(t) /\ Ends(t, "aborted"))
    /\ UNCHANGED <<pod, slot, queue, call, resume, delete, aborted, lost>>

\* Mutant: a task ends whatever slot there is.
EndSlot_Any(t) ==
    /\ task[t].pc = "ending"
    /\ slot' = NoSlot
    /\ task' = [task EXCEPT ![t].pc = "unlock"]
    /\ UNCHANGED <<pod, aborted, queue, call, resume, delete, lost>>

\* SlotGuard, end_slot: the slot ends if it is the task's.
EndSlot(t) ==
    /\ task[t].pc = "ending"
    /\ IF slot.task # t THEN UNCHANGED <<slot, pod, aborted>>
       ELSE /\ slot' = NoSlot
            /\ IF task[t].answer # "aborted" THEN UNCHANGED <<pod, aborted>>
               ELSE /\ pod' = [pod EXCEPT !.abandoned = LastIds(@ \o slot.ids)]
                    /\ aborted' = aborted \cup ToSet(slot.ids)
    /\ task' = [task EXCEPT ![t].pc = "unlock"]
    /\ UNCHANGED <<queue, call, resume, delete, lost>>

\* Mutant: a task that ends keeps the lock.
Unlock_Keeps(t) ==
    /\ task[t].pc = "unlock"
    /\ task' = [task EXCEPT ![t].pc = "over"]
    /\ UNCHANGED <<queue, pod, slot, call, resume, delete, aborted, lost>>

\* Then the lock goes, and the answer is there.
Unlock(t) ==
    /\ task[t].pc = "unlock"
    /\ task' = [task EXCEPT ![t].pc = "over"]
    /\ IF task[t].lock = 0 THEN UNCHANGED queue ELSE Exit(task[t].lock)
    /\ UNCHANGED <<pod, slot, call, resume, delete, aborted, lost>>

Run(t) ==
    \/ Queues(t) \/ Locked(t) \/ Decide(t) \/ Suspend(t) \/ Dropped(t) \/ EnterHead(t) \/ Leave(t)
    \/ EndSlot(t) \/ Unlock(t)

-----------------------------------------------------------------------------
(* ResumePod, DeletePod, CreatePod, and the guest *)

\* lock_for_resume queues for the lock, and then asks for the abandon.
ResumeQueues(r) ==
    /\ resume[r].pc = "idle" /\ pod.inc # 0
    /\ Enter(r, pod.inc)
    /\ resume' = [resume EXCEPT ![r] = [pc |-> "queued", lock |-> pod.inc]]
    /\ UNCHANGED <<pod, slot, task, call, delete, aborted, lost>>

\* request_abandon
RequestAbandon(r) ==
    /\ resume[r].pc = "queued"
    /\ task' = IF slot # NoSlot /\ Abandonable THEN [task EXCEPT ![slot.task].asked = "yes"] ELSE task
    /\ resume' = [resume EXCEPT ![r].pc = "asked"]
    /\ UNCHANGED <<pod, slot, queue, call, delete, aborted, lost>>

\* resume_detached, with the lock: a hibernated pod is restored (restore_detached
\* takes the lock again), a suspended one resumes, or fails to.
Resume(r) ==
    LET i == resume[r].lock
    IN  /\ resume[r].pc = "asked" /\ Holds(r, i)
        /\ \/ /\ pod.inc = i /\ pod.state = "hibernated"
              /\ resume' = [resume EXCEPT ![r] = [pc |-> "unlocked", lock |-> 0]]
              /\ Exit(i) /\ UNCHANGED pod
           \/ /\ pod.inc = i /\ pod.state = "suspended"
              /\ pod' = [pod EXCEPT !.state = "running"]
              /\ resume' = [resume EXCEPT ![r].pc = "ok"]
              /\ Exit(i)
           \/ /\ pod.inc = i => pod.state # "hibernated"
              /\ resume' = [resume EXCEPT ![r].pc = "failed"]
              /\ Exit(i) /\ UNCHANGED pod
        /\ UNCHANGED <<slot, task, call, delete, aborted, lost>>

RestoreQueues(r) ==
    /\ resume[r].pc = "unlocked"
    /\ IF pod.inc = 0 THEN resume' = [resume EXCEPT ![r].pc = "failed"] /\ UNCHANGED queue
       ELSE resume' = [resume EXCEPT ![r] = [pc |-> "restores", lock |-> pod.inc]] /\ Enter(r, pod.inc)
    /\ UNCHANGED <<pod, slot, task, call, delete, aborted, lost>>

\* A hibernated pod is restored; one that runs was, by another call.
Restore(r) ==
    LET i == resume[r].lock
    IN  /\ resume[r].pc = "restores" /\ Holds(r, i)
        /\ \/ /\ pod.inc = i /\ pod.state \in {"hibernated", "running"}
              /\ pod' = [pod EXCEPT !.state = "running"]
              /\ resume' = [resume EXCEPT ![r].pc = "ok"]
           \/ /\ resume' = [resume EXCEPT ![r].pc = "failed"] /\ UNCHANGED pod
        /\ Exit(i)
        /\ UNCHANGED <<slot, task, call, delete, aborted, lost>>

DeleteQueues(x) ==
    /\ delete[x].pc = "idle" /\ pod.inc # 0
    /\ Enter(x, pod.inc)
    /\ delete' = [delete EXCEPT ![x] = [pc |-> "queued", lock |-> pod.inc]]
    /\ UNCHANGED <<pod, slot, task, call, resume, aborted, lost>>

\* delete_detached; the slot goes with the pod.
Delete(x) ==
    LET i == delete[x].lock
    IN  /\ delete[x].pc = "queued" /\ Holds(x, i)
        /\ IF pod.inc = i
           THEN pod' = [pod EXCEPT !.inc = 0, !.state = "gone", !.abandoned = <<>>] /\ slot' = NoSlot /\ aborted' = {}
           ELSE UNCHANGED <<pod, slot, aborted>>
        /\ Exit(i)
        /\ delete' = [delete EXCEPT ![x].pc = "done"]
        /\ UNCHANGED <<task, call, resume, lost>>

Create ==
    /\ pod.inc = 0 /\ pod.last < MaxPods
    /\ pod' = [pod EXCEPT !.inc = pod.last + 1, !.last = @ + 1, !.state = "running"]
    /\ UNCHANGED <<slot, task, queue, call, resume, delete, aborted, lost>>

\* The guest ends, and follow records it.
GuestEnds ==
    /\ pod.state = "running"
    /\ pod' = [pod EXCEPT !.state = "stopped"]
    /\ UNCHANGED <<slot, task, queue, call, resume, delete, aborted, lost>>

-----------------------------------------------------------------------------
Init ==
    /\ pod = [inc |-> 1, last |-> 1, state |-> "running", abandoned |-> <<>>]
    /\ slot = NoSlot
    /\ task = [t \in Tasks |-> NoTask]
    /\ queue = [i \in Pods |-> <<>>]
    /\ call = [c \in Calls |-> [pc |-> "idle", task |-> 0]]
    /\ resume = [r \in Resumes |-> [pc |-> "idle", lock |-> 0]]
    /\ delete = [x \in Deletes |-> [pc |-> "idle", lock |-> 0]]
    /\ aborted = {} /\ lost = 0

Next ==
    \/ \E c \in Calls : Hibernate(c) \/ Answer(c) \/ Lost(c)
    \/ \E t \in Tasks : Run(t) \/ Fails(t)
    \/ \E r \in Resumes : ResumeQueues(r) \/ RequestAbandon(r) \/ Resume(r) \/ RestoreQueues(r) \/ Restore(r)
    \/ \E x \in Deletes : DeleteQueues(x) \/ Delete(x)
    \/ Create \/ GuestEnds

Spec == Init /\ [][Next]_vars

\* Every task runs on, detached from its caller.
Fairness ==
    /\ \A c \in Calls : WF_vars(Answer(c))
    /\ \A t \in Tasks : WF_vars(Run(t) \/ Fails(t))
    /\ \A r \in Resumes : WF_vars(RequestAbandon(r) \/ Resume(r) \/ RestoreQueues(r) \/ Restore(r))
    /\ \A x \in Deletes : WF_vars(Delete(x))

FairSpec == Spec /\ Fairness

-----------------------------------------------------------------------------
(* Properties *)

Actors == Tasks \cup Resumes \cup Deletes

TypeOK ==
    /\ pod \in [inc : 0 .. MaxPods, last : Pods, state : {"running", "suspended", "stopped", "hibernated", "gone"},
                abandoned : Seq(Ids)]
    /\ Len(pod.abandoned) <= Kept /\ IsInjective(pod.abandoned)
    /\ slot = NoSlot \/ (slot \in Slot /\ Len(slot.ids) <= Kept /\ IsInjective(slot.ids))
    /\ task \in [Tasks -> Task]
    /\ queue \in [Pods -> Seq(Actors)] /\ \A i \in Pods : IsInjective(queue[i])
    /\ \A c \in Calls : call[c].pc \in {"idle", "joined", "ok", "failed", "aborted"} /\ call[c].task \in 0 .. MaxTasks
    /\ \A r \in Resumes : resume[r].pc \in {"idle", "queued", "asked", "unlocked", "restores", "ok", "failed"}
    /\ \A x \in Deletes : delete[x].pc \in {"idle", "queued", "done"}
    /\ aborted \subseteq Ids /\ lost \in 0 .. MaxLost

Working(t) == task[t].pc \in {"locked", "suspend", "work", "head"}

\* An abandon leaves no head: of a resume that abandons a hibernation and the
\* hibernation that passes its point of no return, one comes first.
AbandonOrHead == \A t \in Tasks : task[t].pc = "head" => ~Asked(t)

\* A request id whose hibernation a resume abandoned starts or joins no other of
\* this pod, however late its call is repeated, as long as its id is kept.
AbandonedStays ==
    slot # NoSlot => ToSet(slot.ids) \cap aborted = {}

\* A hibernation at work on its pod is in the pod's slot: calls join it, and a
\* resume reaches it; the end of an older one leaves it there.
WorkingInSlot == \A t \in Tasks : Working(t) /\ task[t].for = pod.inc => slot.task = t

\* Every call that joined a hibernation is answered, unless its caller goes, and
\* every resume and delete ends: nobody waits for the lock for ever.
Answered ==
    /\ \A c \in Calls : call[c].pc = "joined" ~> call[c].pc # "joined"
    /\ \A r \in Resumes : resume[r].pc = "queued" ~> resume[r].pc \in {"ok", "failed"}
    /\ \A x \in Deletes : delete[x].pc = "queued" ~> delete[x].pc = "done"

-----------------------------------------------------------------------------
(* What comments or documents of the program say and the model refutes; the *)
(* README has the behaviours.  No run checks these.                         *)

\* still_its_lock: what waited behind a delete "does not act on a pod that was
\* created again with its ID".
NoOtherPod == \A t \in Tasks : Working(t) => task[t].for = pod.inc
=============================================================================

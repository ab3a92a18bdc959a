-------------------------------- MODULE Pod --------------------------------
(***************************************************************************)
(* What a node keeps of one pod ID (crates/services/pod-service) and what  *)
(* its PodService does with the calls that reach it.  Every change runs in *)
(* a task of its own (Pods::detached): a caller that stops waiting leaves  *)
(* it running to its end.  Hence a call is an element of a set of calls in *)
(* flight, and takes effect whenever the node takes it out.                *)
(*                                                                         *)
(* A pod is [inc, st, ep]: the incarnation its label names, its state, and *)
(* the epoch of the checkpoint its record holds (0: none).  A head's key   *)
(* is a function of pod and epoch, so the epoch stands for the head.       *)
(***************************************************************************)
EXTENDS Naturals

CONSTANTS
    MaxInc,     \* bound: incarnations of the pod ID
    MaxEpoch    \* bound: checkpoint epochs

ASSUME PodBounds == MaxInc \in Nat \ {0} /\ MaxEpoch \in Nat

Incs == 1 .. MaxInc
Epochs == 0 .. MaxEpoch

\* POD_STATE_FAILED is handled as POD_STATE_STOPPED is by every reader, and
\* the two are one state here.
PodStates == {"PENDING", "RUNNING", "SUSPENDED", "HIBERNATED", "STOPPED"}

PodRecord == [inc : Incs, st : PodStates, ep : Epochs]

\* GetPod's NOT_FOUND, and a question the node never answered.
NoPod == [inc |-> 0, st |-> "NONE", ep |-> 0]
Unanswered == [inc |-> 0, st |-> "UNANSWERED", ep |-> 0]

Answer == PodRecord \cup {NoPod, Unanswered}

Found(p) == p.st \in PodStates
Ours(p, inc) == Found(p) /\ p.inc = inc
Stale(p, inc) == Found(p) /\ p.inc # inc

-----------------------------------------------------------------------------
(* The epoch of a pod's next checkpoint is the clock's, and past the one its
   record holds: any later epoch. *)
NextEpochs(p) == {e \in Epochs : e > p.ep}

CreatePod(p, inc) ==
    IF Found(p) THEN {p} ELSE {[inc |-> inc, st |-> "PENDING", ep |-> 0]}

StartPod(p) ==
    {IF p.st = "STOPPED" THEN [p EXCEPT !.st = "PENDING"] ELSE p}

\* A suspended pod's memory is on the node; a hibernated one is restored from
\* its own checkpoint.
ResumePod(p) ==
    {CASE p.st = "SUSPENDED"  -> [p EXCEPT !.st = "RUNNING"]
       [] p.st = "HIBERNATED" -> [p EXCEPT !.st = "PENDING"]
       [] OTHER -> p}

\* On a node without the pod the checkpoint's spec, and with it the
\* incarnation, is adopted first, as a hibernated pod, which a restore that
\* fails then leaves.
RestorePod(p, inc, ep) ==
    CASE ~Found(p) -> {[inc |-> inc, st |-> st, ep |-> ep] : st \in {"HIBERNATED", "PENDING"}}
      [] p.st = "HIBERNATED" -> {[p EXCEPT !.st = "PENDING", !.ep = ep]}
      [] OTHER -> {p}

SuspendPod(p) ==
    {IF p.st = "RUNNING" THEN [p EXCEPT !.st = "SUSPENDED"] ELSE p}

\* Until its head is up the pod stays on the node, suspended if it ran.
HibernatePod(p) ==
    IF p.st \in {"RUNNING", "SUSPENDED", "STOPPED"}
    THEN {[p EXCEPT !.st = "HIBERNATED", !.ep = e] : e \in NextEpochs(p)}
            \cup {IF p.st = "RUNNING" THEN [p EXCEPT !.st = "SUSPENDED"] ELSE p}
    ELSE {p}

\* What call c may make of the pod p.
Served(c, p) ==
    CASE c.kind = "create"    -> CreatePod(p, c.inc)
      [] c.kind = "start"     -> StartPod(p)
      [] c.kind = "resume"    -> ResumePod(p)
      [] c.kind = "restore"   -> RestorePod(p, c.inc, c.ckpt)
      [] c.kind = "pause"     -> SuspendPod(p)
      [] c.kind = "hibernate" -> HibernatePod(p)

=============================================================================

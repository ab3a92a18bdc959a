------------------------------ MODULE Fencing -------------------------------
(***************************************************************************)
(* What the leader lease promises to the code that writes under            *)
(* Elector.Fence (go/internal/leader/elector.go): terms are numbered by an *)
(* epoch, one instance holds each, and a fenced write is made only by the  *)
(* holder of the current epoch. Clocks, timeouts and lost answers do not   *)
(* appear: the implementation (module Leader) must hide them.              *)
(***************************************************************************)
EXTENDS Naturals

CONSTANTS Instance, None

VARIABLES epoch, holder, wrote

fvars == <<epoch, holder, wrote>>

Init ==
    /\ epoch = 0
    /\ holder = None
    /\ wrote = [by |-> None, epoch |-> 0]

\* A new term of any instance, also of the one that held the last.
NewTerm(i) ==
    /\ epoch' = epoch + 1
    /\ holder' = i
    /\ UNCHANGED wrote

\* A fenced write commits.
Write ==
    /\ holder # None
    /\ wrote' = [by |-> holder, epoch |-> epoch]
    /\ UNCHANGED <<epoch, holder>>

Next == Write \/ \E i \in Instance : NewTerm(i)

Spec == Init /\ [][Next]_fvars
=============================================================================

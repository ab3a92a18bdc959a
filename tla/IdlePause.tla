------------------------------ MODULE IdlePause ------------------------------
(***************************************************************************)
(* One sandbox's row, its rows of sandbox_holds and the leader's loops that *)
(* pause it (go/internal/sandbox/loops.go, begin.go; store/holds.go), as    *)
(* the modules of the holders use them.  Time passes in units of the        *)
(* holders' renewal interval (10 s); an expired hold and a missing one are  *)
(* alike, so the loop that deletes expired holds changes nothing here.      *)
(***************************************************************************)
EXTENDS Integers

CONSTANTS
    Holders,    \* the holders of sandbox_holds
    Lease,      \* a hold's lease, in units
    IdleAfter,  \* the sandbox's idle interval
    Guard       \* outageGuard

VARIABLES
    state,   \* client_state, with its op
    lease,   \* lease_until of each holder's hold, in units from now
    age,     \* last_active_at, in units before now
    db,      \* whether the database serves
    quiet,   \* how long the leader has led without a failure of the database
    chosen   \* the op a leader's loop has chosen the sandbox for

idleVars == <<state, lease, age, db, quiet, chosen>>

-----------------------------------------------------------------------------
States == {"running", "pausing", "paused", "resuming"}

Forever == Lease + 1

DbUp == db = "up"

Live(hs) == \E h \in hs : lease[h] > 0

\* The row's last activity is an idle interval ago.
Due == age > IdleAfter

\* Mutant: the loop does not wait for the holders after an outage.
Settled_Always == TRUE

\* The leader has led, and the database has not failed, for outageGuard.
Settled == quiet = Guard

Running == DbUp /\ state = "running"

-----------------------------------------------------------------------------
(* Statements on the row and its holds *)

\* AdmitHold, AdmitIngressHold: under the row's lock.
Admit(h) ==
    /\ Running
    /\ lease' = [lease EXCEPT ![h] = Lease]
    /\ age' = 0

\* ReleaseHold, ReleaseIngressHold: the hold goes as last_active_at comes.
Release(h) ==
    /\ DbUp
    /\ lease' = [lease EXCEPT ![h] = 0]
    /\ age' = 0

-----------------------------------------------------------------------------
(* The leader's loops *)

\* IdleSandboxes: the sandbox is idle and not held, as the loop reads it.
Select(fence) ==
    /\ Settled /\ Running /\ Due /\ fence /\ ~Live(Holders) /\ chosen = "none"
    /\ chosen' = "idle"
    /\ UNCHANGED <<state, lease, age, db, quiet>>

\* The drain reads a running sandbox that no exec holds.
SelectDrain(execs) ==
    /\ Running /\ ~Live(execs) /\ chosen = "none"
    /\ chosen' = "drain"
    /\ UNCHANGED <<state, lease, age, db, quiet>>

\* precheck of an idle pause on the locked row: IdleRecheck, HasLiveHold.
IdleBegins(fence) ==
    /\ Running /\ chosen = "idle" /\ Due /\ fence /\ ~Live(Holders)
    /\ state' = "pausing" /\ chosen' = "none"
    /\ UNCHANGED <<lease, age, db, quiet>>

\* precheck of a drain's pause.
DrainBegins(execs) ==
    /\ Running /\ chosen = "drain" /\ ~Live(execs)
    /\ state' = "pausing" /\ chosen' = "none"
    /\ UNCHANGED <<lease, age, db, quiet>>

\* The row has changed since the loop read it.
BeginFails(fence, execs) ==
    /\ DbUp /\ chosen # "none"
    /\ \/ state # "running"
       \/ chosen = "idle" /\ (~Due \/ ~fence \/ Live(Holders))
       \/ chosen = "drain" /\ Live(execs)
    /\ chosen' = "none"
    /\ UNCHANGED <<state, lease, age, db, quiet>>

\* Another instance leads.
Failover ==
    /\ DbUp /\ quiet > 0
    /\ quiet' = 0 /\ chosen' = "none"
    /\ UNCHANGED <<state, lease, age, db>>

\* An explicit pause asks for no hold.
PauseExplicit ==
    /\ Running
    /\ state' = "pausing"
    /\ UNCHANGED <<lease, age, db, quiet, chosen>>

\* The pause ends: the pod is suspended, or runs on.
PauseEnds ==
    /\ DbUp /\ state = "pausing"
    /\ state' \in {"paused", "running"}
    /\ UNCHANGED <<lease, age, db, quiet, chosen>>

\* Ensure's resume, and its end.
Resume ==
    /\ DbUp /\ state = "paused"
    /\ state' = "resuming"
    /\ UNCHANGED <<lease, age, db, quiet, chosen>>

ResumeEnds ==
    /\ DbUp /\ state = "resuming"
    /\ state' = "running" /\ age' = 0
    /\ UNCHANGED <<lease, db, quiet, chosen>>

-----------------------------------------------------------------------------
(* The database and time *)

\* The database fails for everybody, and serves again.
OutageBegins ==
    /\ DbUp
    /\ db' = "down"
    /\ UNCHANGED <<state, lease, age, quiet, chosen>>

OutageEnds ==
    /\ ~DbUp
    /\ db' = "up"
    /\ UNCHANGED <<state, lease, age, quiet, chosen>>

\* A unit of time passes.  An outage that goes on is a failure the leader sees
\* or ends its term: a term outlives 13 s of it, the holds that expire first 20 s.
Passes ==
    /\ lease' = [h \in Holders |-> IF lease[h] \in 1 .. Lease THEN lease[h] - 1 ELSE lease[h]]
    /\ age' = IF Due THEN age ELSE age + 1
    /\ \/ /\ DbUp
          /\ quiet' = IF quiet < Guard THEN quiet + 1 ELSE quiet
          /\ UNCHANGED chosen
       \/ /\ ~DbUp
          /\ quiet' = 0 /\ chosen' = "none"
    /\ UNCHANGED <<state, db>>

IdleInit ==
    /\ state = "running" /\ lease = [h \in Holders |-> 0] /\ age = 0
    /\ db = "up" /\ quiet = Guard /\ chosen = "none"

\* The step begins a pause by the idle policy, by the drain.
IdleStarts == chosen = "idle" /\ chosen' = "none" /\ state = "running" /\ state' = "pausing"
DrainStarts == chosen = "drain" /\ chosen' = "none" /\ state = "running" /\ state' = "pausing"

IdleTypeOK ==
    /\ state \in States /\ lease \in [Holders -> 0 .. Forever] /\ age \in 0 .. IdleAfter + 1
    /\ db \in {"up", "down"} /\ quiet \in 0 .. Guard /\ chosen \in {"none", "idle", "drain"}
=============================================================================

-------------------------------- MODULE Holds --------------------------------
(***************************************************************************)
(* What keeps a sandbox awake (go/internal/sandbox/holds.go, loops.go,      *)
(* tools/runner.go): the exec and forward holds of the instances, with      *)
(* their renewals, and the holds of background processes.                   *)
(***************************************************************************)
EXTENDS Integers, FiniteSets

CONSTANTS
    Instances, Kinds,  \* replicas of ferund; "exec", "forward"
    Calls, Processes,  \* calls that acquire the sandbox; processes they start
    Lease, IdleAfter, Guard,
    MaxFaults,         \* outages, failovers, cuts, crashes and failed writes
    None

ASSUME HoldConstants ==
    /\ None \notin Instances /\ "exec" \in Kinds
    /\ Lease \in Nat /\ Lease > 2 /\ IdleAfter \in Nat \ {0} /\ Guard \in Nat \ {0}
    /\ MaxFaults \in Nat

VARIABLES
    state, lease, age, db, quiet, chosen,
    calls,    \* the calls: where each is in Acquire
    renewed,  \* the holds of the instances renewed in this unit
    link,     \* whether an instance reaches the database
    late,     \* history: holds whose instance missed renewals by itself
    procs,    \* the processes: in the guest, and their holds' writes
    faults

Keys == Instances \X Kinds

INSTANCE IdlePause WITH Holders <- Keys \cup Processes

holdVars == <<calls, renewed, link, late, procs>>

vars == <<state, lease, age, db, quiet, chosen, calls, renewed, link, late, procs, faults>>

Call == [pc : {"idle", "ensure", "admit", "held"}, key : Keys \cup {None}]
NoCall == [pc |-> "idle", key |-> None]

\* A process that was not started, runs, has ended; its hold is to be written
\* by the call that started it, is written, or never will be.
Process == [run : {"none", "running", "ended"}, hold : {"none", "due", "written"}, by : Calls \cup {None}]
NoProcess == [run |-> "none", hold |-> "none", by |-> None]

Execs == {k \in Keys : k[2] = "exec"}

Reaches(i) == DbUp /\ link[i] = "ok"

Fault ==
    /\ faults < MaxFaults
    /\ faults' = faults + 1

\* holdState: the calls that hold key k.
Holding(k) == {c \in Calls : calls[c].pc = "held" /\ calls[c].key = k}

RowSame == UNCHANGED <<state, db, quiet, chosen>>

-----------------------------------------------------------------------------
(* Acquire and its release *)

Acquire(c, k) ==
    /\ calls[c].pc = "idle"
    /\ calls' = [calls EXCEPT ![c] = [pc |-> "ensure", key |-> k]]
    /\ UNCHANGED <<state, lease, age, db, quiet, chosen, renewed, link, late, procs, faults>>

\* Ensure finds the sandbox running.
Ensured(c) ==
    /\ calls[c].pc = "ensure" /\ Running /\ Reaches(calls[c].key[1])
    /\ calls' = [calls EXCEPT ![c].pc = "admit"]
    /\ UNCHANGED <<state, lease, age, db, quiet, chosen, renewed, link, late, procs, faults>>

\* Ensure resumes a paused sandbox.
Ensures(c) ==
    /\ calls[c].pc = "ensure" /\ Reaches(calls[c].key[1])
    /\ Resume
    /\ UNCHANGED <<calls, renewed, link, late, procs, faults>>

\* admitHold: the locked row runs without an op, else the call ensures again;
\* the first holder of the key writes the hold.
AdmitHold(c) ==
    LET k == calls[c].key
    IN  /\ calls[c].pc = "admit" /\ Reaches(k[1])
        /\ \/ /\ Running /\ Holding(k) = {}
              /\ Admit(k)
              /\ renewed' = renewed \cup {k} /\ late' = late \ {k}
              /\ calls' = [calls EXCEPT ![c].pc = "held"]
           \/ /\ Running /\ Holding(k) # {}
              /\ calls' = [calls EXCEPT ![c].pc = "held"]
              /\ UNCHANGED <<lease, age, renewed, late>>
           \/ /\ ~Running
              /\ calls' = [calls EXCEPT ![c].pc = "ensure"]
              /\ UNCHANGED <<lease, age, renewed, late>>
        /\ RowSame /\ UNCHANGED <<link, procs, faults>>

\* The admission commits without its answer: nobody holds what is written.
AdmitLost(c) ==
    LET k == calls[c].key
    IN  /\ calls[c].pc = "admit" /\ Reaches(k[1]) /\ Holding(k) = {} /\ Fault
        /\ Admit(k)
        /\ calls' = [calls EXCEPT ![c] = NoCall]
        /\ RowSame /\ UNCHANGED <<renewed, link, late, procs>>

\* The call gives up before it holds the sandbox.
GivesUp(c) ==
    /\ calls[c].pc \in {"ensure", "admit"}
    /\ calls' = [calls EXCEPT ![c] = NoCall]
    /\ UNCHANGED <<state, lease, age, db, quiet, chosen, renewed, link, late, procs, faults>>

\* releaseHold, once the call has written its processes' holds: the last
\* holder of the key deletes the hold.
ReleaseHold(c) ==
    LET k == calls[c].key
    IN  /\ calls[c].pc = "held"
        /\ \A p \in Processes : procs[p].by # c
        /\ \/ Holding(k) = {c} /\ Reaches(k[1]) /\ Release(k)
           \/ Holding(k) # {c} /\ UNCHANGED <<lease, age>>
           \/ ~Reaches(k[1]) /\ UNCHANGED <<lease, age>>
        /\ calls' = [calls EXCEPT ![c] = NoCall]
        /\ RowSame /\ UNCHANGED <<renewed, link, late, procs, faults>>

\* renewHoldsOnce, for one key.
RenewHold(k) ==
    /\ Holding(k) # {} /\ Reaches(k[1]) /\ k \notin renewed
    /\ lease' = [lease EXCEPT ![k] = Lease]
    /\ renewed' = renewed \cup {k} /\ late' = late \ {k}
    /\ RowSame /\ UNCHANGED <<age, calls, link, procs, faults>>

-----------------------------------------------------------------------------
(* Background processes *)

\* process_start ran in the guest.
StartProcess(c, p) ==
    /\ calls[c].pc = "held" /\ calls[c].key \in Execs /\ state = "running"
    /\ procs[p] = NoProcess
    /\ procs' = [procs EXCEPT ![p] = [run |-> "running", hold |-> "due", by |-> c]]
    /\ UNCHANGED <<state, lease, age, db, quiet, chosen, calls, renewed, link, late, faults>>

\* HoldProcess, for a process without a time limit, or its failure.
HoldProcess(p) ==
    LET k == calls[procs[p].by].key
    IN  /\ procs[p].hold = "due"
        /\ \/ /\ Reaches(k[1])
              /\ lease' = [lease EXCEPT ![p] = Forever]
              /\ procs' = [procs EXCEPT ![p].hold = "written", ![p].by = None]
           \/ /\ ~Reaches(k[1])
              /\ procs' = [procs EXCEPT ![p].hold = "none", ![p].by = None]
              /\ UNCHANGED lease
        /\ RowSame /\ UNCHANGED <<age, calls, renewed, link, late, faults>>

ProcessEnds(p) ==
    /\ procs[p].run = "running" /\ state = "running"
    /\ procs' = [procs EXCEPT ![p].run = "ended"]
    /\ UNCHANGED <<state, lease, age, db, quiet, chosen, calls, renewed, link, late, faults>>

\* The pod stops with its processes: the write that says so ends their holds,
\* and Ensure starts it as it resumes a paused one.
PodStops ==
    /\ Running /\ Fault
    /\ state' = "paused"
    /\ lease' = [h \in Keys \cup Processes |-> IF h \in Processes THEN 0 ELSE lease[h]]
    /\ procs' = [p \in Processes |-> IF procs[p].run = "running" THEN [procs[p] EXCEPT !.run = "ended"] ELSE procs[p]]
    /\ UNCHANGED <<age, db, quiet, chosen, calls, renewed, link, late>>

\* Mutant: every process hold of an idle sandbox is released.
ProcessHolds_All ==
    /\ Running /\ Due /\ Live(Processes) /\ ~Live(Keys)
    /\ lease' = [h \in Keys \cup Processes |-> IF h \in Processes THEN 0 ELSE lease[h]]
    /\ RowSame /\ UNCHANGED <<age, calls, renewed, link, late, procs, faults>>

\* Mutant: the loop looks at no sandbox that is held, by its processes either.
ProcessHolds_Held ==
    /\ Running /\ Due /\ Live(Processes) /\ ~Live(Keys \cup Processes)
    /\ UNCHANGED vars

\* The leader's process holds loop: the holds of those that do not run go.
ProcessHolds ==
    /\ Running /\ Due /\ Live(Processes) /\ ~Live(Keys)
    /\ lease' = [h \in Keys \cup Processes |->
                    IF h \in Processes /\ procs[h].run # "running" THEN 0 ELSE lease[h]]
    /\ RowSame /\ UNCHANGED <<age, calls, renewed, link, late, procs, faults>>

-----------------------------------------------------------------------------
(* Faults and time *)

\* An instance loses the database by itself, and finds it again.
Cut(i) ==
    /\ link[i] = "ok" /\ Fault
    /\ link' = [link EXCEPT ![i] = "cut"]
    /\ UNCHANGED <<state, lease, age, db, quiet, chosen, calls, renewed, late, procs>>

Heals(i) ==
    /\ link[i] = "cut"
    /\ link' = [link EXCEPT ![i] = "ok"]
    /\ UNCHANGED <<state, lease, age, db, quiet, chosen, calls, renewed, late, procs, faults>>

\* An instance dies with its calls; the holds it had lapse.
Crash(i) ==
    /\ \E c \in Calls : calls[c].pc # "idle" /\ calls[c].key[1] = i
    /\ Fault
    /\ calls' = [c \in Calls |-> IF calls[c].pc # "idle" /\ calls[c].key[1] = i THEN NoCall ELSE calls[c]]
    /\ procs' = [p \in Processes |->
                    IF procs[p].hold = "due" /\ calls[procs[p].by].key[1] = i
                    THEN [procs[p] EXCEPT !.hold = "none", !.by = None] ELSE procs[p]]
    /\ UNCHANGED <<state, lease, age, db, quiet, chosen, renewed, link, late>>

\* Time passes: an instance that reaches the database has renewed its holds.
Tick ==
    /\ \A k \in Keys : Holding(k) # {} /\ Reaches(k[1]) => k \in renewed
    /\ Passes
    /\ renewed' = {}
    /\ late' = {k \in Keys : Holding(k) # {} /\ (k \in late \/ link[k[1]] = "cut")}
    /\ UNCHANGED <<calls, link, procs, faults>>

Leader ==
    /\ Select(TRUE) \/ IdleBegins(TRUE) \/ DrainBegins(Execs) \/ BeginFails(TRUE, Execs)
    /\ UNCHANGED <<calls, renewed, link, late, procs, faults>>

\* The drain loop, while the node drains.
Drain ==
    /\ SelectDrain(Execs)
    /\ UNCHANGED <<calls, renewed, link, late, procs, faults>>

Others ==
    /\ PauseExplicit \/ PauseEnds \/ ResumeEnds \/ OutageEnds
    /\ UNCHANGED <<calls, renewed, link, late, procs, faults>>

Outages ==
    /\ Failover \/ OutageBegins
    /\ Fault
    /\ UNCHANGED <<calls, renewed, link, late, procs>>

-----------------------------------------------------------------------------
Init ==
    /\ IdleInit
    /\ calls = [c \in Calls |-> NoCall]
    /\ renewed = {} /\ late = {}
    /\ link = [i \in Instances |-> "ok"]
    /\ procs = [p \in Processes |-> NoProcess]
    /\ faults = 0

CallSteps(c) ==
    \/ \E k \in Keys : Acquire(c, k)
    \/ Ensured(c) \/ Ensures(c) \/ AdmitHold(c) \/ AdmitLost(c) \/ GivesUp(c) \/ ReleaseHold(c)
    \/ \E p \in Processes : StartProcess(c, p)

Next ==
    \/ \E c \in Calls : CallSteps(c)
    \/ \E k \in Keys : RenewHold(k)
    \/ \E p \in Processes : HoldProcess(p) \/ ProcessEnds(p)
    \/ \E i \in Instances : Cut(i) \/ Heals(i) \/ Crash(i)
    \/ PodStops \/ ProcessHolds \/ Leader \/ Drain \/ Others \/ Outages \/ Tick

Spec == Init /\ [][Next]_vars

\* Time passes, an outage ends, instances renew what they hold, the leader's
\* loops run again and again, and what a begun pause does ends.
FairSpec ==
    /\ Spec
    /\ WF_vars(Tick) /\ \A k \in Keys : WF_vars(RenewHold(k))
    /\ WF_vars(OutageEnds /\ UNCHANGED <<calls, renewed, link, late, procs, faults>>)
    /\ WF_vars(Leader) /\ WF_vars(ProcessHolds)
    /\ WF_vars(PauseEnds /\ UNCHANGED <<calls, renewed, link, late, procs, faults>>)

-----------------------------------------------------------------------------
(* Properties *)

TypeOK ==
    /\ IdleTypeOK
    /\ calls \in [Calls -> Call]
    /\ renewed \subseteq Keys /\ late \subseteq Keys
    /\ link \in [Instances -> {"ok", "cut"}]
    /\ procs \in [Processes -> Process]
    /\ faults \in 0 .. MaxFaults

\* An idle pause never begins under a call that holds the sandbox, through
\* admissions that race its begin, outages of the database in which every hold
\* expires and failovers; only an instance that missed its renewals by itself
\* loses what it holds.
IdleSparesHeld == [][IdleStarts => \A k \in Keys : Holding(k) # {} => k \in late]_vars

\* An idle pause never begins under a background process whose hold was
\* written.
IdleSparesProcesses ==
    [][IdleStarts => \A p \in Processes : procs[p].run # "running" \/ procs[p].hold # "written"]_vars

\* A sandbox that nobody uses is paused in the end: no hold outlives its call
\* or its process for ever.
Unused == (\A c \in Calls : calls[c].pc = "idle") /\ (\A p \in Processes : procs[p].run # "running")
UnusedIdles == []<>(~Unused \/ state # "running")

-----------------------------------------------------------------------------
(* What comments or documents of the program say and the model refutes; the *)
(* README has the behaviours.  No run checks these.                         *)

\* docs/architecture/control-plane.md: a drain "pauses and hibernates what runs
\* without execs", until its timeout.
DrainSparesExecs == [][DrainStarts => \A k \in Execs : Holding(k) # {} => k \in late]_vars
=============================================================================

---------------------------- MODULE IngressHolds ----------------------------
(***************************************************************************)
(* The idle holds of an ingress (go/internal/ingress/proxy/holds.go,        *)
(* ingress/service/holds.go, sync.go; store/ingress_holds.go): an instance  *)
(* of ferun-ingress forwards requests to one service instance with an idle  *)
(* policy, which it holds at the control plane, and the idle fence.         *)
(***************************************************************************)
EXTENDS Integers, FiniteSets

CONSTANTS
    Ingress,             \* the holder of the ingress's hold
    Requests,
    Lease, IdleAfter, Guard,
    Margin,              \* holdMargin
    FenceFrom, FenceTo,  \* the idle fence: 45 s to 15 min
    HalfOpen,            \* how long ferund may not notice that a connection is dead
    MaxFaults            \* outages, failovers, cuts, crashes, lost calls

ASSUME IngressConstants ==
    /\ Lease \in Nat /\ Margin \in 1 .. Lease - 1
    /\ IdleAfter \in Nat /\ Guard \in Nat \ {0}
    /\ FenceFrom \in Nat /\ FenceTo \in Nat /\ FenceFrom < FenceTo
    /\ HalfOpen \in Nat /\ MaxFaults \in Nat

VARIABLES
    state, lease, age, db, quiet, chosen,
    proc,       \* the ingress: up, draining or down
    link,       \* its connection: ok, half (dead, and ferund does not know), cut, or
                \* again (connected again, nothing renewed since)
    half,       \* how long it has been half open
    st,         \* holdState of the service instance
    passed,     \* the renew loop has passed in this unit
    reqs,       \* the requests; held and unheld are at the pod
    admitting,  \* the admit in flight: none, sent, or its answer
    call,       \* the renew loop's call in flight
    orphans,    \* calls whose client gave up, still to be executed by ferund
    seen,       \* last_seen, in units before now
    left,       \* left_at
    faults

INSTANCE IdlePause WITH Holders <- {Ingress}

vars == <<state, lease, age, db, quiet, chosen, proc, link, half, st, passed, reqs, admitting, call,
          orphans, seen, left, faults>>

ingressVars == <<proc, link, half, st, passed, reqs, admitting, call, orphans, seen, left>>

Answers == {"held", "refused", "done"}

HoldState == [valid : 0 .. Lease, held : {"yes", "no"}, retry : {"yes", "no"}, fresh : {"yes", "no"},
              releasing : {"yes", "no"}]
NoHold == [valid |-> 0, held |-> "no", retry |-> "no", fresh |-> "no", releasing |-> "no"]

Connected == link \in {"ok", "again"}

Inflight == \E q \in Requests : reqs[q] # "idle"

\* Mutant: the fence ends when the holds do.
Open_Lapsed == ~(left = "no" /\ seen > FenceFrom /\ seen < IdleAfter)

\* Mutant: an ingress that never comes back fences for ever.
Open_Never == ~(left = "no" /\ seen > FenceFrom)

\* ingressFence: the idle loop may pause a public service's instance.
Open == ~(left = "no" /\ seen > FenceFrom /\ seen < FenceTo)

Fault ==
    /\ faults < MaxFaults
    /\ faults' = faults + 1

RowSame == UNCHANGED <<state, lease, age, db, quiet, chosen>>

-----------------------------------------------------------------------------
(* The proxy's side *)

Arrives(q) ==
    /\ proc = "up" /\ reqs[q] = "idle"
    /\ reqs' = [reqs EXCEPT ![q] = "acquire"]
    /\ RowSame /\ UNCHANGED <<proc, link, half, st, passed, admitting, call, orphans, seen, left, faults>>

\* acquire: the request goes on under a valid hold, or unheld while the ingress
\* drains or an admit has just failed; it waits for a release in flight; else
\* it shares the admit in flight or makes one.
AcquireHold(q) ==
    /\ reqs[q] = "acquire"
    /\ \/ /\ proc = "draining" \/ st.valid > 0 \/ st.retry = "yes"
          /\ reqs' = [reqs EXCEPT ![q] = IF st.valid > 0 THEN "held" ELSE "unheld"]
          /\ UNCHANGED admitting
       \/ /\ proc = "up" /\ st.valid = 0 /\ st.retry = "no" /\ st.releasing = "no"
          /\ reqs' = [reqs EXCEPT ![q] = "wait"]
          /\ admitting' = IF admitting = "none" THEN IF Connected THEN "sent" ELSE "lost" ELSE admitting
    /\ RowSame /\ UNCHANGED <<proc, link, half, st, passed, call, orphans, seen, left, faults>>

\* What becomes of the waiting requests and of those at the pod.
Become(wait, there) ==
    [q \in Requests |->
        CASE reqs[q] = "wait" -> wait [] reqs[q] \in {"held", "unheld"} -> there [] OTHER -> reqs[q]]

\* admit's answer: the waiting requests go on, or elsewhere.  A refusal says
\* that an op has come over the ones at the pod.
Admitted ==
    /\ \/ /\ admitting = "held"
          /\ st' = [st EXCEPT !.held = "yes", !.valid = Lease - Margin]
          /\ reqs' = Become("held", "held")
       \/ /\ admitting = "refused"
          /\ st' = [st EXCEPT !.held = "no", !.valid = 0]
          /\ reqs' = Become("idle", "unheld")
    /\ admitting' = "none"
    /\ RowSame /\ UNCHANGED <<proc, link, half, passed, call, orphans, seen, left, faults>>

\* What a client that gives up leaves to ferund.
Left(state0, kind) ==
    \/ UNCHANGED orphans
    \/ state0 = "sent" /\ orphans' = orphans \cup {kind}

\* A call fails: the ingress is cut off, the database fails, or it is lost.
Fails(state0) ==
    /\ state0 # "none"
    /\ \/ (state0 = "lost" \/ ~Connected \/ ~DbUp) /\ UNCHANGED faults
       \/ state0 # "lost" /\ Connected /\ DbUp /\ Fault

AdmitFails ==
    /\ Fails(admitting) /\ Left(admitting, "admit")
    /\ admitting' = "none"
    /\ st' = [st EXCEPT !.retry = "yes"]
    /\ reqs' = [q \in Requests |-> IF reqs[q] = "wait" THEN "unheld" ELSE reqs[q]]
    /\ RowSame /\ UNCHANGED <<proc, link, half, passed, call, seen, left>>

\* The request has its answer.
Ends(q) ==
    /\ reqs[q] \in {"held", "unheld"}
    /\ reqs' = [reqs EXCEPT ![q] = "idle"]
    /\ st' = [st EXCEPT !.fresh = "yes"]
    /\ RowSame /\ UNCHANGED <<proc, link, half, passed, admitting, call, orphans, seen, left, faults>>

\* pass: the instance with a request in flight or of late is held again, the
\* quiet one released.
Pass ==
    /\ proc # "down" /\ passed = "no" /\ call = "none"
    /\ passed' = "yes"
    /\ \/ /\ admitting # "none" \/ (~Inflight /\ st.fresh = "no" /\ st.held = "no")
          /\ UNCHANGED <<st, call>>
       \/ /\ admitting = "none" /\ (Inflight \/ st.fresh = "yes")
          /\ call' = IF Connected THEN "renew" ELSE "lost"
          /\ UNCHANGED st
       \/ /\ admitting = "none" /\ ~Inflight /\ st.fresh = "no" /\ st.held = "yes"
          /\ st' = [st EXCEPT !.held = "no", !.valid = 0, !.releasing = "yes"]
          /\ call' = IF Connected THEN "release" ELSE "lost"
    /\ RowSame /\ UNCHANGED <<proc, link, half, reqs, admitting, orphans, seen, left, faults>>

\* call's answer: a renewal holds the requests in flight.
Called ==
    /\ \/ /\ call = "held"
          /\ st' = [st EXCEPT !.held = "yes", !.valid = Lease - Margin]
          /\ reqs' = Become("wait", "held")
       \/ /\ call = "refused"
          /\ st' = [st EXCEPT !.held = "no", !.valid = 0]
          /\ reqs' = Become("wait", "unheld")
       \/ call = "done" /\ st' = [st EXCEPT !.releasing = "no"] /\ UNCHANGED reqs
    /\ call' = "none"
    /\ link' = IF link = "again" /\ call # "refused" THEN "ok" ELSE link
    /\ RowSame /\ UNCHANGED <<proc, half, passed, admitting, orphans, seen, left, faults>>

\* It fails: the hold lapses by its lease; the release is done all the same.
CallFails ==
    /\ Fails(call)
    /\ \/ UNCHANGED orphans
       \/ call \in {"renew", "release"} /\ orphans' = orphans \cup {call}
    /\ call' = "none"
    /\ st' = [st EXCEPT !.releasing = "no"]
    /\ RowSame /\ UNCHANGED <<proc, link, half, passed, reqs, admitting, seen, left>>

-----------------------------------------------------------------------------
(* The control plane's side: Hold *)

\* SeenIngress: its left_at is cleared.
Seen == seen' = 0 /\ left' = "no"

\* AdmitIngressHold: the instance runs without an op, else the refusal.
AdmitIngressHold(answer) ==
    /\ Seen /\ DbUp
    /\ \/ Admit(Ingress) /\ answer = "held"
       \/ ~Running /\ answer = "refused" /\ UNCHANGED <<lease, age>>
    /\ UNCHANGED <<state, db, quiet, chosen>>

\* The hold is deleted: activity only if there was one.
DeleteHold ==
    \/ lease[Ingress] > 0 /\ Release(Ingress)
    \/ lease[Ingress] = 0 /\ DbUp /\ UNCHANGED <<lease, age>>

ReleaseIngressHold ==
    /\ Seen /\ DeleteHold
    /\ UNCHANGED <<state, db, quiet, chosen>>

ServeAdmit ==
    /\ admitting = "sent"
    /\ \E a \in {"held", "refused"} : AdmitIngressHold(a) /\ admitting' = a
    /\ UNCHANGED <<proc, link, half, st, passed, reqs, call, orphans, faults>>

ServeCall ==
    /\ \/ call = "renew" /\ \E a \in {"held", "refused"} : AdmitIngressHold(a) /\ call' = a
       \/ call = "release" /\ ReleaseIngressHold /\ call' = "done"
    /\ UNCHANGED <<proc, link, half, st, passed, reqs, admitting, orphans, faults>>

ServeLate(o) ==
    /\ \/ o \in {"admit", "renew"} /\ \E a \in {"held", "refused"} : AdmitIngressHold(a)
       \/ o = "release" /\ ReleaseIngressHold
       \/ RowSame /\ UNCHANGED <<seen, left>>
    /\ orphans' = orphans \ {o}
    /\ UNCHANGED <<proc, link, half, st, passed, reqs, admitting, call, faults>>

-----------------------------------------------------------------------------
(* The ingress's life, faults and time *)

Drain ==
    /\ proc = "up"
    /\ proc' = "draining"
    /\ RowSame /\ UNCHANGED <<link, half, st, passed, reqs, admitting, call, orphans, seen, left, faults>>

Stops ==
    /\ proc' = "down" /\ link' = "ok" /\ half' = 0
    /\ st' = NoHold /\ passed' = "no" /\ admitting' = "none" /\ call' = "none"
    /\ reqs' = [q \in Requests |-> "idle"]

\* LeaveIngress at the end of a drain, after which the process ends.
LeaveIngress ==
    /\ proc = "draining" /\ admitting = "none" /\ call = "none"
    /\ \/ Connected /\ DeleteHold /\ left' = "yes"
       \/ (~Connected \/ ~DbUp) /\ UNCHANGED <<lease, age, left>>
    /\ Stops
    /\ UNCHANGED <<state, db, quiet, chosen, orphans, seen, faults>>

Crash ==
    /\ proc # "down" /\ Fault
    /\ Stops
    /\ RowSame /\ UNCHANGED <<orphans, seen, left>>

\* Hello.
Starts ==
    /\ proc = "down" /\ DbUp
    /\ proc' = "up" /\ Seen
    /\ RowSame /\ UNCHANGED <<link, half, st, passed, reqs, admitting, call, orphans, faults>>

\* The ingress is cut off; ferund notices at once, or by its keepalive at last; it
\* connects again.
Cut ==
    /\ proc # "down" /\ Connected /\ Fault
    /\ link' \in {"half", "cut"}
    /\ RowSame /\ UNCHANGED <<proc, half, st, passed, reqs, admitting, call, orphans, seen, left>>

Heals ==
    /\ ~Connected /\ DbUp
    /\ link' = "again" /\ half' = 0 /\ Seen
    /\ RowSame /\ UNCHANGED <<proc, st, passed, reqs, admitting, call, orphans, faults>>

\* The heartbeat of a stream that ferund takes to be alive.
Beats == proc # "down" /\ DbUp /\ link # "cut"

Tick ==
    /\ admitting = "none" /\ call = "none" /\ orphans = {}
    /\ proc = "down" \/ passed = "yes"
    /\ Passes
    /\ st' = [st EXCEPT !.valid = IF @ > 0 THEN @ - 1 ELSE 0, !.retry = "no", !.fresh = "no"]
    /\ passed' = "no"
    /\ half' = IF link = "half" /\ half < HalfOpen THEN half + 1 ELSE 0
    /\ link' = IF link = "half" /\ half' = HalfOpen THEN "cut" ELSE link
    /\ \/ Beats /\ seen' \in {0, 1}
       \/ ~Beats /\ seen' = IF seen < FenceTo THEN seen + 1 ELSE seen
    /\ UNCHANGED <<proc, reqs, admitting, call, orphans, left, faults>>

Leader ==
    /\ Select(Open) \/ IdleBegins(Open) \/ BeginFails(Open, {})
    /\ UNCHANGED <<proc, link, half, st, passed, reqs, admitting, call, orphans, seen, left, faults>>

\* The wake of a sleeping service and the pauses of others are not the
\* ingress's.
Others ==
    /\ PauseExplicit \/ PauseEnds \/ Resume \/ ResumeEnds \/ OutageEnds
    /\ UNCHANGED <<proc, link, half, st, passed, reqs, admitting, call, orphans, seen, left, faults>>

Outages ==
    /\ Failover \/ OutageBegins
    /\ Fault
    /\ UNCHANGED <<proc, link, half, st, passed, reqs, admitting, call, orphans, seen, left>>

-----------------------------------------------------------------------------
Init ==
    /\ IdleInit
    /\ proc = "up" /\ link = "ok" /\ half = 0
    /\ st = NoHold /\ passed = "no" /\ admitting = "none" /\ call = "none" /\ orphans = {}
    /\ reqs = [q \in Requests |-> "idle"]
    /\ seen = 0 /\ left = "no" /\ faults = 0

Next ==
    \/ \E q \in Requests : Arrives(q) \/ AcquireHold(q) \/ Ends(q)
    \/ Admitted \/ AdmitFails \/ Pass \/ Called \/ CallFails \/ ServeAdmit \/ ServeCall
    \/ \E o \in orphans : ServeLate(o)
    \/ Drain \/ LeaveIngress \/ Crash \/ Starts \/ Cut \/ Heals
    \/ Leader \/ Others \/ Outages \/ Tick

Spec == Init /\ [][Next]_vars

\* Time passes, calls are answered or fail, the loops run again and again, an
\* outage and a pause end.
FairSpec ==
    /\ Spec
    /\ SF_vars(Tick) /\ WF_vars(Pass) /\ WF_vars(ServeCall) /\ WF_vars(Called) /\ WF_vars(CallFails)
    /\ WF_vars(ServeAdmit) /\ WF_vars(Admitted) /\ WF_vars(AdmitFails)
    /\ WF_vars(\E o \in orphans : ServeLate(o))
    /\ WF_vars(Leader)
    /\ WF_vars((OutageEnds \/ PauseEnds) /\ UNCHANGED <<ingressVars, faults>>)

-----------------------------------------------------------------------------
(* Properties *)

TypeOK ==
    /\ IdleTypeOK
    /\ proc \in {"up", "draining", "down"} /\ link \in {"ok", "half", "cut", "again"} /\ half \in 0 .. HalfOpen
    /\ st \in HoldState /\ passed \in {"yes", "no"}
    /\ reqs \in [Requests -> {"idle", "acquire", "wait", "held", "unheld"}]
    /\ admitting \in Answers \cup {"none", "sent", "lost"}
    /\ call \in Answers \cup {"none", "renew", "release", "lost"}
    /\ orphans \subseteq {"admit", "renew", "release"}
    /\ seen \in 0 .. FenceTo /\ left \in {"yes", "no"} /\ faults \in 0 .. MaxFaults

Freezes(kind) == IdleStarts /\ seen < FenceTo /\ \E q \in Requests : reqs[q] = kind

\* After any one fault (an outage, a failover, a crash, a lost or late call, a cut
\* that ferund takes up to HalfOpen to notice) an idle pause freezes no request
\* that went on under a hold, until the fence takes the ingress to be gone; but
\* for one that has connected again and not yet renewed its holds.  The idle
\* interval must outlast the half-open connection and the time to the fence.
Outlasts == IdleAfter > HalfOpen + FenceFrom
HeldNotFrozen == [][Freezes("held") /\ Outlasts /\ faults <= 1 => link = "again"]_vars

\* A service without requests is paused in the end: a hold, a fence or a release
\* that was lost keeps it awake for a while only.
Unused == \A q \in Requests : reqs[q] = "idle"
UnusedIdles == []<>(~Unused \/ state # "running")

-----------------------------------------------------------------------------
(* What comments or documents of the program say and the model refutes; the *)
(* README has the behaviours.  No run checks these.                         *)

\* docs/architecture/ingress.md on a request that goes on unheld: "the fence
\* covers that case".
UnheldNotFrozen == [][Freezes("unheld") => proc = "draining"]_vars

\* store/ingress_holds.go on the holds: "so that an idle pause never freezes a
\* request that reached the pod", and on the fence that it keeps the services
\* from idling "instead" when the holds lapse.
NeverFrozen == [][~Freezes("held")]_vars

\* docs/architecture/ingress.md on the fence: "While an ingress instance is cut
\* off from ferund, its holds lapse, and the idle loop would pause services it
\* still serves.  So the idle loop ... leave[s] out" those services.
CutOffNotFrozen == [][Freezes("held") => Connected]_vars

\* proxy/holds.go: "a release never lands after the admit of a new request".
NoLateRelease ==
    [][lease[Ingress] > 0 /\ lease'[Ingress] = 0 /\ age' = 0 /\ proc' # "down"
        => \A q \in Requests : reqs[q] # "held"]_vars
=============================================================================

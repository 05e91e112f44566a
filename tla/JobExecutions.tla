--------------------------- MODULE JobExecutions ---------------------------
(***************************************************************************)
(* What the scheduler promises about one job, without processes, locks,    *)
(* rows or retries of calls: a run executes at most once, executions under *)
(* a running lease exclude each other, and a run that never executed has   *)
(* no automatic retry, any other at most one.  Scheduler implements it.    *)
(***************************************************************************)
CONSTANT Runs  \* the runs of the job

VARIABLES
    phase,   \* where the execution of each run is
    retries  \* which run retries which automatically

vars == <<phase, retries>>

Init ==
    /\ phase = [r \in Runs |-> "new"]
    /\ retries = {}

Start(r) ==
    /\ phase[r] = "new"
    /\ \A s \in Runs : phase[s] # "leased"
    /\ phase' = [phase EXCEPT ![r] = "leased"]
    /\ UNCHANGED retries

(* The lease was over before the run was marked: nothing excludes others.  *)
StartLate(r) ==
    /\ phase[r] = "new"
    /\ phase' = [phase EXCEPT ![r] = "unleased"]
    /\ UNCHANGED retries

Expire(r) ==
    /\ phase[r] = "leased"
    /\ phase' = [phase EXCEPT ![r] = "unleased"]
    /\ UNCHANGED retries

(* One execution settles; those of a process end together when it dies.    *)
Stop(R) ==
    /\ \A r \in R : phase[r] \in {"leased", "unleased"}
    /\ phase' = [r \in Runs |-> IF r \in R THEN "over" ELSE phase[r]]
    /\ UNCHANGED retries

(* A run past its timeout may still execute when s is queued to retry it.  *)
Retry(r, s) ==
    /\ phase[r] # "new"
    /\ phase[s] = "new"
    /\ \A t \in Runs : <<r, t>> \notin retries
    /\ retries' = retries \cup {<<r, s>>}
    /\ UNCHANGED phase

Next ==
    \/ \E r \in Runs : Start(r) \/ StartLate(r) \/ Expire(r)
    \/ \E r, s \in Runs : Retry(r, s)
    \/ \E R \in SUBSET Runs : Stop(R)

Spec == Init /\ [][Next]_vars
=============================================================================

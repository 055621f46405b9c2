------------------------------ MODULE SweepJob ------------------------------
(***************************************************************************)
(* The reconciler's job (main and reconcile in src/memcove/reconciler.py): *)
(* each run lists the namespaces and sweeps them one after the other.  One *)
(* namespace is followed step by step (SweepAlone); of its neighbours only *)
(* matters that their sweeps end, with a plan applied or an exception.     *)
(***************************************************************************)
EXTENDS SweepAlone

CONSTANTS
    Neighbour,   \* the catalog's other namespaces
    Mine         \* the namespace whose stores the model holds

ASSUME MineAssumption == Mine \notin Neighbour

VARIABLE
    \* The job under way: the namespaces it has still to sweep, the one it is
    \* at, and those whose sweep raised (report.errored_namespaces).
    job

jobVars == <<aloneVars, job>>

Off == [pc |-> "off", todo |-> {}, at |-> "none", errored |-> {}]

JobInit == AloneInit /\ job = Off

\* main: init_db may fail, and the job goes on.
JobStart ==
    /\ job.pc = "off"
    /\ job' = [job EXCEPT !.pc = "list"]
    /\ UNCHANGED aloneVars

\* list_namespaces raises outside the try: the run of the job is over.
JobListFails ==
    /\ job.pc = "list"
    /\ job' = Off
    /\ UNCHANGED aloneVars

JobList ==
    /\ job.pc = "list"
    /\ job' = [job EXCEPT !.pc = "loop", !.todo = Neighbour \cup {Mine}]
    /\ UNCHANGED aloneVars

\* The catalog lists namespaces in an order of its own.
JobPick ==
    /\ job.pc = "loop" /\ job.at = "none"
    /\ \E t \in job.todo : job' = [job EXCEPT !.at = t, !.todo = @ \ {t}]
    /\ UNCHANGED aloneVars

NeighbourSwept ==
    /\ job.at \in Neighbour
    /\ job' = [job EXCEPT !.at = "none"]
    /\ UNCHANGED aloneVars

\* Mutant: the try is around the loop.
NeighbourEndsJob ==
    /\ job.at \in Neighbour
    /\ job' = Off
    /\ UNCHANGED aloneVars

\* "One bad namespace must not abort the sweep."
NeighbourRaises ==
    /\ job.at \in Neighbour
    /\ job' = [job EXCEPT !.at = "none", !.errored = @ \cup {job.at}]
    /\ UNCHANGED aloneVars

MineSweeps ==
    /\ job.at = Mine
    /\ AloneNext
    /\ job' = IF sweep'.pc = "idle" THEN [job EXCEPT !.at = "none"] ELSE job

JobEnd ==
    /\ job.pc = "loop" /\ job.at = "none" /\ job.todo = {}
    /\ job' = Off
    /\ UNCHANGED aloneVars

JobStep == JobStart \/ JobList \/ JobPick \/ NeighbourSwept \/ NeighbourRaises
             \/ MineSweeps \/ JobEnd

JobNext == JobStep \/ JobListFails

\* The CronJob starts runs for ever, a run goes on as long as it can, and the
\* catalog lists its namespaces every now and then.
JobFairness == WF_jobVars(JobStep) /\ SF_jobVars(JobList)

JobSpec == JobInit /\ [][JobNext]_jobVars /\ JobFairness
-----------------------------------------------------------------------------
Healed == Quiet!InStep \/ ListingSuspect(Present, RegAhead) \/ OverCap(Present, RegAhead)

\* However often the sweeps of other namespaces raise and whole runs fail to
\* list the namespaces, in whatever order these are visited: a namespace whose
\* own sweeps work is healed, unless fail-safe or cap forbid it.
NeighboursDoNotStarve == <>[]Healed
=============================================================================

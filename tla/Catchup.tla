------------------------------ MODULE Catchup ------------------------------
(***************************************************************************)
(* The catch-up pass (backend/jobs): once per launch, before the sidecar   *)
(* serves a request, every project gets its schedule rows and the overdue  *)
(* ones are dispatched, oldest first, two at most, a row whose job needs a *)
(* model only when one is configured. The jobs are enqueued in the queue's *)
(* own transaction, next_due_at is committed at the end of the pass.       *)
(*                                                                         *)
(* Of next_due_at only the order of the overdue rows matters: late holds   *)
(* them, oldest first; the others may fall due in any order.               *)
(***************************************************************************)
EXTENDS Naturals, Sequences, SequencesExt, Selection

CONSTANTS
    Projects,
    MaxDispatches,  \* _MAX_CATCHUP_DISPATCHES_PER_PASS
    MaxFailures     \* bound: passes that fail

VARIABLES
    created,     \* projects
    scheduled,   \* scheduled_jobs
    late,        \* the overdue rows, oldest next_due_at first
    configured,  \* a primary or auxiliary model is saved
    enqueued,    \* jobs enqueued for a row since it fell due
    failures

vars == <<created, scheduled, late, configured, enqueued, failures>>

ScheduleKinds == {"feed_poll", "interest_profile_reextract"}
NeedsLlm(row) == row[2] = "interest_profile_reextract"
RowsOf(ps)    == ps \X ScheduleKinds
AllRows       == RowsOf(Projects)

TypeOK ==
    /\ created \subseteq Projects /\ scheduled \subseteq AllRows
    /\ late \in Seq(AllRows) /\ IsInjective(late) /\ ToSet(late) \subseteq scheduled
    /\ configured \in BOOLEAN
    /\ enqueued \in [AllRows -> 0 .. MaxFailures + 1]
    /\ failures \in 0 .. MaxFailures

Init ==
    /\ created = {} /\ scheduled = {} /\ late = <<>> /\ configured = FALSE
    /\ enqueued = [r \in AllRows |-> 0] /\ failures = 0

CreateProject(p) ==
    /\ p \notin created
    /\ created' = created \cup {p}
    /\ UNCHANGED <<scheduled, late, configured, enqueued, failures>>

Configure ==
    /\ ~configured
    /\ configured' = TRUE
    /\ UNCHANGED <<created, scheduled, late, enqueued, failures>>

FallDue(r) ==
    /\ r \in scheduled \ ToSet(late)
    /\ late' = Append(late, r)
    /\ enqueued' = [enqueued EXCEPT ![r] = 0]
    /\ UNCHANGED <<created, scheduled, configured, failures>>

(***************************************************************************)
(* run_catchup_pass.                                                       *)
(***************************************************************************)
\* _ensure_schedule_rows: a project's first rows are due at once.
New           == RowsOf(created) \ scheduled
Overdue       == {late \o n : n \in SetToSeqs(New)}
MayRun(r)     == NeedsLlm(r) => configured
Runnable      == {r \in AllRows : MayRun(r)}
FirstOf(s, n) == SubSeq(s, 1, IF Len(s) < n THEN Len(s) ELSE n)

\* Mutant: rows that are skipped count as dispatches.
Dispatches_CountSkipped(overdue) ==
    Among(FirstOf(overdue, MaxDispatches), Runnable)

Dispatches(overdue) == FirstOf(Among(overdue, Runnable), MaxDispatches)

Enqueue(jobs) ==
    enqueued' = [r \in AllRows |-> IF r \in jobs THEN enqueued[r] + 1 ELSE enqueued[r]]

\* Mutant: next_due_at is left as it was.
Pass_KeepDue == \E overdue \in Overdue :
    /\ Enqueue(ToSet(Dispatches(overdue)))
    /\ late' = overdue
    /\ scheduled' = scheduled \cup New
    /\ UNCHANGED <<created, configured, failures>>

Pass == \E overdue \in Overdue :
    LET jobs == ToSet(Dispatches(overdue)) IN
    /\ Enqueue(jobs)
    /\ late' = Among(overdue, AllRows \ jobs)
    /\ scheduled' = scheduled \cup New
    /\ UNCHANGED <<created, configured, failures>>

\* An enqueue raises or the process dies before the commit: what was enqueued stays.
PassFails ==
    /\ failures < MaxFailures /\ failures' = failures + 1
    /\ \E overdue \in Overdue : \E n \in 0 .. Len(Dispatches(overdue)) :
          Enqueue(ToSet(FirstOf(Dispatches(overdue), n)))
    /\ UNCHANGED <<created, scheduled, late, configured>>

Next ==
    \/ Configure \/ Pass \/ PassFails
    \/ \E p \in Projects : CreateProject(p)
    \/ \E r \in AllRows : FallDue(r)

\* The researcher goes on launching the application.
Fairness == WF_vars(Pass)

Spec == Init /\ [][Next]_vars /\ Fairness

(***************************************************************************)
(* Properties.                                                             *)
(***************************************************************************)
\* A row is dispatched once each time it falls due, and once more for each
\* pass that failed.
RepeatsNeedFailure == \A r \in AllRows : enqueued[r] <= 1 + failures

\* Every overdue row whose job may run is dispatched in the end: neither the
\* cap nor rows that wait for a model starve it.
OverdueDispatched == \A r \in AllRows :
    r \in ToSet(late) /\ MayRun(r) ~> r \notin ToSet(late)
=============================================================================

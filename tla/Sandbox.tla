------------------------------- MODULE Sandbox -------------------------------
(***************************************************************************)
(* The Execution Sandbox (backend/sandbox/__init__.py): the confirmation   *)
(* tokens that gate a measured run, run_all as the sequence of steps       *)
(* between its awaits, the live notebook server with its per-experiment    *)
(* lock and its 4h ceiling task, and a sidecar crash followed by the boot  *)
(* sweep.                                                                  *)
(*                                                                         *)
(* A notebook's content is the set of cells it holds: enough to say that   *)
(* one content differs from another and that a cell was lost.  A RunSpec   *)
(* is its network opt-in.                                                  *)
(***************************************************************************)
EXTENDS FiniteSets

CONSTANTS
    Experiments,     \* experiment rows
    Runs,            \* run_ids, one run_experiment_job each
    Tokens,          \* confirmation tokens the process may mint
    Ops,             \* REST requests that act on a notebook or its server
    Servers,         \* notebook-server containers, one per successful launch
    Cells,           \* notebook cells
    BroadcastFaults, \* may ws.broadcast raise something else than RuntimeError?
    DockerFaults,    \* may container.remove, kill or wait fail?
    SaveFaults,      \* may a save stay unconfirmed, a vault write fail?
    MayCrash,        \* may the sidecar die?
    Missing,         \* an experiment with no notebook.ipynb
    None             \* absence of a run, a server, a token, a lock holder

Procs == Ops \cup Servers   \* the ceiling task of a server is a process too

ASSUME SandboxAssumption ==
    /\ BroadcastFaults \in BOOLEAN /\ DockerFaults \in BOOLEAN
    /\ SaveFaults \in BOOLEAN /\ MayCrash \in BOOLEAN
    /\ Ops \cap Servers = {}
    /\ None \notin Experiments \cup Runs \cup Tokens \cup Ops \cup Servers
    /\ \A cs \in SUBSET Cells : Missing # cs

VARIABLES
    netOptin,  \* experiments.network_optin: what build_run_spec reads
    notebook,  \* projects/<slug>/experiments/<exp>/notebook.ipynb
    tokens,    \* _tokens, each with the prompt that was displayed before it
    job,       \* the run_all activation of each run_id
    box,       \* its Docker container
    running,   \* _running_containers
    live,      \* _live_servers
    lock,      \* _live_server_locks
    op,        \* start / stop / propose requests and ceiling tasks
    server,    \* the notebook-server containers Docker knows
    rows,      \* committed experiment_runs rows
    up         \* is the sidecar process serving?

disk    == <<netOptin, notebook, rows>>
runs    == <<job, box, running>>
serving == <<live, lock, op, server>>
vars    == <<netOptin, notebook, tokens, job, box, running, live, lock,
             op, server, rows, up>>

Contents == (SUBSET Cells) \cup {Missing}
Prompts  == [net : BOOLEAN, cells : Contents]

TokenStates == {"unminted", "prompted", "valid", "used", "expired", "void"}
JobStates   == {"absent", "queued", "loading", "consuming", "launching",
                "created", "announcing", "streaming", "reaping", "popping",
                "writing", "committing", "done", "rejected", "failed", "lost"}
BoxStates   == {"none", "running", "exited", "removed"}
OpStates    == {"idle", "proposing", "starting", "creating", "launching",
                "probing", "armed", "woken", "saving", "writing", "removing"}
ServerStates == {"unused", "up", "stray", "removed"}

TokenRecords == [st : TokenStates, exp : Experiments \cup {None},
                 net : BOOLEAN, seen : Prompts \cup {None}]
JobRecords == [pc : JobStates, exp : Experiments \cup {None},
               tok : Tokens \cup {None}, flag : BOOLEAN, net : BOOLEAN,
               wired : BOOLEAN, hash : Contents, ran : Contents, out : Contents]
OpRecords == [pc : OpStates, exp : Experiments \cup {None},
              srv : Servers \cup {None}, bytes : Contents]
ServerRecords == [st : ServerStates, exp : Experiments \cup {None}]

\* Every variable has its type: what the registries, the token store and the
\* steps of a request may hold.
TypeOK ==
    /\ netOptin \in [Experiments -> BOOLEAN]
    /\ notebook \in [Experiments -> Contents]
    /\ tokens \in [Tokens -> TokenRecords]
    /\ job \in [Runs -> JobRecords]
    /\ box \in [Runs -> BoxStates]
    /\ running \in [Experiments -> Runs \cup {None}]
    /\ live \in [Experiments -> Servers \cup {None}]
    /\ lock \in [Experiments -> Procs \cup {None}]
    /\ op \in [Procs -> OpRecords]
    /\ server \in [Servers -> ServerRecords]
    /\ rows \in SUBSET Runs
    /\ up \in BOOLEAN

\* A request at pc, about e and s, holding the bytes it has read.
OpAt(pc, e, s, bytes) == [pc |-> pc, exp |-> e, srv |-> s, bytes |-> bytes]
IdleOp == OpAt("idle", None, None, Missing)

\* A job that has read nothing yet, or that left nothing behind.
BlankJob(pc) == [pc |-> pc, exp |-> None, tok |-> None, flag |-> FALSE,
                 net |-> FALSE, wired |-> FALSE, hash |-> Missing,
                 ran |-> Missing, out |-> Missing]

Init ==
    /\ netOptin \in [Experiments -> BOOLEAN]
    /\ notebook \in [Experiments -> {Missing, {}}]
    /\ tokens = [t \in Tokens |-> [st |-> "unminted", exp |-> None,
                                   net |-> FALSE, seen |-> None]]
    /\ job = [r \in Runs |-> BlankJob("absent")]
    /\ box = [r \in Runs |-> "none"]
    /\ running = [e \in Experiments |-> None]
    /\ live = [e \in Experiments |-> None]
    /\ lock = [e \in Experiments |-> None]
    /\ op = [p \in Procs |-> IdleOp]
    /\ server = [s \in Servers |-> [st |-> "unused", exp |-> None]]
    /\ rows = {}
    /\ up = TRUE

-----------------------------------------------------------------------------
(* The experiment record and the consent gate.                             *)

\* PATCH .../experiments/:id flips the network opt-in the next RunSpec reads.
UpdateExperiment(e) ==
    /\ up
    /\ netOptin' = [netOptin EXCEPT ![e] = ~ @]
    /\ UNCHANGED <<notebook, rows, up, tokens, runs, serving>>

\* GET .../run_spec: what the human reads, code and spec.  The process keeps
\* nothing of it; the prompt is on the screen of whoever asks for t next.
Preview(t, e) ==
    /\ up
    /\ tokens[t].st = "unminted"
    /\ tokens' = [tokens EXCEPT ![t] =
                    [st |-> "prompted", exp |-> e, net |-> FALSE,
                     seen |-> [net |-> netOptin[e], cells |-> notebook[e]]]]
    /\ UNCHANGED <<up, disk, runs, serving>>

\* POST .../confirmation, or the agent's run_all tool after its approval: the
\* spec is recomputed, and the token is bound to the recomputed one.
MintConfirmation(t) ==
    /\ up
    /\ tokens[t].st = "prompted"
    /\ tokens' = [tokens EXCEPT ![t] = [@ EXCEPT !.st = "valid",
                                               !.net = netOptin[tokens[t].exp]]]
    /\ UNCHANGED <<up, disk, runs, serving>>

\* _TOKEN_TTL_SECONDS passes.
ExpireToken(t) ==
    /\ tokens[t].st = "valid"
    /\ tokens' = [tokens EXCEPT ![t].st = "expired"]
    /\ UNCHANGED <<up, disk, runs, serving>>

\* Mutant: the experiment of the token is not compared.
TokenAccepted_AnyExperiment(r) ==
    tokens[job[r].tok].st = "valid" /\ tokens[job[r].tok].net = job[r].net

\* _consume_token: the five checks, in one synchronous stretch.
TokenAccepted(r) ==
    LET t == tokens[job[r].tok]
    IN  /\ t.st = "valid"
        /\ t.exp = job[r].exp
        /\ t.net = job[r].net

-----------------------------------------------------------------------------
(* run_all, one action per stretch between two awaits.                     *)

InPc(r, pc) == up /\ job[r].pc = pc

\* POST .../run_all: 409 while a live server is open, else enqueue the job.
PostRunAll(r, e, t, flag) ==
    /\ InPc(r, "absent")
    /\ tokens[t].st \notin {"unminted", "prompted"}
    /\ live[e] = None
    /\ job' = [job EXCEPT ![r] = [@ EXCEPT !.pc = "queued", !.exp = e,
                                           !.tok = t, !.flag = flag]]
    /\ UNCHANGED <<box, running, up, disk, tokens, serving>>

\* The worker starts the job: the two registry checks at the top of run_all.
RunCheck(r) ==
    /\ InPc(r, "queued")
    /\ job' = [job EXCEPT ![r] =
                 IF running[job[r].exp] = None /\ live[job[r].exp] = None
                 THEN [@ EXCEPT !.pc = "loading"] ELSE BlankJob("rejected")]
    /\ UNCHANGED <<box, running, up, disk, tokens, serving>>

\* load_run_spec: the experiment row as the database holds it now.
LoadRunSpec(r) ==
    /\ InPc(r, "loading")
    /\ job' = [job EXCEPT ![r] = [@ EXCEPT !.pc = "consuming",
                                           !.net = netOptin[job[r].exp]]]
    /\ UNCHANGED <<box, running, up, disk, tokens, serving>>

\* Mutant: the token is validated and never marked used.
ConsumeToken_Replay(r) ==
    /\ InPc(r, "consuming")
    /\ TokenAccepted(r)
    /\ notebook[job[r].exp] # Missing
    /\ job' = [job EXCEPT ![r] = [@ EXCEPT !.pc = "launching",
                                           !.hash = notebook[job[r].exp]]]
    /\ UNCHANGED <<tokens, box, running, up, disk, serving>>

\* Consume the token, then look for the notebook and hash it.
ConsumeToken(r) ==
    /\ InPc(r, "consuming")
    /\ IF TokenAccepted(r)
       THEN /\ tokens' = [tokens EXCEPT ![job[r].tok].st = "used"]
            /\ job' = [job EXCEPT ![r] =
                         IF notebook[job[r].exp] = Missing
                         THEN BlankJob("rejected")
                         ELSE [@ EXCEPT !.pc = "launching",
                                        !.hash = notebook[job[r].exp]]]
       ELSE /\ job' = [job EXCEPT ![r] = BlankJob("rejected")]
            /\ UNCHANGED tokens
    /\ UNCHANGED <<box, running, up, disk, serving>>

\* network_enabled: the request's own flag and the spec's opt-in.
NetworkEnabled(r) == job[r].flag /\ job[r].net

\* containers.run in a thread: the container reads the notebook in its mount.
LaunchContainer(r) ==
    /\ InPc(r, "launching")
    /\ box' = [box EXCEPT ![r] = "running"]
    /\ job' = [job EXCEPT ![r] = [@ EXCEPT !.pc = "created",
                                           !.wired = NetworkEnabled(r),
                                           !.ran = notebook[job[r].exp]]]
    /\ UNCHANGED <<running, up, disk, tokens, serving>>

\* No daemon, no image: the job fails with its token spent.
LaunchFails(r) ==
    /\ InPc(r, "launching")
    /\ job' = [job EXCEPT ![r] = BlankJob("failed")]
    /\ UNCHANGED <<box, running, up, disk, tokens, serving>>

\* Mutant: the registry is given the token instead of the run.
RegisterRun_WrongId(r) ==
    /\ InPc(r, "created")
    /\ running' = [running EXCEPT ![job[r].exp] = job[r].tok]
    /\ job' = [job EXCEPT ![r].pc = "announcing"]
    /\ UNCHANGED <<box, up, disk, tokens, serving>>

\* Only here does the experiment become busy in _running_containers.
RegisterRun(r) ==
    /\ InPc(r, "created")
    /\ running' = [running EXCEPT ![job[r].exp] = r]
    /\ job' = [job EXCEPT ![r].pc = "announcing"]
    /\ UNCHANGED <<box, up, disk, tokens, serving>>

AnnounceRunning(r) ==
    /\ InPc(r, "announcing")
    /\ job' = [job EXCEPT ![r].pc = "streaming"]
    /\ UNCHANGED <<box, running, up, disk, tokens, serving>>

\* The log stream ends when the container has exited.
StreamEnds(r) ==
    /\ InPc(r, "streaming")
    /\ box[r] = "exited"
    /\ job' = [job EXCEPT ![r].pc = "reaping"]
    /\ UNCHANGED <<box, running, up, disk, tokens, serving>>

\* asyncio.timeout(idle_timeout_seconds) fires: kill, then reap.  Killing a
\* container that has just exited is an API error that leaves the handler.
StreamTimesOut(r) ==
    /\ InPc(r, "streaming")
    /\ IF box[r] = "running"
       THEN /\ box' = [box EXCEPT ![r] = "exited"]
            /\ job' = [job EXCEPT ![r].pc = "reaping"]
       ELSE /\ DockerFaults
            /\ job' = [job EXCEPT ![r].pc = "failed"]
            /\ UNCHANGED box
    /\ UNCHANGED <<running, up, disk, tokens, serving>>

\* A broadcast raises past "except RuntimeError": run_all is left at once,
\* outside the finally that removes the container and pops the registry.
BroadcastRaises(r) ==
    /\ BroadcastFaults
    /\ InPc(r, "announcing") \/ InPc(r, "streaming") \/ InPc(r, "committing")
    /\ job' = [job EXCEPT ![r].pc = "failed"]
    /\ UNCHANGED <<box, running, up, disk, tokens, serving>>

\* _wait_for_exit, then container.remove in the finally.
ReapContainer(r) ==
    /\ InPc(r, "reaping")
    /\ box' = [box EXCEPT ![r] = "removed"]
    /\ job' = [job EXCEPT ![r].pc = "popping"]
    /\ UNCHANGED <<running, up, disk, tokens, serving>>

ReapFails(r) ==
    /\ DockerFaults
    /\ InPc(r, "reaping")
    /\ job' = [job EXCEPT ![r].pc = "failed"]
    /\ UNCHANGED <<box, running, up, disk, tokens, serving>>

\* _wait_for_exit raised: the finally pops all the same, the run goes no further.
WaitFails(r) ==
    /\ DockerFaults
    /\ InPc(r, "popping")
    /\ running' = [running EXCEPT ![job[r].exp] = None]
    /\ job' = [job EXCEPT ![r].pc = "failed"]
    /\ UNCHANGED <<box, up, disk, tokens, serving>>

\* Mutant: the finally forgets the registry.
PopRun_KeepsEntry(r) ==
    /\ InPc(r, "popping")
    /\ job' = [job EXCEPT ![r] = [@ EXCEPT !.pc = "writing",
                                           !.out = notebook[job[r].exp]]]
    /\ UNCHANGED <<running, box, up, disk, tokens, serving>>

\* _running_containers.pop by experiment, whatever run it names by now, and
\* the executed notebook read back.
PopRun(r) ==
    /\ InPc(r, "popping")
    /\ running' = [running EXCEPT ![job[r].exp] = None]
    /\ job' = [job EXCEPT ![r] = [@ EXCEPT !.pc = "writing",
                                           !.out = notebook[job[r].exp]]]
    /\ UNCHANGED <<box, up, disk, tokens, serving>>

\* write_experiment_files puts those bytes on disk again; record_run flushes.
WriteRunFiles(r) ==
    /\ InPc(r, "writing")
    /\ notebook' = [notebook EXCEPT ![job[r].exp] = job[r].out]
    /\ job' = [job EXCEPT ![r].pc = "committing"]
    /\ UNCHANGED <<netOptin, rows, box, running, up, tokens, serving>>

\* VaultWriteFailed: no row for a run that was measured.
WriteFails(r) ==
    /\ SaveFaults
    /\ InPc(r, "writing")
    /\ job' = [job EXCEPT ![r].pc = "failed"]
    /\ UNCHANGED <<box, running, up, disk, tokens, serving>>

\* "done"/"failed" is broadcast, then the session's exit commits the row.
CommitRun(r) ==
    /\ InPc(r, "committing")
    /\ rows' = rows \cup {r}
    /\ job' = [job EXCEPT ![r].pc = "done"]
    /\ UNCHANGED <<netOptin, notebook, box, running, up, tokens, serving>>

\* run_notebook.py finishes, whatever its exit code: the notebook it read is
\* written back in place.
\* The container outlives the sidecar, so "up" is no condition.
RunnerExits(r) ==
    /\ box[r] = "running"
    /\ box' = [box EXCEPT ![r] = "exited"]
    /\ notebook' = [notebook EXCEPT ![job[r].exp] = job[r].ran]
    /\ UNCHANGED <<netOptin, rows, job, running, up, tokens, serving>>

\* POST .../kernel {stop}: kills the container the registry names.
StopKernel(e) ==
    /\ up
    /\ running[e] # None
    /\ box[running[e]] = "running"
    /\ box' = [box EXCEPT ![running[e]] = "exited"]
    /\ UNCHANGED <<job, running, up, disk, tokens, serving>>

-----------------------------------------------------------------------------
(* propose_cell: read the notebook, add a cell, write the whole file back.  *)

ProposeRead(o, e) ==
    /\ up
    /\ op[o].pc = "idle"
    /\ op' = [op EXCEPT ![o] = OpAt("proposing", e, None, notebook[e])]
    /\ UNCHANGED <<live, lock, server, up, disk, tokens, runs>>

\* No notebook yet is a new, empty one.
ProposeWrite(o, c) ==
    /\ op[o].pc = "proposing"
    /\ LET before == IF op[o].bytes = Missing THEN {} ELSE op[o].bytes
       IN  notebook' = [notebook EXCEPT ![op[o].exp] = before \cup {c}]
    /\ op' = [op EXCEPT ![o] = IdleOp]
    /\ UNCHANGED <<netOptin, rows, live, lock, server, up, tokens, runs>>

-----------------------------------------------------------------------------
(* start_notebook_server, under the experiment's lock.                      *)

Alive(s)      == server[s].st \in {"up", "stray"}
\* Mutant: starts and stops of one experiment are not serialized.
Acquire_NoWait(p, e) == lock' = [lock EXCEPT ![e] = p]

Acquire(p, e) == lock[e] = None /\ lock' = [lock EXCEPT ![e] = p]
Release(p)    == lock' = [lock EXCEPT ![op[p].exp] = None]

\* An existing server or a registered run ends the call with no effect.
StartEnter(o, e) ==
    /\ up
    /\ op[o].pc = "idle"
    /\ live[e] = None /\ running[e] = None
    /\ Acquire(o, e)
    /\ op' = [op EXCEPT ![o] = OpAt("starting", e, None, Missing)]
    /\ UNCHANGED <<live, server, up, disk, tokens, runs>>

\* load_run_spec, and with it notebook_path.
StartLoad(o) ==
    /\ op[o].pc = "starting"
    /\ op' = [op EXCEPT ![o].pc = IF notebook[op[o].exp] = Missing
                                  THEN "creating" ELSE "launching"]
    /\ UNCHANGED <<live, lock, server, up, disk, tokens, runs>>

\* The empty notebook is written on what the row said a moment ago.
CreateNotebook(o) ==
    /\ op[o].pc = "creating"
    /\ notebook' = [notebook EXCEPT ![op[o].exp] = {}]
    /\ op' = [op EXCEPT ![o].pc = "launching"]
    /\ UNCHANGED <<netOptin, rows, live, lock, server, up, tokens, runs>>

\* _run_notebook_server_container.  The second container of its network
\* fallback replaces the first, which is removed before: one server here.
StartContainer(o, s) ==
    /\ op[o].pc = "launching"
    /\ server[s].st = "unused"
    /\ server' = [server EXCEPT ![s] = [st |-> "up", exp |-> op[o].exp]]
    /\ op' = [op EXCEPT ![o] = [@ EXCEPT !.pc = "probing", !.srv = s]]
    /\ UNCHANGED <<live, lock, up, disk, tokens, runs>>

\* No row, no write, no Docker: nothing was started.
StartFails(o) ==
    /\ op[o].pc \in {"starting", "creating", "launching"}
    /\ Release(o)
    /\ op' = [op EXCEPT ![o] = IdleOp]
    /\ UNCHANGED <<live, server, up, disk, tokens, runs>>

\* The port never answers: the container is removed before the error.
ProbeFails(o) ==
    /\ op[o].pc = "probing"
    /\ server' = [server EXCEPT ![op[o].srv].st = "removed"]
    /\ Release(o)
    /\ op' = [op EXCEPT ![o] = IdleOp]
    /\ UNCHANGED <<live, up, disk, tokens, runs>>

\* Mutant: no ceiling task is created.
StartRegister_NoCeiling(o) ==
    /\ op[o].pc = "probing"
    /\ live' = [live EXCEPT ![op[o].exp] = op[o].srv]
    /\ op' = [op EXCEPT ![o] = IdleOp]
    /\ Release(o)
    /\ UNCHANGED <<server, up, disk, tokens, runs>>

\* Reachable: the handle is registered and its ceiling task created.
StartRegister(o) ==
    /\ op[o].pc = "probing"
    /\ LET s == op[o].srv  e == op[o].exp
       IN  /\ live' = [live EXCEPT ![e] = s]
           /\ op' = [op EXCEPT ![o] = IdleOp,
                               ![s] = OpAt("armed", e, None, Missing)]
    /\ Release(o)
    /\ UNCHANGED <<server, up, disk, tokens, runs>>

\* The notebook UI in the browser saves an edit through the server.
LiveEdit(s, c) ==
    /\ Alive(s)
    /\ notebook[server[s].exp] # Missing
    /\ notebook' = [notebook EXCEPT ![server[s].exp] = @ \cup {c}]
    /\ UNCHANGED <<netOptin, rows, up, tokens, runs, serving>>

-----------------------------------------------------------------------------
(* stop_notebook_server: by a request, at shutdown, or by the ceiling task. *)

\* _enforce_ceiling after its sleep: it goes on if the EXPERIMENT has a
\* server, without looking whether it is the one the task was created for.
\* (Nor does it ever find none: see CeilingStopsItsOwn.)
WakeCeiling(s) ==
    /\ op[s].pc = "armed"
    /\ op' = [op EXCEPT ![s] = IF live[op[s].exp] = None THEN IdleOp
                              ELSE [@ EXCEPT !.pc = "woken"]]
    /\ UNCHANGED <<live, lock, server, up, disk, tokens, runs>>

StopEnter(p, e) ==
    /\ up
    /\ \/ p \in Ops /\ op[p].pc = "idle"
       \/ op[p].pc = "woken" /\ op[p].exp = e
    /\ live[e] # None
    /\ Acquire(p, e)
    /\ op' = [op EXCEPT ![p] = OpAt("saving", e, live[e], Missing)]
    /\ UNCHANGED <<live, server, up, disk, tokens, runs>>

\* _save_and_verify_notebook: Jupyter rewrites its file, the bytes are read.
SaveRead(p) ==
    /\ op[p].pc = "saving"
    /\ op' = [op EXCEPT ![p] = [@ EXCEPT !.pc = "writing",
                                        !.bytes = notebook[op[p].exp]]]
    /\ UNCHANGED <<live, lock, server, up, disk, tokens, runs>>

\* NotebookSaveError or VaultWriteFailed: server registered and running.  A
\* ceiling task that fails here is over, nothing wakes for this server again.
SaveFails(p) ==
    /\ SaveFaults
    /\ op[p].pc \in {"saving", "writing"}
    /\ Release(p)
    /\ op' = [op EXCEPT ![p] = IdleOp]
    /\ UNCHANGED <<live, server, up, disk, tokens, runs>>

\* Mutant: the ceiling's own task is cancelled as well: its teardown is cut off
\* at the next await, the container's removal.
StopPop_CancelsCaller(p) ==
    /\ op[p].pc = "writing"
    /\ notebook' = [notebook EXCEPT ![op[p].exp] = op[p].bytes]
    /\ live' = [live EXCEPT ![op[p].exp] = None]
    /\ op' = [[op EXCEPT ![p].pc = "removing"] EXCEPT ![op[p].srv] = IdleOp]
    /\ lock' = IF op[p].srv = p THEN [lock EXCEPT ![op[p].exp] = None] ELSE lock
    /\ UNCHANGED <<netOptin, rows, server, up, tokens, runs>>

\* Mutant: a manual stop leaves the ceiling task asleep.
StopPop_NoCancel(p) ==
    /\ op[p].pc = "writing"
    /\ notebook' = [notebook EXCEPT ![op[p].exp] = op[p].bytes]
    /\ live' = [live EXCEPT ![op[p].exp] = None]
    /\ op' = [op EXCEPT ![p].pc = "removing"]
    /\ UNCHANGED <<netOptin, rows, lock, server, up, tokens, runs>>

\* The bytes go through Vault Writer, the handle is popped, and its ceiling
\* task cancelled unless it is the caller.  The container is still up.
StopPop(p) ==
    /\ op[p].pc = "writing"
    /\ LET e == op[p].exp  s == op[p].srv
       IN  /\ notebook' = [notebook EXCEPT ![e] = op[p].bytes]
           /\ live' = [live EXCEPT ![e] = None]
           /\ op' = [q \in Procs |->
                        CASE q = p -> [op[p] EXCEPT !.pc = "removing"]
                          [] q = s /\ q # p -> IdleOp
                          [] OTHER -> op[q]]
    /\ UNCHANGED <<netOptin, rows, lock, server, up, tokens, runs>>

\* Mutant: the lock is taken by hand and not given back here.
StopRemove_KeepsLock(p) ==
    /\ op[p].pc = "removing"
    /\ server' = [server EXCEPT ![op[p].srv].st = "removed"]
    /\ op' = [op EXCEPT ![p] = IdleOp]
    /\ UNCHANGED <<lock, live, up, disk, tokens, runs>>

StopRemove(p) ==
    /\ op[p].pc = "removing"
    /\ server' = [server EXCEPT ![op[p].srv].st = "removed"]
    /\ Release(p)
    /\ op' = [op EXCEPT ![p] = IdleOp]
    /\ UNCHANGED <<live, up, disk, tokens, runs>>

\* The removal fails, after the pop or behind a failed probe: the container
\* runs on, a stray that nothing in the process refers to.
RemoveFails(p) ==
    /\ DockerFaults
    /\ op[p].pc \in {"probing", "removing"}
    /\ server' = [server EXCEPT ![op[p].srv].st = "stray"]
    /\ Release(p)
    /\ op' = [op EXCEPT ![p] = IdleOp]
    /\ UNCHANGED <<live, up, disk, tokens, runs>>

-----------------------------------------------------------------------------
(* The process ends and boots again.  Containers do not notice.             *)

\* Everything in-process is gone: tokens, registries, locks, requests, jobs
\* being worked on (SAQ does not retry them).  Queued jobs, files and committed rows remain.
ProcessExits ==
    /\ MayCrash /\ up
    /\ up' = FALSE
    /\ tokens' = [t \in Tokens |-> IF tokens[t].st \in {"unminted", "prompted"}
                                   THEN tokens[t] ELSE [tokens[t] EXCEPT !.st = "void"]]
    /\ job' = [r \in Runs |->
                 IF job[r].pc \in {"absent", "queued", "done", "rejected"}
                 THEN job[r] ELSE [job[r] EXCEPT !.pc = "lost"]]
    /\ running' = [e \in Experiments |-> None]
    /\ live' = [e \in Experiments |-> None]
    /\ lock' = [e \in Experiments |-> None]
    /\ op' = [p \in Procs |-> IdleOp]
    /\ UNCHANGED <<box, server, disk>>

\* sweep_orphaned_notebook_servers removes what carries the server label; run
\* containers carry none.  The sidecar serves once the sweep is over.
SweepOne(s) ==
    /\ ~ up
    /\ Alive(s)
    /\ server' = [server EXCEPT ![s].st = "removed"]
    /\ UNCHANGED <<live, lock, op, up, disk, tokens, runs>>

Boot ==
    /\ ~ up
    /\ \A s \in Servers : ~ Alive(s)
    /\ up' = TRUE
    /\ UNCHANGED <<disk, tokens, runs, serving>>

-----------------------------------------------------------------------------
RunStep(r) ==
    \/ RunCheck(r) \/ LoadRunSpec(r) \/ ConsumeToken(r) \/ LaunchContainer(r)
    \/ RegisterRun(r) \/ AnnounceRunning(r) \/ StreamEnds(r) \/ StreamTimesOut(r)
    \/ ReapContainer(r) \/ PopRun(r) \/ WriteRunFiles(r) \/ CommitRun(r)

RunFails(r) ==
    \/ LaunchFails(r) \/ BroadcastRaises(r)
    \/ ReapFails(r) \/ WaitFails(r) \/ WriteFails(r)

\* What a start or stop that holds the lock does next, and a ceiling task.
ServeStep(p) ==
    \/ StartLoad(p) \/ CreateNotebook(p) \/ StartRegister(p) \/ SaveRead(p)
    \/ StopPop(p) \/ StopRemove(p) \/ StartFails(p)
    \/ \E s \in Servers : StartContainer(p, s)

CeilingStep(s) ==
    WakeCeiling(s) \/ \E e \in Experiments : StopEnter(s, e)

Next ==
    \/ \E e \in Experiments :
          \/ UpdateExperiment(e) \/ StopKernel(e)
          \/ \E t \in Tokens : Preview(t, e)
          \/ \E r \in Runs, t \in Tokens, f \in BOOLEAN : PostRunAll(r, e, t, f)
          \/ \E o \in Ops : ProposeRead(o, e) \/ StartEnter(o, e) \/ StopEnter(o, e)
    \/ \E t \in Tokens : MintConfirmation(t) \/ ExpireToken(t)
    \/ \E r \in Runs : RunStep(r) \/ RunFails(r) \/ RunnerExits(r)
    \/ \E o \in Ops, c \in Cells : ProposeWrite(o, c)
    \/ \E p \in Procs : ServeStep(p) \/ ProbeFails(p) \/ SaveFails(p) \/ RemoveFails(p)
    \/ \E s \in Servers : CeilingStep(s) \/ SweepOne(s) \/ \E c \in Cells : LiveEdit(s, c)
    \/ ProcessExits \/ Boot

\* The event loop and the worker run every coroutine that can go on, the
\* ceiling's sleep and the stream's timeout end.
Fairness ==
    /\ \A r \in Runs : WF_vars(RunStep(r))
    /\ \A p \in Procs : WF_vars(ServeStep(p))
    /\ \A s \in Servers : WF_vars(CeilingStep(s))

Spec == Init /\ [][Next]_vars /\ Fairness

-----------------------------------------------------------------------------
(* What the consent gate promises.                                          *)

\* A token starts at most one container: mint once, run once, however many
\* run_all requests carry it and whatever happens in between.
TokenOneShot ==
    \A r1, r2 \in Runs :
        r1 # r2 /\ box[r1] # "none" /\ box[r2] # "none" => job[r1].tok # job[r2].tok

\* A container exists only for a token of that experiment, minted for the spec
\* it runs under, now spent; and its network is never wider than that spec.
ConsentGate ==
    \A r \in Runs : box[r] # "none" =>
        LET t == tokens[job[r].tok]
        IN  /\ t.st \in {"used", "void"}
            /\ t.exp = job[r].exp
            /\ t.net = job[r].net
            /\ job[r].wired => t.net

(* What the registries promise.                                             *)

OnlyRunOf(r) == \A q \in Runs \ {r} : job[q].exp # job[r].exp

\* While no second run of its experiment was ever asked for, a run whose
\* container is alive after registration is the one kernel_status reports and
\* stop_kernel reaches; and nothing stays registered behind a removed box.
RegistryHonest ==
    \A r \in Runs : OnlyRunOf(r) =>
        /\ box[r] = "running" /\ job[r].pc \notin {"created", "lost"}
              => running[job[r].exp] = r
        /\ job[r].pc \in {"writing", "committing", "done"}
              => running[job[r].exp] = None

\* While the sidecar serves, each notebook-server container is either the
\* registered one of its experiment or in the hands of the one start or stop
\* that holds the experiment's lock: none is forgotten but by a failed removal.
ServerTracked ==
    up => \A s \in Servers : server[s].st = "up" =>
        \/ live[server[s].exp] = s
        \/ \E p \in Procs : /\ op[p].pc \in {"probing", "removing"}
                           /\ op[p].srv = s
                           /\ lock[server[s].exp] = p

\* One server per experiment, across overlapping starts, stops and ceilings.
OneServer ==
    \A s1, s2 \in Servers :
        up /\ server[s1].st = "up" /\ server[s2].st = "up"
           /\ server[s1].exp = server[s2].exp => s1 = s2

\* The ceiling looks its experiment up, not its server: cancelling it on every
\* other stop is what keeps an old ceiling from stopping a newer server.
CeilingStopsItsOwn == \A s \in Servers : op[s].srv \in {None, s}

\* An experiment does not stay busy: the registered run is popped in the end.
RunningClears ==
    \A e \in Experiments : running[e] # None ~> running[e] = None

\* Every start or stop gives the experiment's lock back.
LockReleased == \A e \in Experiments : lock[e] # None ~> lock[e] = None

\* With saves that succeed, no server outlives its ceiling.
ServerStops == \A e \in Experiments : live[e] # None ~> live[e] = None

(* What the documentation says and the code does not keep.                  *)

\* "an in-flight measured run or a live notebook server, never both".
NeverBoth == \A e \in Experiments : running[e] = None \/ live[e] = None

=============================================================================

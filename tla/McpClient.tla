----------------------------- MODULE McpClient -----------------------------
(***************************************************************************)
(* One stdio MCP server and the client object its bridged tools share      *)
(* (backend/harness/mcp): calls of several turns interleave on one pair of *)
(* pipes, the server may answer late, out of order or never, and die; the  *)
(* next write respawns it.                                                 *)
(*                                                                         *)
(* A line on stdout is the id of the request it answers, or Noise.         *)
(***************************************************************************)
EXTENDS Naturals, Sequences, SequencesExt

CONSTANTS
    Callers,    \* list_tools and call_tool in progress
    MaxSpawns,  \* bound: processes spawned
    MaxIds,     \* bound: requests sent
    MaxLines,   \* bound: unread lines of a process
    MaxSkips,   \* _MAX_NOTIFICATION_SKIPS
    Noise,      \* a notification or a log line
    None        \* no process, no caller

VARIABLES
    process,      \* the client's _process
    initialized,  \* the client's _initialized
    alive,        \* the processes that run
    spawned,      \* processes spawned
    inbox,        \* requests a process has read and not answered
    stdout,       \* unread lines of a process
    reader,       \* the caller that waits in readline on a process
    rpc,          \* the callers
    ids,          \* requests sent
    result        \* request and answer of the calls that returned one

server == <<alive, spawned, inbox, stdout, reader>>
vars   == <<process, initialized, server, rpc, ids, result>>

Procs  == 1 .. MaxSpawns
Phases == {"initialize", "initialized", "call"}
Steps  == {"idle", "send", "spawn", "read", "wait"}
Idle   == [pc |-> "idle", phase |-> "call", proc |-> None, id |-> 0, skips |-> 0]

TypeOK ==
    /\ process \in Procs \cup {None} /\ initialized \in BOOLEAN
    /\ spawned \in 0 .. MaxSpawns /\ alive \subseteq 1 .. spawned
    /\ inbox \in [Procs -> SUBSET (1 .. MaxIds)]
    /\ \A p \in Procs : stdout[p] \in Seq((1 .. MaxIds) \cup {Noise})
    /\ reader \in [Procs -> Callers \cup {None}]
    /\ rpc \in [Callers -> [pc : Steps, phase : Phases, proc : Procs \cup {None},
                            id : 0 .. MaxIds, skips : 0 .. MaxSkips]]
    /\ ids \in 0 .. MaxIds /\ result \subseteq (1 .. MaxIds) \X (1 .. MaxIds)

Init ==
    /\ process = None /\ initialized = FALSE /\ alive = {} /\ spawned = 0
    /\ inbox = [p \in Procs |-> {}] /\ stdout = [p \in Procs |-> <<>>]
    /\ reader = [p \in Procs |-> None] /\ rpc = [c \in Callers |-> Idle]
    /\ ids = 0 /\ result = {}

In(c, pc)    == rpc[c].pc = pc
To(c, state) == rpc' = [rpc EXCEPT ![c] = state]

(***************************************************************************)
(* The client.                                                             *)
(***************************************************************************)
\* _ensure_initialized looks at the flag before the process is looked at.
Begin(c) ==
    /\ In(c, "idle")
    /\ To(c, [Idle EXCEPT !.pc = "send", !.phase = IF initialized THEN "call" ELSE "initialize"])
    /\ UNCHANGED <<process, initialized, server, ids, result>>

\* _rpc writes to p: a request waits for its answer, the notification for nothing.
Write(c, p) ==
    IF rpc[c].phase = "initialized"
    THEN /\ To(c, [rpc[c] EXCEPT !.pc = "send", !.phase = "call", !.proc = p])
         /\ UNCHANGED <<inbox, ids>>
    ELSE /\ ids < MaxIds /\ ids' = ids + 1
         /\ To(c, [rpc[c] EXCEPT !.pc = "read", !.proc = p, !.id = ids + 1, !.skips = 0])
         /\ inbox' = [inbox EXCEPT ![p] = @ \cup {ids + 1}]

Send(c) ==
    /\ In(c, "send") /\ process \in alive
    /\ Write(c, process)
    /\ initialized' = (initialized \/ rpc[c].phase = "initialized")
    /\ UNCHANGED <<process, alive, spawned, stdout, reader, result>>

\* _ensure_process finds no running process; the spawn is awaited.
SpawnStart(c) ==
    /\ In(c, "send") /\ process \notin alive
    /\ To(c, [rpc[c] EXCEPT !.pc = "spawn"])
    /\ UNCHANGED <<process, initialized, server, ids, result>>

\* The new process becomes the client's, whatever was spawned meanwhile, and
\* gets whatever the caller was about to write.
SpawnEnd(c) ==
    /\ In(c, "spawn") /\ spawned < MaxSpawns
    /\ spawned' = spawned + 1
    /\ alive' = alive \cup {spawned + 1}
    /\ process' = spawned + 1
    /\ Write(c, spawned + 1)
    /\ initialized' = (rpc[c].phase = "initialized")
    /\ UNCHANGED <<stdout, reader, result>>

SpawnFails(c) ==
    /\ In(c, "spawn")
    /\ To(c, Idle)
    /\ UNCHANGED <<process, initialized, server, ids, result>>

(***************************************************************************)
(* Reading: one caller at a time may wait in readline.                     *)
(***************************************************************************)
\* Mutant: any answer will do.
Own_Any(c, line) == line # Noise

Own(c, line) == line = rpc[c].id

Taken(c) == stdout' = [stdout EXCEPT ![rpc[c].proc] = Tail(@)]
Line(c)  == Head(stdout[rpc[c].proc])
Lines(c) == stdout[rpc[c].proc] # <<>>

ReadAnswer(c) ==
    /\ In(c, "read") /\ Lines(c) /\ Own(c, Line(c))
    /\ Taken(c)
    /\ IF rpc[c].phase = "initialize"
       THEN /\ To(c, [rpc[c] EXCEPT !.pc = "send", !.phase = "initialized"])
            /\ UNCHANGED result
       ELSE /\ To(c, Idle)
            /\ result' = result \cup {<<rpc[c].id, Line(c)>>}
    /\ UNCHANGED <<process, initialized, alive, spawned, inbox, reader, ids>>

\* Another call's answer is dropped like noise.
ReadOther(c) ==
    /\ In(c, "read") /\ Lines(c) /\ ~Own(c, Line(c))
    /\ Taken(c)
    /\ To(c, IF rpc[c].skips + 1 = MaxSkips THEN Idle ELSE [rpc[c] EXCEPT !.skips = @ + 1])
    /\ UNCHANGED <<process, initialized, alive, spawned, inbox, reader, ids, result>>

Wait(c) ==
    /\ In(c, "read") /\ ~Lines(c) /\ rpc[c].proc \in alive /\ reader[rpc[c].proc] = None
    /\ To(c, [rpc[c] EXCEPT !.pc = "wait"])
    /\ reader' = [reader EXCEPT ![rpc[c].proc] = c]
    /\ UNCHANGED <<process, initialized, alive, spawned, inbox, stdout, ids, result>>

\* The process is gone, or another call is already waiting for its output.
ReadFails(c) ==
    /\ In(c, "read") /\ ~Lines(c)
    /\ rpc[c].proc \notin alive \/ reader[rpc[c].proc] # None
    /\ To(c, Idle)
    /\ UNCHANGED <<process, initialized, server, ids, result>>

\* The answer stays in the pipe for whoever reads next.
Timeout(c) ==
    /\ In(c, "wait")
    /\ To(c, Idle)
    /\ reader' = [reader EXCEPT ![rpc[c].proc] = None]
    /\ UNCHANGED <<process, initialized, alive, spawned, inbox, stdout, ids, result>>

(***************************************************************************)
(* The server.                                                             *)
(***************************************************************************)
Woken(p) ==
    /\ reader' = [reader EXCEPT ![p] = None]
    /\ rpc' = [c \in Callers |-> IF c = reader[p] THEN [rpc[c] EXCEPT !.pc = "read"] ELSE rpc[c]]

Emit(p, line) ==
    /\ p \in alive /\ Len(stdout[p]) < MaxLines
    /\ stdout' = [stdout EXCEPT ![p] = Append(@, line)]
    /\ inbox' = [inbox EXCEPT ![p] = @ \ {line}]
    /\ Woken(p)
    /\ UNCHANGED <<process, initialized, alive, spawned, ids, result>>

Die(p) ==
    /\ p \in alive
    /\ alive' = alive \ {p}
    /\ inbox' = [inbox EXCEPT ![p] = {}]
    /\ Woken(p)
    /\ UNCHANGED <<process, initialized, spawned, stdout, ids, result>>

Next ==
    \/ \E c \in Callers :
          \/ Begin(c) \/ Send(c) \/ SpawnStart(c) \/ SpawnEnd(c) \/ SpawnFails(c)
          \/ ReadAnswer(c) \/ ReadOther(c) \/ Wait(c) \/ ReadFails(c) \/ Timeout(c)
    \/ \E p \in Procs : Die(p) \/ \E line \in inbox[p] \cup {Noise} : Emit(p, line)

Spec == Init /\ [][Next]_vars

(***************************************************************************)
(* Properties.                                                             *)
(***************************************************************************)
\* A call returns the answer to its own request, however late, reordered or
\* interleaved the answers are and whatever timed out or died before.
OwnAnswer == \A r \in result : r[1] = r[2]
=============================================================================

------------------------------ MODULE Companion ------------------------------
(***************************************************************************)
(* The project's one WebSocket (frontend/src/state/useProjectSocket.ts),   *)
(* the Companion pane on it (companion/CompanionPane.tsx), and the turns   *)
(* that answer (ws/__init__.py, harness/loop.py). The shell stays mounted  *)
(* when the researcher switches projects: the hook's effect is run again,  *)
(* and refs and state are those of before.                                 *)
(*                                                                         *)
(* A closed socket's onclose comes later. The socket's events are in       *)
(* order; a message sent is received at once. Speech is in VoicePlayback,  *)
(* tool chips and statuses are left out, and of the transcript only the    *)
(* assistant entries that streamed are kept, each as the turns whose text  *)
(* it holds.                                                               *)
(***************************************************************************)
EXTENDS Naturals, Sequences

CONSTANTS
    Projects,      \* projects
    Home,          \* the one the shell opens with
    MaxSockets,    \* bound: sockets opened
    MaxSends,      \* bound: messages sent
    MaxDrops,      \* bound: connections that drop or fail
    None           \* no turn

VARIABLES
    project,       \* projectId
    effect,        \* runs of the hook's effect: an older run is cancelled
    timer,         \* connectTimer or reconnectTimerRef is set
    sockets,       \* every WebSocket so far, with the events on their way
    ref,           \* wsRef, 0 for null
    connected,     \* the hook's state

    queued,        \* a message waits for the connection
    pane,          \* turnInFlight, the buffer, the entries, turns told complete
    historyLoaded, \* historyLoadedRef
    held,          \* bufferedEventsRef

    slot,          \* _in_flight, by project: the turn and its session's socket
    started,       \* turns so far
    sends, drops,
    leaked         \* a switch left a socket open, wsRef being null

hook == <<project, effect, timer, sockets, ref, connected>>
vars == <<hook, queued, pane, historyLoaded, held, slot, started, sends, drops,
          leaked>>

Turns  == 1 .. MaxSends + 1
Events == [kind : {"delta", "complete", "error", "refused"}, turn : Turns]

TypeOK ==
    /\ project \in Projects /\ effect \in 0 .. MaxSockets
    /\ timer \in BOOLEAN /\ connected \in BOOLEAN /\ queued \in BOOLEAN
    /\ Len(sockets) <= MaxSockets /\ ref \in 0 .. Len(sockets)
    /\ sockets \in Seq([project : Projects, effect : 0 .. MaxSockets,
           state : {"connecting", "open", "evicted", "closing", "closed"},
           wire : Seq(Events)])
    /\ pane \in [inFlight : BOOLEAN, buffer : SUBSET Turns,
                 entries : SUBSET SUBSET Turns, completed : SUBSET Turns]
    /\ historyLoaded \in BOOLEAN /\ held \in Seq(Events)
    /\ slot \in [Projects -> {None} \cup
                 [turn : Turns, socket : 1 .. MaxSockets, pc : {"runs", "streamed", "ended"}]]
    /\ started \in 0 .. MaxSends + 1 /\ sends \in 0 .. MaxSends /\ drops \in 0 .. MaxDrops
    /\ leaked \in BOOLEAN

Init ==
    /\ project = Home /\ effect = 0 /\ timer = TRUE
    /\ sockets = <<>> /\ ref = 0 /\ connected = FALSE
    /\ queued = FALSE
    /\ pane = [inFlight |-> FALSE, buffer |-> {}, entries |-> {}, completed |-> {}]
    /\ historyLoaded = FALSE /\ held = <<>>
    /\ slot = [p \in Projects |-> None]
    /\ started = 0 /\ sends = 0 /\ drops = 0 /\ leaked = FALSE

(***************************************************************************)
(* The pane.                                                               *)
(***************************************************************************)
Flushed(p) ==
    [p EXCEPT !.entries = IF p.buffer = {} THEN @ ELSE @ \cup {p.buffer},
              !.buffer = {}, !.inFlight = FALSE]

\* Mutant: the buffer is kept when its entry is made.
handleDownstream_KeepBuffer(p, e) ==
    CASE e.kind = "delta"    -> [p EXCEPT !.buffer = @ \cup {e.turn}]
      [] e.kind = "complete" -> [Flushed(p) EXCEPT !.buffer = p.buffer,
                                                   !.completed = @ \cup {e.turn}]
      [] e.kind = "error"    -> [p EXCEPT !.inFlight = FALSE]
      [] e.kind = "refused"  -> p

handleDownstream(p, e) ==
    CASE e.kind = "delta"    -> [p EXCEPT !.buffer = @ \cup {e.turn}]
      [] e.kind = "complete" -> [Flushed(p) EXCEPT !.completed = @ \cup {e.turn}]
      [] e.kind = "error"    -> [p EXCEPT !.inFlight = FALSE]
      [] e.kind = "refused"  -> p

\* The events es, one after the other.
Applied(p, es) ==
    LET applied[n \in 0 .. Len(es)] ==
            IF n = 0 THEN p ELSE handleDownstream(applied[n - 1], es[n])
    IN  applied[Len(es)]

\* The hook's listeners take an event of any socket that is open.
Deliver(i) ==
    LET e == Head(sockets[i].wire) IN
    /\ sockets[i].wire # <<>>
    /\ sockets' = [sockets EXCEPT ![i].wire = Tail(@)]
    /\ IF historyLoaded
       THEN pane' = handleDownstream(pane, e) /\ UNCHANGED held
       ELSE held' = Append(held, e) /\ UNCHANGED pane
    /\ UNCHANGED <<project, effect, timer, ref, connected, queued, historyLoaded,
                   slot, started, sends, drops, leaked>>

\* The transcript is read, or cannot be; what came meanwhile is applied now.
loadHistory ==
    /\ ~historyLoaded /\ historyLoaded' = TRUE
    /\ \E entries \in {{}, pane.entries} :
           pane' = Applied([pane EXCEPT !.entries = entries], held)
    /\ held' = <<>>
    /\ UNCHANGED <<hook, queued, slot, started, sends, drops, leaked>>

(***************************************************************************)
(* The backend: a turn holds its project's slot until its trace is written,*)
(* and sends to the socket of the session that started it.                 *)
(***************************************************************************)
Posted(all, i, kind, t) ==
    IF all[i].state = "open"
    THEN [all EXCEPT ![i].wire = Append(@, [kind |-> kind, turn |-> t])]
    ELSE all

\* A message arrives on socket i; all are the sockets as they are then.
handle_message(all, i) ==
    LET p == all[i].project IN
    /\ started' = started + 1
    /\ IF slot[p] = None
       THEN /\ slot' = [slot EXCEPT ![p] = [turn |-> started', socket |-> i, pc |-> "runs"]]
            /\ sockets' = all
       ELSE sockets' = Posted(all, i, "refused", started') /\ UNCHANGED slot

\* What the turn of project p sends.
Sent(all, p, kind) == Posted(all, slot[p].socket, kind, slot[p].turn)

Step(p, from, to, all) ==
    /\ slot[p] # None /\ slot[p].pc \in from
    /\ slot' = [slot EXCEPT ![p].pc = to]
    /\ sockets' = all
    /\ UNCHANGED <<project, effect, timer, ref, connected, queued, pane,
                   historyLoaded, held, started, sends, drops, leaked>>

\* A completion that fails is told as an error, then as the turn's end.
Streams(p)   == Step(p, {"runs"}, "streamed", Sent(sockets, p, "delta"))
Completes(p) == Step(p, {"runs", "streamed"}, "ended", Sent(sockets, p, "complete"))
Fails(p)     == Step(p, {"runs", "streamed"}, "ended",
                     Sent(Sent(sockets, p, "error"), p, "complete"))

\* run_turn's finally: after trace.finish, or where an exception ends the task.
Frees(p) ==
    /\ slot[p] # None
    /\ slot' = [slot EXCEPT ![p] = None]
    /\ UNCHANGED <<hook, queued, pane, historyLoaded, held, started, sends, drops, leaked>>

(***************************************************************************)
(* The hook, and the two effects of the pane on its connected state.       *)
(***************************************************************************)
connect ==
    /\ timer /\ Len(sockets) < MaxSockets
    /\ timer' = FALSE
    /\ sockets' = Append(sockets, [project |-> project, effect |-> effect,
                                   state |-> "connecting", wire |-> <<>>])
    /\ ref' = Len(sockets')
    /\ UNCHANGED <<project, effect, connected, queued, pane, historyLoaded, held,
                   slot, started, sends, drops, leaked>>

\* handle_connect closes the socket that the project had.
Registered(i) ==
    [j \in DOMAIN sockets |->
        IF j = i THEN [sockets[j] EXCEPT !.state = "open"]
        ELSE IF sockets[j].state = "open" /\ sockets[j].project = sockets[i].project
             THEN [sockets[j] EXCEPT !.state = "evicted"]
             ELSE sockets[j]]

\* The queue is flushed where connected becomes true, whether or not it can
\* be sent. A socket of an older effect opens unnoticed.
onopen(i) ==
    LET mine == sockets[i].effect = effect IN
    /\ sockets[i].state = "connecting"
    /\ connected' = (connected \/ mine)
    /\ IF mine /\ queued /\ ~connected
       THEN /\ queued' = FALSE
            /\ pane' = [pane EXCEPT !.inFlight = TRUE]
            /\ IF ref = i
               THEN handle_message(Registered(i), i)
               ELSE sockets' = Registered(i) /\ UNCHANGED <<slot, started>>
       ELSE sockets' = Registered(i) /\ UNCHANGED <<queued, pane, slot, started>>
    /\ UNCHANGED <<project, effect, timer, ref, historyLoaded, held, sends, drops, leaked>>

Closing(i) ==
    \/ /\ sockets[i].state \in {"closing", "evicted"} /\ sockets[i].wire = <<>>
       /\ UNCHANGED drops
    \/ /\ sockets[i].state \in {"connecting", "open"}
       /\ drops < MaxDrops /\ drops' = drops + 1

Closed(i, reconnects) ==
    /\ Closing(i)
    /\ sockets' = [sockets EXCEPT ![i].state = "closed", ![i].wire = <<>>]
    /\ connected' = FALSE /\ ref' = 0
    /\ timer' = (timer \/ reconnects)
    /\ pane' = IF connected /\ pane.inFlight THEN Flushed(pane) ELSE pane
    /\ UNCHANGED <<project, effect, queued, historyLoaded, held, slot, started, sends, leaked>>

\* Mutant: a socket that the cleanup closed reconnects as well.
onclose_Cancelled(i) == Closed(i, TRUE)

onclose(i) == Closed(i, sockets[i].effect = effect)

(***************************************************************************)
(* The researcher.                                                         *)
(***************************************************************************)
\* Cleanup and effect of the hook, and the pane's history effect.
switchProject(p) ==
    /\ p # project /\ effect < MaxSockets - 1
    /\ project' = p /\ effect' = effect + 1 /\ timer' = TRUE /\ ref' = 0
    /\ sockets' = IF ref = 0 THEN sockets
                  ELSE [sockets EXCEPT ![ref].state = "closing", ![ref].wire = <<>>]
    /\ leaked' = (leaked \/ (ref = 0 /\ \E i \in DOMAIN sockets :
                      sockets[i].effect = effect /\ sockets[i].state \in {"connecting", "open"}))
    /\ historyLoaded' = FALSE /\ held' = <<>>
    /\ UNCHANGED <<connected, queued, pane, slot, started, sends, drops>>

sendMessage ==
    /\ sends < MaxSends /\ sends' = sends + 1
    /\ IF ref # 0 /\ sockets[ref].state = "open"
       THEN /\ handle_message(sockets, ref)
            /\ pane' = [pane EXCEPT !.inFlight = TRUE]
            /\ UNCHANGED queued
       ELSE queued' = TRUE /\ UNCHANGED <<sockets, slot, started, pane>>
    /\ UNCHANGED <<project, effect, timer, ref, connected, historyLoaded, held, drops, leaked>>

Next ==
    \/ connect
    \/ \E i \in DOMAIN sockets : onopen(i) \/ onclose(i) \/ Deliver(i)
    \/ \E p \in Projects : Streams(p) \/ Completes(p) \/ Fails(p) \/ Frees(p)
    \/ \E p \in Projects : switchProject(p)
    \/ sendMessage \/ loadHistory

Spec == Init /\ [][Next]_vars

-----------------------------------------------------------------------------
\* The hook never has two connections of its own under way (a second one
\* would evict the first): through drops, switches and closes that come late,
\* one socket or one timer belongs to the effect that runs.
OneSocket ==
    LET mine == {i \in DOMAIN sockets :
                     sockets[i].effect = effect /\ sockets[i].state # "closed"} IN
    (\A i, j \in mine : i = j) /\ (timer => mine = {})

\* While every switch found its socket, no entry of the transcript joins two
\* answers that the pane was told are complete, through refusals, drops,
\* switches and events that wait for the history. (The text of a turn whose
\* end never came does stay in the buffer, and stands before the next answer.)
EntriesApart ==
    ~leaked => \A entry \in pane.entries : \A t, u \in entry \cap pane.completed : t = u

PaneConsistent == OneSocket /\ EntriesApart

\* "Flush a message queued while disconnected as soon as the shared socket
\* reports connected" (CompanionPane.tsx): with the project's socket open and
\* none under way, no message waits.
QueueFlushed ==
    (/\ \A i \in DOMAIN sockets : sockets[i].state \in {"open", "closed"}
     /\ \E i \in DOMAIN sockets : sockets[i].state = "open" /\ sockets[i].effect = effect)
    => ~queued
=============================================================================

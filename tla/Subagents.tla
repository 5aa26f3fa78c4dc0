----------------------------- MODULE Subagents -----------------------------
(***************************************************************************)
(* deep_research: a tool call of a turn that runs a loop of its own in a    *)
(* task of its own (run_subagent), whose tools are queries; deep_research   *)
(* is a query as well, so a loop may start the next one.  run_subagent at   *)
(* level d runs in task d - 1 and starts task d; task 0 is the dispatch of  *)
(* the turn, which waits for it, for Stop or for its 60 seconds.            *)
(*                                                                         *)
(* run_subagent waits for the same Stop and for 120 seconds.  The turn's    *)
(* timer is the shorter and its waiter the first in line, so what reaches   *)
(* run_subagent is always the turn's cancellation, and never the branches   *)
(* it has for the two.  Several tool calls of one completion are one.       *)
(***************************************************************************)
EXTENDS Naturals

CONSTANTS
    MaxDepth,      \* bound of the model: how many loops are nested
    MaxIterations  \* spec.max_iterations

VARIABLES
    parent,    \* the turn's _dispatch_tool_bounded
    agent,     \* per level, where run_subagent stands
    task,      \* per task, its loop, or how it ended
    rounds,    \* the completions of the loop
    trace,     \* the turn_traces row of the level
    cancelled  \* the tasks with a CancelledError on its way

vars == <<parent, agent, task, rounds, trace, cancelled>>

Levels == 1..MaxDepth
Ended == {"result", "exception", "cancelled"}

TypeOK ==
    /\ parent \in {"idle", "waiting", "stopping", "returned", "interrupted",
                   "raised"}
    /\ agent \in [Levels -> {"none", "looking", "tracing", "racing",
                             "gathering", "unwinding", "finishing"}]
    /\ task \in [0..MaxDepth -> {"none", "completing", "calling", "nested"}
                                \cup Ended]
    /\ rounds \in [0..MaxDepth -> 0..MaxIterations]
    /\ trace \in [Levels -> {"none", "running", "complete", "failed"}]
    /\ cancelled \subseteq 0..MaxDepth

Init ==
    /\ parent = "idle"
    /\ agent = [d \in Levels |-> "none"]
    /\ task = [t \in 0..MaxDepth |-> "none"]
    /\ rounds = [t \in 0..MaxDepth |-> 0]
    /\ trace = [d \in Levels |-> "none"]
    /\ cancelled = {}

----------------------------------------------------------------------------

\* A tool's result is in the context: the next completion, unless it was the last.
AfterCall(t) ==
    IF t = 0 \/ rounds[t] = MaxIterations THEN "result" ELSE "completing"

\* run_subagent leaves: task d - 1 goes on with what it returned, or ends of
\* what it raised.
Leave(d, how) ==
    /\ agent' = [agent EXCEPT ![d] = "none"]
    /\ task' = [task EXCEPT ![d - 1] =
                    IF how = "result" THEN AfterCall(d - 1) ELSE how]

\* The task at level d is created, and its completion is asked for.
Race(d) ==
    /\ agent' = [agent EXCEPT ![d] = "racing"]
    /\ task' = [task EXCEPT ![d] = "completing"]
    /\ rounds' = [rounds EXCEPT ![d] = 0]

Dispatch ==
    /\ parent = "idle"
    /\ parent' = "waiting"
    /\ task' = [task EXCEPT ![0] = "nested"]
    /\ agent' = [agent EXCEPT ![1] = "looking"]
    /\ UNCHANGED <<rounds, trace, cancelled>>

\* What is found of the row of the turn above: the turn's own may be gone with
\* its conversation.
Parents(d) == IF d = 1 THEN BOOLEAN ELSE {trace[d - 1] # "none"}

\* The row of the turn above, for its conversation; without one, no row.
Look(d) ==
    /\ agent[d] = "looking" /\ d - 1 \notin cancelled
    /\ \/ /\ TRUE \in Parents(d)
          /\ agent' = [agent EXCEPT ![d] = "tracing"]
          /\ UNCHANGED <<task, rounds>>
       \/ FALSE \in Parents(d) /\ Race(d)
       \/ Leave(d, "exception") /\ UNCHANGED rounds
    /\ UNCHANGED <<parent, trace, cancelled>>

\* trace.start commits the row, or raises.
Start(d) ==
    /\ agent[d] = "tracing" /\ d - 1 \notin cancelled
    /\ \/ trace' = [trace EXCEPT ![d] = "running"] /\ Race(d)
       \/ Leave(d, "exception") /\ UNCHANGED <<trace, rounds>>
    /\ UNCHANGED <<parent, cancelled>>

\* A completion ends: with an answer (or an LLMError, reported as one), or with
\* tool calls; anything else it raises ends the task.
Complete(d) ==
    /\ task[d] = "completing" /\ d \notin cancelled
    /\ rounds' = [rounds EXCEPT ![d] = @ + 1]
    /\ \E next \in {"result", "exception", "calling"} :
           task' = [task EXCEPT ![d] = next]
    /\ UNCHANGED <<parent, agent, trace, cancelled>>

\* A query answers, a tool of another kind is refused, or the handler raises.
Call(d) ==
    /\ task[d] = "calling" /\ d \notin cancelled
    /\ \E next \in {AfterCall(d), "exception"} :
           task' = [task EXCEPT ![d] = next]
    /\ UNCHANGED <<parent, agent, rounds, trace, cancelled>>

\* The model called deep_research, which spec.tools does not name: only the
\* kind is looked at again.
Nest(d) ==
    /\ task[d] = "calling" /\ d \notin cancelled /\ d < MaxDepth
    /\ task' = [task EXCEPT ![d] = "nested"]
    /\ agent' = [agent EXCEPT ![d + 1] = "looking"]
    /\ trace' = [trace EXCEPT ![d + 1] = "none"]
    /\ UNCHANGED <<parent, rounds, cancelled>>

\* The task is done first; the finally cancels the waiter and gathers both.
Done(d) ==
    /\ agent[d] = "racing" /\ task[d] \in Ended /\ d - 1 \notin cancelled
    /\ agent' = [agent EXCEPT ![d] = "gathering"]
    /\ UNCHANGED <<parent, task, rounds, trace, cancelled>>

\* The gather returns: the result is kept for the trace, or without a row it is
\* returned.
Gathered(d) ==
    /\ agent[d] = "gathering" /\ d - 1 \notin cancelled
    /\ IF trace[d] = "none"
       THEN Leave(d, "result")
       ELSE agent' = [agent EXCEPT ![d] = "finishing"] /\ UNCHANGED task
    /\ UNCHANGED <<parent, rounds, trace, cancelled>>

\* trace.finish, and the return.
Finish(d) ==
    /\ agent[d] = "finishing" /\ d - 1 \notin cancelled
    /\ \/ /\ trace' = [trace EXCEPT ![d] =
                           IF task[d] = "result" THEN "complete" ELSE "failed"]
          /\ Leave(d, "result")
       \/ Leave(d, "exception") /\ UNCHANGED trace
    /\ UNCHANGED <<parent, rounds, cancelled>>

----------------------------------------------------------------------------

\* A CancelledError in the loop's own await.
CancelLoop(d) ==
    /\ d \in cancelled /\ task[d] \in {"completing", "calling"}
    /\ task' = [task EXCEPT ![d] = "cancelled"]
    /\ cancelled' = cancelled \ {d}
    /\ UNCHANGED <<parent, agent, rounds, trace>>

\* In one of run_subagent's sessions: its transaction is rolled back, unless
\* the COMMIT had been sent.
CancelSession(d) ==
    /\ d - 1 \in cancelled
    /\ \/ agent[d] = "looking" /\ UNCHANGED trace
       \/ /\ agent[d] = "tracing"
          /\ \E row \in {"none", "running"} : trace' = [trace EXCEPT ![d] = row]
       \/ /\ agent[d] = "finishing"
          /\ \E row \in {"running",
                         IF task[d] = "result" THEN "complete" ELSE "failed"} :
                 trace' = [trace EXCEPT ![d] = row]
    /\ Leave(d, "cancelled")
    /\ cancelled' = cancelled \ {d - 1}
    /\ UNCHANGED <<parent, rounds>>

\* Mutant: the finally waits for the task without cancelling it, or goes.
CancelRace_Leaves(d) ==
    /\ d - 1 \in cancelled
    /\ agent[d] \in {"racing", "gathering"}
    /\ Leave(d, "cancelled")
    /\ cancelled' = cancelled \ {d - 1}
    /\ UNCHANGED <<parent, rounds, trace>>

\* In run_subagent's wait or gather: the finally cancels the task that is not
\* done, and waits for it.
CancelRace(d) ==
    /\ d - 1 \in cancelled
    /\ agent[d] \in {"racing", "gathering"}
    /\ agent' = [agent EXCEPT ![d] = "unwinding"]
    /\ cancelled' = (cancelled \ {d - 1}) \cup {t \in {d} : task[t] \notin Ended}
    /\ UNCHANGED <<parent, task, rounds, trace>>

\* Its task is over: the CancelledError goes on, past trace.finish.
Unwound(d) ==
    /\ agent[d] = "unwinding" /\ task[d] \in Ended
    /\ Leave(d, "cancelled")
    /\ UNCHANGED <<parent, rounds, trace, cancelled>>

\* Stop, or the 60 seconds: the turn cancels the dispatch and waits for it.
Stop ==
    /\ parent = "waiting" /\ task[0] \notin Ended
    /\ parent' = "stopping"
    /\ cancelled' = cancelled \cup {0}
    /\ UNCHANGED <<agent, task, rounds, trace>>

\* The dispatch is over, and with it the tool call.
Return ==
    /\ parent \in {"waiting", "stopping"} /\ task[0] \in Ended
    /\ parent' = IF parent = "stopping" THEN "interrupted"
                 ELSE IF task[0] = "result" THEN "returned" ELSE "raised"
    /\ UNCHANGED <<agent, task, rounds, trace, cancelled>>

Next ==
    \/ Dispatch
    \/ \E d \in Levels :
           \/ Look(d)
           \/ Start(d)
           \/ Complete(d)
           \/ Call(d)
           \/ Nest(d)
           \/ Done(d)
           \/ Gathered(d)
           \/ Finish(d)
           \/ CancelLoop(d)
           \/ CancelSession(d)
           \/ CancelRace(d)
           \/ Unwound(d)
    \/ Stop
    \/ Return

Spec == Init /\ [][Next]_vars

\* A tool call that has ended leaves nothing of its subagents running, however
\* deep and wherever Stop met them; a row that says how a run ended speaks of a
\* loop that has; and after a subagent that returned, its row says so.
Joined ==
    /\ parent \in {"idle", "returned", "interrupted", "raised"} =>
           \A d \in Levels :
               agent[d] = "none" /\ task[d] \in Ended \cup {"none"}
    /\ \A d \in Levels :
           trace[d] \in {"complete", "failed"} =>
               agent[d] = "none" /\ task[d] \in Ended
    /\ parent = "returned" => trace[1] # "running"
=============================================================================

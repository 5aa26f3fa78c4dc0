------------------------------ MODULE AgentTurn ------------------------------
(***************************************************************************)
(* The agent's turns in one conversation: Session Transport (backend/ws),  *)
(* the tool-calling loop (backend/harness/loop.py) with its in-flight      *)
(* slot, approval gate and trace, the transcript both write to, and the    *)
(* sweep that closes orphaned turns whenever a socket connects             *)
(* (backend/harness/resume.py).                                            *)
(*                                                                         *)
(* A transcript row is its turn, its role and who wrote it; its seq is its *)
(* place.  A transaction that adds rows reads the last seq first (base)    *)
(* and fails on the UNIQUE key when another one committed in between.      *)
(***************************************************************************)
EXTENDS Naturals, Sequences

CONSTANTS
    Turns,           \* user messages that begin_turn accepts
    Conns,           \* WebSocket connects of the project
    Texts,           \* texts a user sends
    MaxIterations,   \* _MAX_ITERATIONS
    MaxCalls,        \* bound: tool calls of one turn
    BroadcastFaults, \* may ws.broadcast raise something else than RuntimeError?
    MayCrash,        \* may the sidecar die?
    None             \* absence of a turn, a connection, a text

ASSUME AgentTurnAssumption ==
    /\ MaxIterations \in Nat \ {0} /\ MaxCalls \in Nat
    /\ BroadcastFaults \in BOOLEAN /\ MayCrash \in BOOLEAN
    /\ None \notin Turns \cup Conns \cup Texts

VARIABLES
    conn,       \* each handle_connect call and the receive loop after it
    session,    \* _sessions[project_id]
    slot,       \* _in_flight[key]: the turn that reserved it
    turn,       \* each _run_turn task
    transcript, \* messages rows in seq order
    trace,      \* turn_traces.status
    prompts,    \* approval requests that reached a screen
    yes,        \* those a human approved
    acted,      \* confirm-tier calls that acted outside their transaction
    up          \* is the sidecar process serving?

transport == <<conn, session>>
rows      == <<transcript, trace>>
consent   == <<prompts, yes, acted>>
vars      == <<conn, session, slot, turn, transcript, trace, prompts, yes, acted, up>>

Calls == Turns \X (1 .. MaxCalls)
Rows  == [turn : Turns, role : {"user", "assistant", "tool_call", "tool_result"},
          by : {"turn", "sweep"}]
Outcomes == {"complete", "interrupted", "failed"}

ActiveStates == {"reserved", "posting", "tracing", "looping", "streaming",
                 "parsed", "announced", "asking", "opening", "calling",
                 "recording", "answering", "saving", "finishing", "unwinding"}
TurnStates == ActiveStates \cup {"absent", "folded", "done", "dead", "lost"}
ConnStates == {"idle", "evicting", "listing", "resolving", "closing", "saving",
               "marking", "open", "closed"}

TurnRecords == [pc : TurnStates, conn : Conns \cup {None}, text : Texts \cup {None},
                cancel : BOOLEAN, stopped : BOOLEAN,
                iter : 0 .. MaxIterations, call : 0 .. MaxCalls,
                tier : {"auto", "confirm"},
                future : {"none", "pending", "yes", "no"}, ok : BOOLEAN,
                base : Nat, how : Outcomes]
ConnRecords == [pc : ConnStates, old : Conns \cup {None}, shut : BOOLEAN,
                todo : SUBSET Turns, cur : Turns \cup {None}, base : Nat,
                orphans : SUBSET Turns, swept : BOOLEAN]

\* Every variable has its type.
TypeOK ==
    /\ conn \in [Conns -> ConnRecords]
    /\ session \in Conns \cup {None}
    /\ slot \in Turns \cup {None}
    /\ turn \in [Turns -> TurnRecords]
    /\ transcript \in Seq(Rows)
    /\ trace \in [Turns -> Outcomes \cup {"none", "running"}]
    /\ yes \subseteq prompts /\ prompts \subseteq Calls /\ acted \subseteq Calls
    /\ up \in BOOLEAN

\* A task's frame and a connection's, before they run and when they are over.
NoTurn(pc, x) ==
    [pc |-> pc, conn |-> None, text |-> x, cancel |-> FALSE, stopped |-> FALSE,
     iter |-> 0, call |-> 0, tier |-> "auto", future |-> "none", ok |-> FALSE,
     base |-> 0, how |-> "complete"]
NoConn(pc) ==
    [pc |-> pc, old |-> None, shut |-> FALSE, todo |-> {}, cur |-> None, base |-> 0,
     orphans |-> {}, swept |-> FALSE]

Init ==
    /\ conn = [c \in Conns |-> NoConn("idle")]
    /\ session = None
    /\ slot = None
    /\ turn = [t \in Turns |-> NoTurn("absent", None)]
    /\ transcript = <<>>
    /\ trace = [t \in Turns |-> "none"]
    /\ prompts = {} /\ yes = {} /\ acted = {}
    /\ up = TRUE

Row(t, role, by) == [turn |-> t, role |-> role, by |-> by]
RowsOf(t)     == {i \in DOMAIN transcript : transcript[i].turn = t}
Answered(t)   == \E i \in RowsOf(t) : transcript[i].role = "assistant"
InPc(t, pc)   == up /\ turn[t].pc = pc
ConnPc(c, pc) == up /\ conn[c].pc = pc

\* A transaction's rows go in if no other has taken their seq meanwhile.
Unmoved(base) == Len(transcript) = base

\* The finally of run_turn: the slot is popped, by key.
Leave(t, pc) ==
    /\ turn' = [turn EXCEPT ![t] = NoTurn(pc, @.text)]
    /\ slot' = None

-----------------------------------------------------------------------------
(* Session Transport: connecting, evicting, leaving.                        *)

\* handle_connect up to its first close: the newcomer is registered at once.
Accept(c) ==
    /\ ConnPc(c, "idle")
    /\ conn' = [conn EXCEPT ![c] = [@ EXCEPT !.pc = "evicting", !.old = session]]
    /\ session' = c
    /\ UNCHANGED <<slot, turn, rows, consent, up>>

\* _close_evicted: no message of the old socket is read any more.
CloseEvicted(c) ==
    /\ ConnPc(c, "evicting")
    /\ conn' = [d \in Conns |->
                 IF d = c THEN [conn[c] EXCEPT !.pc = "listing"]
                 ELSE IF d = conn[c].old THEN [conn[d] EXCEPT !.shut = TRUE] ELSE conn[d]]
    /\ UNCHANGED <<session, slot, turn, rows, consent, up>>

Listening(c) == ConnPc(c, "open") /\ ~ conn[c].shut

\* Mutant: the bare pop.
LeaveSession_BarePop(c) ==
    /\ ConnPc(c, "open")
    /\ conn' = [conn EXCEPT ![c] = NoConn("closed")]
    /\ session' = None
    /\ UNCHANGED <<slot, turn, rows, consent, up>>

\* The receive loop ends, its client gone or its socket closed: the registry
\* entry goes only if it is still this session's.
LeaveSession(c) ==
    /\ ConnPc(c, "open")
    /\ conn' = [conn EXCEPT ![c] = NoConn("closed")]
    /\ session' = IF session = c THEN None ELSE session
    /\ UNCHANGED <<slot, turn, rows, consent, up>>

\* Mutant: the slot is left for the task to reserve.
UserMessage_NoReserve(c, t, x) ==
    /\ Listening(c)
    /\ slot = None
    /\ turn[t].pc = "absent"
    /\ turn' = [turn EXCEPT ![t] = [@ EXCEPT !.pc = "reserved", !.conn = c, !.text = x]]
    /\ UNCHANGED <<slot, transport, rows, consent, up>>

\* begin_turn reserves the slot before the task is scheduled; with a turn in
\* flight the message is refused and nothing changes.
UserMessage(c, t, x) ==
    /\ Listening(c)
    /\ slot = None
    /\ turn[t].pc = "absent"
    /\ slot' = t
    /\ turn' = [turn EXCEPT ![t] = [@ EXCEPT !.pc = "reserved", !.conn = c, !.text = x]]
    /\ UNCHANGED <<transport, rows, consent, up>>

\* harness.interrupt: the flag of whatever turn holds the slot.  (stopped
\* remembers that it was raised before the request at hand had its answer.)
Interrupt(c) ==
    /\ Listening(c)
    /\ slot # None
    /\ ~ turn[slot].cancel
    /\ turn' = [turn EXCEPT ![slot].cancel = TRUE,
                            ![slot].stopped = @ \/ turn[slot].future = "pending"]
    /\ UNCHANGED <<slot, transport, rows, consent, up>>

\* approval.resolve: only a pending future takes the answer; an answer to a
\* request that is over, or not registered yet, is dropped.
Respond(c, t, n, approved) ==
    /\ Listening(c)
    /\ <<t, n>> \in prompts
    /\ yes' = IF approved THEN yes \cup {<<t, n>>} ELSE yes
    /\ turn' = IF turn[t].call = n /\ turn[t].future = "pending"
               THEN [turn EXCEPT ![t].future = IF approved THEN "yes" ELSE "no"]
               ELSE turn
    /\ UNCHANGED <<slot, transport, rows, prompts, acted, up>>

-----------------------------------------------------------------------------
(* run_turn: the user row and the trace.                                    *)

\* _duplicate_turn_id, the age of the row left open: the last row is a user
\* row of this text, no more than five seconds old.
FoldDuplicate(t) ==
    /\ InPc(t, "reserved")
    /\ transcript # <<>>
    /\ LET last == transcript[Len(transcript)]
       IN  last.role = "user" /\ turn[last.turn].text = turn[t].text
    /\ Leave(t, "folded")
    /\ UNCHANGED <<transport, rows, consent, up>>

\* Otherwise a new turn: _next_seq, then the evidence is read.
ReadSeq(t) ==
    /\ InPc(t, "reserved")
    /\ turn' = [turn EXCEPT ![t] = [@ EXCEPT !.pc = "posting", !.base = Len(transcript)]]
    /\ UNCHANGED <<slot, transport, rows, consent, up>>

PostUser(t) ==
    /\ InPc(t, "posting")
    /\ Unmoved(turn[t].base)
    /\ transcript' = Append(transcript, Row(t, "user", "turn"))
    /\ turn' = [turn EXCEPT ![t].pc = "tracing"]
    /\ UNCHANGED <<slot, transport, trace, consent, up>>

StartTrace(t) ==
    /\ InPc(t, "tracing")
    /\ trace' = [trace EXCEPT ![t] = "running"]
    /\ turn' = [turn EXCEPT ![t].pc = "looping"]
    /\ UNCHANGED <<slot, transport, transcript, consent, up>>

-----------------------------------------------------------------------------
(* The loop: one completion, then its tool calls.                           *)

\* Mutant: the cap is one off.
BeginIteration_OneMore(t) ==
    /\ InPc(t, "looping")
    /\ turn[t].iter <= MaxIterations
    /\ turn' = [turn EXCEPT ![t] = [@ EXCEPT !.pc = "streaming",
                                            !.iter = turn[t].iter + 1]]
    /\ UNCHANGED <<slot, transport, rows, consent, up>>

BeginIteration(t) ==
    /\ InPc(t, "looping")
    /\ turn[t].iter < MaxIterations
    /\ turn' = [turn EXCEPT ![t] = [@ EXCEPT !.pc = "streaming",
                                            !.iter = turn[t].iter + 1]]
    /\ UNCHANGED <<slot, transport, rows, consent, up>>

\* The iteration cap or the wall clock: a graceful stop, with an answer.
GiveUp(t) ==
    /\ InPc(t, "looping")
    /\ turn' = [turn EXCEPT ![t] = [@ EXCEPT !.pc = "answering", !.how = "complete"]]
    /\ UNCHANGED <<slot, transport, rows, consent, up>>

\* The stream ends without a tool call, or the flag is seen at a chunk.
StreamAnswers(t) ==
    /\ InPc(t, "streaming")
    /\ \E how \in {"complete"} \cup (IF turn[t].cancel THEN {"interrupted"} ELSE {}) :
          turn' = [turn EXCEPT ![t] = [@ EXCEPT !.pc = "answering", !.how = how]]
    /\ UNCHANGED <<slot, transport, rows, consent, up>>

\* A flag raised after the last chunk does not stop the calls.
StreamCalls(t, tier) ==
    /\ InPc(t, "streaming")
    /\ turn[t].call < MaxCalls
    /\ turn' = [turn EXCEPT ![t] = [@ EXCEPT !.pc = "parsed", !.call = turn[t].call + 1,
                                            !.stopped = FALSE, !.tier = tier]]
    /\ UNCHANGED <<slot, transport, rows, consent, up>>

\* LLMError or no provider: an error event, no assistant row.
StreamFails(t) ==
    /\ InPc(t, "streaming")
    /\ turn' = [turn EXCEPT ![t] = [@ EXCEPT !.pc = "finishing", !.how = "failed"]]
    /\ UNCHANGED <<slot, transport, rows, consent, up>>

\* A confirm-tier call: the request goes out before it is registered.
AnnounceRequest(t) ==
    /\ InPc(t, "parsed")
    /\ turn[t].tier = "confirm"
    /\ turn' = [turn EXCEPT ![t].pc = "announced"]
    /\ prompts' = IF Listening(turn[t].conn)
                  THEN prompts \cup {<<t, turn[t].call>>} ELSE prompts
    /\ UNCHANGED <<slot, transport, rows, yes, acted, up>>

RegisterRequest(t) ==
    /\ InPc(t, "announced")
    /\ turn' = [turn EXCEPT ![t] = [@ EXCEPT !.pc = "asking", !.future = "pending",
                                            !.stopped = turn[t].cancel]]
    /\ UNCHANGED <<slot, transport, rows, consent, up>>

\* _await_approval: a flag raised first wins over the answer, the answer over
\* the timeout; a flag raised behind the answer may come a moment too late.
AskAnswered(t) ==
    /\ InPc(t, "asking")
    /\ turn[t].future \in {"yes", "no"} /\ ~ turn[t].stopped
    /\ turn' = [turn EXCEPT ![t] = [@ EXCEPT !.pc = "opening", !.future = "none",
                                            !.ok = turn[t].future = "yes"]]
    /\ UNCHANGED <<slot, transport, rows, consent, up>>

\* Mutant: the answer to a timeout is the default outcome, "approved".
AskTimesOut_Approved(t) ==
    /\ InPc(t, "asking")
    /\ turn[t].future = "pending"
    /\ turn' = [turn EXCEPT ![t] = [@ EXCEPT !.pc = "opening", !.future = "none",
                                            !.ok = TRUE]]
    /\ UNCHANGED <<slot, transport, rows, consent, up>>

\* Mutant: no timeout in the wait.
AskTimesOut_Never(t) == FALSE /\ UNCHANGED vars

AskTimesOut(t) ==
    /\ InPc(t, "asking")
    /\ turn[t].future = "pending"
    /\ turn' = [turn EXCEPT ![t] = [@ EXCEPT !.pc = "opening", !.future = "none",
                                            !.ok = FALSE]]
    /\ UNCHANGED <<slot, transport, rows, consent, up>>

\* Mutant: the tool_call row has a transaction of its own.
OpenCall_CommitsRow(t) ==
    /\ InPc(t, "opening") \/ (InPc(t, "parsed") /\ turn[t].tier = "auto")
    /\ transcript' = Append(transcript, Row(t, "tool_call", "turn"))
    /\ turn' = [turn EXCEPT ![t] =
                 [@ EXCEPT !.pc = IF turn[t].tier = "auto" \/ turn[t].ok
                                  THEN "calling" ELSE "recording",
                           !.base = Len(transcript) + 1]]
    /\ UNCHANGED <<slot, transport, trace, consent, up>>

\* The call's transaction begins with _next_seq; nothing is dispatched for a
\* request that was denied or timed out.
OpenCall(t) ==
    /\ InPc(t, "opening") \/ (InPc(t, "parsed") /\ turn[t].tier = "auto")
    /\ turn' = [turn EXCEPT ![t] =
                 [@ EXCEPT !.pc = IF turn[t].tier = "auto" \/ turn[t].ok
                                  THEN "calling" ELSE "recording",
                           !.base = Len(transcript)]]
    /\ UNCHANGED <<slot, transport, rows, consent, up>>

\* The handler enqueues its job: this part no rollback undoes.
ToolActs(t) ==
    /\ InPc(t, "calling")
    /\ turn[t].tier = "confirm"
    /\ <<t, turn[t].call>> \notin acted
    /\ acted' = acted \cup {<<t, turn[t].call>>}
    /\ UNCHANGED <<slot, turn, transport, rows, prompts, yes, up>>

CallReturns(t) ==
    /\ InPc(t, "calling")
    /\ turn' = [turn EXCEPT ![t].pc = "recording"]
    /\ UNCHANGED <<slot, transport, rows, consent, up>>

\* The flag ends a wait for approval, or a dispatch that is not done: the
\* transaction is rolled back, no assistant row follows.
CallInterrupted(t) ==
    /\ InPc(t, "asking") \/ InPc(t, "calling")
    /\ turn[t].cancel
    /\ turn' = [turn EXCEPT ![t] = [@ EXCEPT !.pc = "finishing", !.future = "none",
                                            !.how = "interrupted"]]
    /\ UNCHANGED <<slot, transport, rows, consent, up>>

CallTimesOut(t) ==
    /\ InPc(t, "calling")
    /\ ~ turn[t].cancel
    /\ turn' = [turn EXCEPT ![t] = [@ EXCEPT !.pc = "finishing", !.how = "failed"]]
    /\ UNCHANGED <<slot, transport, rows, consent, up>>

\* A handler's own exception is caught nowhere in run_turn.
CallRaises(t) ==
    /\ InPc(t, "calling")
    /\ Leave(t, "dead")
    /\ UNCHANGED <<transport, rows, consent, up>>

\* Both rows at once; then the next call of this completion, or the next
\* iteration.
RecordCall(t) ==
    /\ InPc(t, "recording")
    /\ Unmoved(turn[t].base)
    /\ transcript' = transcript \o <<Row(t, "tool_call", "turn"), Row(t, "tool_result", "turn")>>
    /\ \/ turn' = [turn EXCEPT ![t].pc = "looping"]
       \/ /\ turn[t].call < MaxCalls
          /\ \E tier \in {"auto", "confirm"} :
                turn' = [turn EXCEPT ![t] = [@ EXCEPT !.pc = "parsed",
                                                     !.call = turn[t].call + 1,
                                                     !.stopped = FALSE, !.tier = tier]]
    /\ UNCHANGED <<slot, transport, trace, consent, up>>

-----------------------------------------------------------------------------
(* The answer and the end of the turn.                                      *)

ReadAnswerSeq(t) ==
    /\ InPc(t, "answering")
    /\ turn' = [turn EXCEPT ![t] = [@ EXCEPT !.pc = "saving", !.base = Len(transcript)]]
    /\ UNCHANGED <<slot, transport, rows, consent, up>>

SaveAnswer(t) ==
    /\ InPc(t, "saving")
    /\ Unmoved(turn[t].base)
    /\ transcript' = Append(transcript, Row(t, "assistant", "turn"))
    /\ turn' = [turn EXCEPT ![t].pc = "finishing"]
    /\ UNCHANGED <<slot, transport, trace, consent, up>>

\* Mutant: the failed end keeps the slot.
FinishTurn_KeepsSlot(t) ==
    /\ InPc(t, "finishing")
    /\ trace' = [trace EXCEPT ![t] = turn[t].how]
    /\ turn' = [turn EXCEPT ![t] = NoTurn("done", @.text)]
    /\ slot' = IF turn[t].how = "failed" THEN slot ELSE None
    /\ UNCHANGED <<transport, transcript, consent, up>>

\* trace.finish, whatever the row says by now, and the finally.
FinishTurn(t) ==
    /\ InPc(t, "finishing")
    /\ trace' = [trace EXCEPT ![t] = turn[t].how]
    /\ Leave(t, "done")
    /\ UNCHANGED <<transport, transcript, consent, up>>

\* Mutant: the IntegrityError is swallowed.
SeqTaken_Swallowed(t) ==
    /\ InPc(t, "posting") \/ InPc(t, "recording") \/ InPc(t, "saving")
    /\ ~ Unmoved(turn[t].base)
    /\ turn' = [turn EXCEPT ![t].pc = "finishing"]
    /\ UNCHANGED <<slot, transport, rows, consent, up>>

\* IntegrityError on (conversation_id, seq): the task ends, its trace runs on.
SeqTaken(t) ==
    /\ InPc(t, "posting") \/ InPc(t, "recording") \/ InPc(t, "saving")
    /\ ~ Unmoved(turn[t].base)
    /\ Leave(t, "dead")
    /\ UNCHANGED <<transport, rows, consent, up>>

\* A broadcast raises past "except RuntimeError": _run_turn is over, and the
\* suspended generator is closed by the event loop a little later.
BroadcastRaises(t) ==
    /\ BroadcastFaults
    /\ up /\ turn[t].pc \in {"looping", "streaming", "parsed", "announced", "answering",
                            "finishing"}
    /\ turn' = [turn EXCEPT ![t].pc = "unwinding"]
    /\ UNCHANGED <<slot, transport, rows, consent, up>>

CloseGenerator(t) ==
    /\ InPc(t, "unwinding")
    /\ Leave(t, "dead")
    /\ UNCHANGED <<transport, rows, consent, up>>

-----------------------------------------------------------------------------
(* sweep_orphans, awaited by handle_connect.                                *)

\* Mutant: only turns that got as far as a tool call are looked for.
Orphans_WithCalls ==
    {t \in Turns : /\ trace[t] = "running" /\ ~ Answered(t)
                   /\ \E i \in RowsOf(t) : transcript[i].role = "tool_call"}

Orphans == {t \in Turns : trace[t] = "running" /\ ~ Answered(t)}

\* (orphans remembers which of them no task works on any more.)
ListOrphans(c) ==
    /\ ConnPc(c, "listing")
    /\ conn' = [conn EXCEPT ![c] =
                 [@ EXCEPT !.pc = "resolving", !.todo = Orphans,
                           !.orphans = {t \in Turns : /\ turn[t].pc \in {"dead", "lost"}
                                                     /\ trace[t] = "running"
                                                     /\ ~ Answered(t)}]]
    /\ UNCHANGED <<session, slot, turn, rows, consent, up>>

\* _resolve_orphan: passed over if its trace has ended since.  A call without
\* a result never shows in the transcript (ToolRowsPaired), so nothing is
\* dispatched again and the turn is closed.
PickOrphan(c, t) ==
    /\ ConnPc(c, "resolving")
    /\ t \in conn[c].todo
    /\ conn' = IF trace[t] = "running"
               THEN [conn EXCEPT ![c].todo = @ \ {t}, ![c].cur = t, ![c].pc = "closing"]
               ELSE [conn EXCEPT ![c].todo = @ \ {t}]
    /\ UNCHANGED <<session, slot, turn, rows, consent, up>>

ReadCloseSeq(c) ==
    /\ ConnPc(c, "closing")
    /\ conn' = [conn EXCEPT ![c] = [@ EXCEPT !.pc = "saving", !.base = Len(transcript)]]
    /\ UNCHANGED <<session, slot, turn, rows, consent, up>>

SaveClosing(c) ==
    /\ ConnPc(c, "saving")
    /\ Unmoved(conn[c].base)
    /\ transcript' = Append(transcript, Row(conn[c].cur, "assistant", "sweep"))
    /\ conn' = [conn EXCEPT ![c].pc = "marking"]
    /\ UNCHANGED <<session, slot, turn, trace, consent, up>>

\* trace.finish again: whatever the status is by now, it becomes interrupted.
MarkInterrupted(c) ==
    /\ ConnPc(c, "marking")
    /\ trace' = [trace EXCEPT ![conn[c].cur] = "interrupted"]
    /\ conn' = [conn EXCEPT ![c] = [@ EXCEPT !.pc = "resolving", !.cur = None]]
    /\ UNCHANGED <<session, slot, turn, transcript, consent, up>>

\* The same IntegrityError here abandons the sweep, and is only logged.
SweepFails(c) ==
    /\ ConnPc(c, "saving")
    /\ ~ Unmoved(conn[c].base)
    /\ conn' = [conn EXCEPT ![c] = [@ EXCEPT !.pc = "open", !.cur = None, !.todo = {}]]
    /\ UNCHANGED <<session, slot, turn, rows, consent, up>>

SweepEnds(c) ==
    /\ ConnPc(c, "resolving")
    /\ conn[c].todo = {}
    /\ conn' = [conn EXCEPT ![c] = [@ EXCEPT !.pc = "open", !.swept = TRUE]]
    /\ UNCHANGED <<session, slot, turn, rows, consent, up>>

-----------------------------------------------------------------------------
(* The process ends and boots again: the tables remain.                     *)

ProcessExits ==
    /\ MayCrash /\ up
    /\ up' = FALSE
    /\ slot' = None
    /\ session' = None
    /\ turn' = [t \in Turns |-> IF turn[t].pc \in ActiveStates
                                THEN NoTurn("lost", turn[t].text)
                                ELSE turn[t]]
    /\ conn' = [c \in Conns |-> IF conn[c].pc = "idle" THEN conn[c] ELSE NoConn("closed")]
    /\ UNCHANGED <<rows, consent>>

Boot ==
    /\ ~ up
    /\ up' = TRUE
    /\ UNCHANGED <<transport, slot, turn, rows, consent>>

-----------------------------------------------------------------------------
TurnStep(t) ==
    \/ FoldDuplicate(t) \/ ReadSeq(t) \/ PostUser(t) \/ StartTrace(t)
    \/ BeginIteration(t) \/ GiveUp(t) \/ StreamAnswers(t) \/ StreamFails(t)
    \/ \E tier \in {"auto", "confirm"} : StreamCalls(t, tier)
    \/ AnnounceRequest(t) \/ RegisterRequest(t) \/ AskAnswered(t) \/ AskTimesOut(t)
    \/ OpenCall(t) \/ CallReturns(t) \/ CallInterrupted(t) \/ CallTimesOut(t)
    \/ CallRaises(t) \/ RecordCall(t) \/ ReadAnswerSeq(t) \/ SaveAnswer(t)
    \/ FinishTurn(t) \/ SeqTaken(t) \/ CloseGenerator(t)

ConnectStep(c) ==
    \/ CloseEvicted(c) \/ ListOrphans(c) \/ (\E t \in Turns : PickOrphan(c, t))
    \/ ReadCloseSeq(c) \/ SaveClosing(c) \/ MarkInterrupted(c)
    \/ SweepFails(c) \/ SweepEnds(c)

Next ==
    \/ \E t \in Turns : TurnStep(t) \/ ToolActs(t) \/ BroadcastRaises(t)
    \/ \E c \in Conns :
          \/ Accept(c) \/ ConnectStep(c) \/ LeaveSession(c) \/ Interrupt(c)
          \/ \E t \in Turns, x \in Texts : UserMessage(c, t, x)
          \/ \E k \in Calls, approved \in BOOLEAN : Respond(c, k[1], k[2], approved)
    \/ ProcessExits \/ Boot

\* The event loop runs every task that can go on; streams, dispatches and
\* waits for approval have their timeouts.
Fairness ==
    /\ \A t \in Turns : WF_vars(TurnStep(t))
    /\ \A c \in Conns : WF_vars(ConnectStep(c))

Spec == Init /\ [][Next]_vars /\ Fairness

-----------------------------------------------------------------------------
(* What a conversation may rely on.                                         *)

\* The slot names exactly the turn whose task is alive, through errors raised
\* anywhere in the loop, closed generators and crashes: begin_turn neither
\* admits a second turn nor refuses the next one for ever.
SlotIsTask ==
    \A t \in Turns : (slot = t) <=> turn[t].pc \in ActiveStates

\* The transcript of one turn is not cut by another turn's rows.
TurnsDontInterleave ==
    \A i, j, k \in DOMAIN transcript :
        /\ i < j /\ j < k
        /\ transcript[i].turn = transcript[k].turn
        /\ {transcript[i].by, transcript[j].by, transcript[k].by} = {"turn"}
        => transcript[j].turn = transcript[i].turn

\* A tool call is in the transcript with its result right behind it or not at
\* all: the orphan sweep's re-dispatch of a call without a result stays idle.
ToolRowsPaired ==
    \A i \in DOMAIN transcript : transcript[i].role = "tool_call" =>
        /\ i + 1 \in DOMAIN transcript
        /\ transcript[i + 1] = [transcript[i] EXCEPT !.role = "tool_result"]

\* Where a request stands: over once its turn went on or ended.
Passed(k) == turn[k[1]].pc \notin ActiveStates \cup {"absent"} \/ turn[k[1]].call > k[2]

RequestStatus == [k \in Calls |->
    CASE k \in acted -> "acted"
      [] k \notin acted /\ Passed(k) -> "over"
      [] k \notin acted /\ ~ Passed(k) ->
            IF turn[k[1]].call = k[2] /\ turn[k[1]].stopped THEN "withdrawn"
            ELSE IF k \in yes THEN "granted" ELSE "none"]

Gate == INSTANCE Consent WITH Requests <- Calls, status <- RequestStatus

\* A confirm-tier tool acts only on a human's yes to that very call, not when
\* Stop came before the wait had its answer, and not once the turn is past it,
\* whatever late, repeated, stray or timed out answers there are.
ImplementsConsent == Gate!Spec

\* The registry names the newest connection while that one is being served: a
\* socket that ends late does not unregister its successor.
NewestIsRegistered ==
    \A c \in Conns : Listening(c) =>
        session = c \/ \E d \in Conns : conn[d].pc = "evicting" /\ conn[d].old = c

\* trace and transcript agree: complete means that the turn itself wrote its
\* answer, behind every row of its own.
CompleteIsAnswered ==
    \A t \in Turns : trace[t] = "complete" =>
        \E i \in RowsOf(t) :
            /\ transcript[i] = Row(t, "assistant", "turn")
            /\ \A k \in RowsOf(t) : transcript[k].by = "turn" => k <= i

\* A sweep that was not abandoned has answered every unanswered turn it found
\* without a task.
OrphansAnswered ==
    \A c \in Conns : conn[c].swept => \A t \in conn[c].orphans : Answered(t)

\* A turn ends: the slot of a conversation is free again in the end, with no
\* answer from the human and no Stop.
SlotFrees == slot # None ~> slot = None

(* What comments and documents say and the code does not keep.              *)

\* The sweep closes turns "left running by a crashed process": never one whose
\* task is alive.
SweepSparesLive ==
    \A t \in Turns : turn[t].pc \in ActiveStates =>
        \A i \in RowsOf(t) : transcript[i].by = "turn"

=============================================================================

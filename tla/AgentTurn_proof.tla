--------------------------- MODULE AgentTurn_proof ---------------------------
(* The safety of AgentTurn for every value of its constants: the types and  *)
(* what any step of a task can do, then the in-flight slot, the registry of *)
(* connections, the transcript's rows, the traces and the orphan sweep, and *)
(* that AgentTurn implements Consent.                                       *)
EXTENDS AgentTurn, TLAPS

-----------------------------------------------------------------------------
(* Types.                                                                   *)

\* A task that works on a tool call has parsed one, and a connection that
\* closes an orphan has picked one.
CallShape ==
    \A t \in Turns :
        turn[t].pc \in {"parsed", "announced", "asking", "opening", "calling", "recording"}
          => turn[t].call > 0
SweepShape ==
    \A c \in Conns : conn[c].pc \in {"closing", "saving", "marking"} => conn[c].cur \in Turns

Typed == TypeOK /\ CallShape /\ SweepShape

\* How one step of t's task touches what all tasks share: its own frame, the
\* slot, the end of the transcript, its own trace.
Pair(t) == <<Row(t, "tool_call", "turn"), Row(t, "tool_result", "turn")>>

TurnMoves(t) ==
    /\ up /\ up' = up /\ conn' = conn /\ session' = session
    /\ turn[t].pc \in ActiveStates
    /\ turn' \in [Turns -> TurnRecords]
    /\ \A u \in Turns \ {t} : turn'[u] = turn[u]
    /\ \/ turn'[t].pc \in ActiveStates /\ slot' = slot
       \/ turn'[t].pc \in {"folded", "done", "dead"} /\ slot' = None
    /\ turn'[t].pc \in {"parsed", "announced", "asking", "opening", "calling", "recording"}
         => turn'[t].call > 0

RowsMove(t) ==
    \/ transcript' = transcript
    \/ turn[t].pc = "posting" /\ transcript' = Append(transcript, Row(t, "user", "turn"))
    \/ turn[t].pc = "recording" /\ transcript' = transcript \o Pair(t)
    \/ /\ turn[t].pc = "saving" /\ turn'[t].pc = "finishing"
       /\ transcript' = Append(transcript, Row(t, "assistant", "turn"))

TraceMoves(t) ==
    \/ trace' = trace /\ turn'[t].pc # "done"
    \/ turn[t].pc = "tracing" /\ trace' = [trace EXCEPT ![t] = "running"]
    \/ /\ turn[t].pc = "finishing" /\ turn'[t].pc = "done"
       /\ trace' = [trace EXCEPT ![t] = turn[t].how]

PcMoves(t) ==
    /\ turn'[t].pc \notin {"absent", "reserved"}
    /\ turn'[t].pc = "posting" => turn[t].pc = "reserved"
    /\ turn'[t].pc = "finishing" /\ turn'[t].how = "complete"
         => turn[t].pc = "saving" /\ transcript' = Append(transcript, Row(t, "assistant", "turn"))

TaskMoves(t) == TurnMoves(t) /\ RowsMove(t) /\ TraceMoves(t)

LEMMA NoTurnTyped ==
    ASSUME NEW pc \in TurnStates, NEW x \in Texts \cup {None}
    PROVE  NoTurn(pc, x) \in TurnRecords /\ NoTurn(pc, x).pc = pc
BY AgentTurnAssumption DEF NoTurn, TurnRecords, Outcomes

LEMMA NoConnTyped ==
    ASSUME NEW pc \in ConnStates
    PROVE  NoConn(pc) \in ConnRecords /\ NoConn(pc).pc = pc
BY DEF NoConn, ConnRecords

LEMMA TypedInit == Init => Typed
<1> SUFFICES ASSUME Init PROVE Typed OBVIOUS
<1>1. turn \in [Turns -> TurnRecords] /\ \A t \in Turns : turn[t].pc = "absent"
  BY NoTurnTyped DEF Init, TurnStates
<1>2. conn \in [Conns -> ConnRecords] /\ \A c \in Conns : conn[c].pc = "idle"
  BY NoConnTyped DEF Init, ConnStates
<1>3. TypeOK BY <1>1, <1>2 DEF Init, TypeOK
<1> QED BY <1>1, <1>2, <1>3 DEF Typed, CallShape, SweepShape

\* The frame of t's task changes, and no other.
LEMMA FrameMoves ==
    ASSUME Typed, NEW t \in Turns, NEW r \in TurnRecords,
           up, turn[t].pc \in ActiveStates,
           turn' = [turn EXCEPT ![t] = r], slot' = slot,
           UNCHANGED <<transport, up>>,
           r.pc \in ActiveStates,
           r.pc \in {"parsed", "announced", "asking", "opening", "calling", "recording"}
             => r.call > 0
    PROVE  TurnMoves(t)
BY DEF TurnMoves, Typed, TypeOK, transport

\* The task ends.
LEMMA LeaveMoves ==
    ASSUME Typed, NEW t \in Turns, NEW pc \in {"folded", "done", "dead"},
           up, turn[t].pc \in ActiveStates, Leave(t, pc), UNCHANGED <<transport, up>>
    PROVE  TurnMoves(t) /\ turn'[t].pc = pc
<1>1. turn[t].text \in Texts \cup {None} BY DEF Typed, TypeOK, TurnRecords
<1>2. NoTurn(pc, turn[t].text) \in TurnRecords /\ NoTurn(pc, turn[t].text).pc = pc
  BY <1>1, NoTurnTyped DEF TurnStates
<1>3. turn' = [turn EXCEPT ![t] = NoTurn(pc, turn[t].text)] /\ slot' = None
  BY DEF Leave
<1> QED BY <1>2, <1>3 DEF TurnMoves, Typed, TypeOK, transport

\* Every step of a task is such a move, and "finishing" with a complete answer
\* is reached only by saving one.
LEMMA TaskStep ==
    ASSUME Typed, NEW t \in Turns, TurnStep(t) \/ BroadcastRaises(t)
    PROVE  TaskMoves(t) /\ PcMoves(t)
<1> USE DEF InPc, ActiveStates
<1>1. /\ turn \in [Turns -> TurnRecords] /\ turn[t] \in TurnRecords
      /\ transcript \in Seq(Rows) /\ Len(transcript) \in Nat
  BY DEF Typed, TypeOK
<1>2. turn[t].pc \in {"parsed", "announced", "asking", "opening", "calling", "recording"}
        => turn[t].call > 0
  BY DEF Typed, CallShape
<1>3. CASE ReadSeq(t)
  BY <1>1, <1>2, <1>3, AgentTurnAssumption
  DEF ReadSeq, TaskMoves, TurnMoves, RowsMove, TraceMoves, PcMoves,
             TurnRecords, TurnStates, Outcomes, transport, rows, consent
<1>4. CASE PostUser(t)
  BY <1>1, <1>2, <1>4, AgentTurnAssumption
  DEF PostUser, TaskMoves, TurnMoves, RowsMove, TraceMoves, PcMoves,
             TurnRecords, TurnStates, Outcomes, transport, rows, consent
<1>5. CASE StartTrace(t)
  BY <1>1, <1>2, <1>5, AgentTurnAssumption
  DEF StartTrace, TaskMoves, TurnMoves, RowsMove, TraceMoves, PcMoves,
             TurnRecords, TurnStates, Outcomes, transport, rows, consent
<1>6. CASE BeginIteration(t)
  <2> DEFINE n == turn[t].iter + 1
             r == [turn[t] EXCEPT !.pc = "streaming", !.iter = n]
  <2>1. turn' = [turn EXCEPT ![t] = r] /\ n \in 0 .. MaxIterations
    BY <1>1, <1>6, AgentTurnAssumption DEF BeginIteration, TurnRecords
  <2> HIDE DEF n
  <2>2. r \in TurnRecords /\ r.pc = "streaming"
    BY <1>1, <2>1 DEF TurnRecords, TurnStates
  <2> HIDE DEF r
  <2>3. TurnMoves(t) /\ turn'[t].pc = "streaming"
    BY <1>1, <1>6, <2>1, <2>2, FrameMoves DEF BeginIteration, rows
  <2> QED
    BY <1>1, <1>6, <2>1, <2>3
    DEF BeginIteration, TaskMoves, RowsMove, TraceMoves, PcMoves, rows
<1>7. CASE GiveUp(t)
  BY <1>1, <1>2, <1>7, AgentTurnAssumption
  DEF GiveUp, TaskMoves, TurnMoves, RowsMove, TraceMoves, PcMoves,
             TurnRecords, TurnStates, Outcomes, transport, rows, consent
<1>8. CASE StreamAnswers(t)
  <2>1. PICK how \in Outcomes :
          turn' = [turn EXCEPT ![t] = [turn[t] EXCEPT !.pc = "answering", !.how = how]]
    BY <1>8 DEF StreamAnswers, Outcomes
  <2>2. TurnMoves(t)
    BY <1>1, <1>8, <2>1 DEF StreamAnswers, TurnMoves, TurnRecords, TurnStates, transport
  <2> QED
    BY <1>1, <1>8, <2>1, <2>2
    DEF StreamAnswers, TaskMoves, RowsMove, TraceMoves, PcMoves, rows
<1>9. CASE StreamFails(t)
  BY <1>1, <1>2, <1>9, AgentTurnAssumption
  DEF StreamFails, TaskMoves, TurnMoves, RowsMove, TraceMoves, PcMoves,
             TurnRecords, TurnStates, Outcomes, transport, rows, consent
<1>10. CASE AnnounceRequest(t)
  BY <1>1, <1>2, <1>10, AgentTurnAssumption
  DEF AnnounceRequest, TaskMoves, TurnMoves, RowsMove, TraceMoves, PcMoves,
             TurnRecords, TurnStates, Outcomes, transport, rows, consent
<1>11. CASE RegisterRequest(t)
  BY <1>1, <1>2, <1>11, AgentTurnAssumption
  DEF RegisterRequest, TaskMoves, TurnMoves, RowsMove, TraceMoves, PcMoves,
             TurnRecords, TurnStates, Outcomes, transport, rows, consent
<1>12. CASE AskAnswered(t)
  BY <1>1, <1>2, <1>12, AgentTurnAssumption
  DEF AskAnswered, TaskMoves, TurnMoves, RowsMove, TraceMoves, PcMoves,
             TurnRecords, TurnStates, Outcomes, transport, rows, consent
<1>13. CASE AskTimesOut(t)
  BY <1>1, <1>2, <1>13, AgentTurnAssumption
  DEF AskTimesOut, TaskMoves, TurnMoves, RowsMove, TraceMoves, PcMoves,
             TurnRecords, TurnStates, Outcomes, transport, rows, consent
<1>14. CASE OpenCall(t)
  BY <1>1, <1>2, <1>14, AgentTurnAssumption
  DEF OpenCall, TaskMoves, TurnMoves, RowsMove, TraceMoves, PcMoves,
             TurnRecords, TurnStates, Outcomes, transport, rows, consent
<1>15. CASE CallReturns(t)
  BY <1>1, <1>2, <1>15, AgentTurnAssumption
  DEF CallReturns, TaskMoves, TurnMoves, RowsMove, TraceMoves, PcMoves,
             TurnRecords, TurnStates, Outcomes, transport, rows, consent
<1>16. CASE CallInterrupted(t)
  <2> DEFINE r == [turn[t] EXCEPT !.pc = "finishing", !.future = "none",
                                  !.how = "interrupted"]
  <2>1. turn' = [turn EXCEPT ![t] = r] /\ turn[t].pc \in {"asking", "calling"}
    BY <1>16 DEF CallInterrupted
  <2>2. r \in TurnRecords /\ r.pc = "finishing" /\ r.how = "interrupted"
    BY <1>1 DEF TurnRecords, TurnStates, Outcomes
  <2> HIDE DEF r
  <2>3. TurnMoves(t) /\ turn'[t].pc = "finishing" /\ turn'[t].how = "interrupted"
    BY <1>1, <1>16, <2>1, <2>2, FrameMoves DEF CallInterrupted, rows
  <2> QED
    BY <1>1, <1>16, <2>1, <2>3
    DEF CallInterrupted, TaskMoves, RowsMove, TraceMoves, PcMoves, rows
<1>17. CASE CallTimesOut(t)
  BY <1>1, <1>2, <1>17, AgentTurnAssumption
  DEF CallTimesOut, TaskMoves, TurnMoves, RowsMove, TraceMoves, PcMoves,
             TurnRecords, TurnStates, Outcomes, transport, rows, consent
<1>18. CASE RecordCall(t)
  <2>1. /\ turn[t].pc = "recording" /\ up /\ UNCHANGED <<slot, conn, session, trace, up>>
        /\ transcript' = transcript \o Pair(t)
    BY <1>18 DEF RecordCall, transport, Pair
  <2>2. TurnMoves(t) /\ turn'[t].pc \in {"looping", "parsed"}
    <3>1. CASE turn' = [turn EXCEPT ![t].pc = "looping"]
      BY <1>1, <2>1, <3>1 DEF TurnMoves, TurnRecords, TurnStates
    <3>2. ASSUME turn[t].call < MaxCalls, NEW tier \in {"auto", "confirm"},
                 turn' = [turn EXCEPT ![t] = [@ EXCEPT !.pc = "parsed",
                                                       !.call = turn[t].call + 1,
                                                       !.stopped = FALSE, !.tier = tier]]
          PROVE  TurnMoves(t) /\ turn'[t].pc \in {"looping", "parsed"}
      <4>1. turn[t].call + 1 \in 0 .. MaxCalls /\ turn[t].call + 1 > 0
        BY <1>1, <3>2, AgentTurnAssumption DEF TurnRecords
      <4> QED BY <1>1, <2>1, <3>2, <4>1 DEF TurnMoves, TurnRecords, TurnStates
    <3> QED BY <1>18, <3>1, <3>2 DEF RecordCall
  <2> QED BY <2>1, <2>2 DEF TaskMoves, RowsMove, TraceMoves, PcMoves
<1>19. CASE ReadAnswerSeq(t)
  BY <1>1, <1>2, <1>19, AgentTurnAssumption
  DEF ReadAnswerSeq, TaskMoves, TurnMoves, RowsMove, TraceMoves, PcMoves,
             TurnRecords, TurnStates, Outcomes, transport, rows, consent
<1>20. CASE SaveAnswer(t)
  BY <1>1, <1>2, <1>20, AgentTurnAssumption
  DEF SaveAnswer, TaskMoves, TurnMoves, RowsMove, TraceMoves, PcMoves,
             TurnRecords, TurnStates, Outcomes, transport, rows, consent
<1>21. ASSUME NEW tier \in {"auto", "confirm"}, StreamCalls(t, tier)
      PROVE  TaskMoves(t) /\ PcMoves(t)
  <2> DEFINE n == turn[t].call + 1
             r == [turn[t] EXCEPT !.pc = "parsed", !.call = n, !.stopped = FALSE,
                                  !.tier = tier]
  <2>1. /\ turn' = [turn EXCEPT ![t] = r] /\ n \in 0 .. MaxCalls /\ n > 0
        /\ turn[t].pc = "streaming"
    BY <1>1, <1>21, AgentTurnAssumption DEF StreamCalls, TurnRecords
  <2> HIDE DEF n
  <2>2. r \in TurnRecords /\ r.pc = "parsed" /\ r.call = n
    BY <1>1, <2>1 DEF TurnRecords, TurnStates
  <2> HIDE DEF r
  <2>3. TurnMoves(t) /\ turn'[t].pc = "parsed"
    BY <1>1, <1>21, <2>1, <2>2, FrameMoves DEF StreamCalls, rows
  <2> QED
    BY <1>21, <2>1, <2>3 DEF StreamCalls, TaskMoves, RowsMove, TraceMoves, PcMoves, rows
<1>22. CASE BroadcastRaises(t)
  BY <1>1, <1>2, <1>22
  DEF BroadcastRaises, TaskMoves, TurnMoves, RowsMove, TraceMoves, PcMoves,
             TurnRecords, TurnStates, Outcomes, transport, rows, consent
<1>23. CASE FoldDuplicate(t)
  <2>1. TurnMoves(t) /\ turn'[t].pc = "folded"
    BY <1>23, LeaveMoves DEF FoldDuplicate, rows
  <2> QED BY <1>23, <2>1 DEF FoldDuplicate, TaskMoves, RowsMove, TraceMoves, PcMoves, rows
<1>24. CASE CallRaises(t)
  <2>1. TurnMoves(t) /\ turn'[t].pc = "dead"
    BY <1>24, LeaveMoves DEF CallRaises, rows
  <2> QED BY <1>24, <2>1 DEF CallRaises, TaskMoves, RowsMove, TraceMoves, PcMoves, rows
<1>25. CASE FinishTurn(t)
  <2>1. TurnMoves(t) /\ turn'[t].pc = "done"
    BY <1>25, LeaveMoves DEF FinishTurn, rows
  <2> QED BY <1>25, <2>1 DEF FinishTurn, TaskMoves, RowsMove, TraceMoves, PcMoves, rows
<1>26. CASE SeqTaken(t)
  <2>1. TurnMoves(t) /\ turn'[t].pc = "dead"
    BY <1>26, LeaveMoves DEF SeqTaken, rows
  <2> QED BY <1>26, <2>1 DEF SeqTaken, TaskMoves, RowsMove, TraceMoves, PcMoves, rows
<1>27. CASE CloseGenerator(t)
  <2>1. TurnMoves(t) /\ turn'[t].pc = "dead"
    BY <1>27, LeaveMoves DEF CloseGenerator, rows
  <2> QED BY <1>27, <2>1 DEF CloseGenerator, TaskMoves, RowsMove, TraceMoves, PcMoves, rows
<1> QED
  BY <1>3, <1>4, <1>5, <1>6, <1>7, <1>8, <1>9, <1>10, <1>11, <1>12, <1>13, <1>14, <1>15, <1>16, <1>17, <1>18, <1>19, <1>20, <1>21, <1>22, <1>23, <1>24, <1>25, <1>26, <1>27
  DEF TurnStep

\* The rest of Next, by what it leaves alone: a connection's own steps; what a
\* client sends; what a tool does outside its transaction.
ConnStep(c) ==
    \/ Accept(c) \/ CloseEvicted(c) \/ ListOrphans(c) \/ (\E t \in Turns : PickOrphan(c, t))
    \/ ReadCloseSeq(c) \/ SaveClosing(c) \/ MarkInterrupted(c) \/ SweepFails(c)
    \/ SweepEnds(c) \/ LeaveSession(c)

SendStep(c) ==
    \/ Interrupt(c)
    \/ \E t \in Turns, x \in Texts : UserMessage(c, t, x)
    \/ \E k \in Calls, approved \in BOOLEAN : Respond(c, k[1], k[2], approved)

LEMMA NextCases ==
    ASSUME Next
    PROVE  \/ \E t \in Turns : TurnStep(t) \/ BroadcastRaises(t)
           \/ \E t \in Turns : ToolActs(t)
           \/ \E c \in Conns : ConnStep(c)
           \/ \E c \in Conns : SendStep(c)
           \/ ProcessExits
           \/ Boot
BY DEF Next, ConnStep, ConnectStep, SendStep

LEMMA ConnStepFrame ==
    ASSUME NEW c \in Conns, ConnStep(c)
    PROVE  UNCHANGED <<slot, turn, consent, up>>
BY DEF ConnStep, Accept, CloseEvicted, ListOrphans, PickOrphan, ReadCloseSeq, SaveClosing,
       MarkInterrupted, SweepFails, SweepEnds, LeaveSession

\* What a client sends reaches one frame: it fills an absent one, or sets the
\* flag or the answer of one.
LEMMA SendStepFrame ==
    ASSUME Typed, NEW c \in Conns, SendStep(c)
    PROVE  /\ UNCHANGED <<transport, rows, prompts, acted, up>>
           /\ turn' \in [Turns -> TurnRecords]
           /\ \A t \in Turns :
                 \/ /\ turn'[t].pc = turn[t].pc /\ turn'[t].call = turn[t].call
                    /\ turn'[t].how = turn[t].how
                 \/ /\ turn[t].pc = "absent" /\ turn'[t].pc = "reserved" /\ up
                    /\ slot = None /\ slot' = t
           /\ slot' = slot \/ \E t \in Turns : turn[t].pc = "absent" /\ turn'[t].pc = "reserved"
                                                /\ slot = None /\ slot' = t
           /\ yes' \in SUBSET prompts
<1>1. turn \in [Turns -> TurnRecords] /\ yes \subseteq prompts /\ slot \in Turns \cup {None}
  BY DEF Typed, TypeOK
<1>2. CASE Interrupt(c)
  <2>1. slot \in Turns BY <1>1, <1>2 DEF Interrupt
  <2> DEFINE r == [turn[slot] EXCEPT !.cancel = TRUE,
                     !.stopped = turn[slot].stopped \/ turn[slot].future = "pending"]
  <2>2. turn' = [turn EXCEPT ![slot] = r] BY <1>1, <1>2, <2>1 DEF Interrupt
  <2>3. r \in TurnRecords /\ r.pc = turn[slot].pc /\ r.call = turn[slot].call
        /\ r.how = turn[slot].how
    BY <1>1, <2>1 DEF TurnRecords
  <2> HIDE DEF r
  <2> QED BY <1>1, <1>2, <2>1, <2>2, <2>3 DEF Interrupt, transport, rows, consent
<1>3. ASSUME NEW t \in Turns, NEW x \in Texts, UserMessage(c, t, x)
      PROVE  /\ UNCHANGED <<transport, rows, consent, up>> /\ up
             /\ turn' \in [Turns -> TurnRecords]
             /\ turn[t].pc = "absent" /\ turn'[t].pc = "reserved"
             /\ \A u \in Turns \ {t} : turn'[u] = turn[u]
             /\ slot = None /\ slot' = t
  <2> DEFINE r == [turn[t] EXCEPT !.pc = "reserved", !.conn = c, !.text = x]
  <2>1. r \in TurnRecords /\ r.pc = "reserved"
    <3>1. turn[t] \in TurnRecords /\ "reserved" \in TurnStates
      BY <1>1 DEF TurnStates, ActiveStates
    <3> QED BY <3>1 DEF TurnRecords
  <2>2. turn' = [turn EXCEPT ![t] = r] BY <1>3 DEF UserMessage
  <2> HIDE DEF r
  <2> QED BY <1>1, <1>3, <2>1, <2>2 DEF UserMessage, Listening, ConnPc
<1>4. ASSUME NEW k \in Calls, NEW approved \in BOOLEAN, Respond(c, k[1], k[2], approved)
      PROVE  /\ UNCHANGED <<transport, rows, prompts, acted, up, slot>>
             /\ turn' \in [Turns -> TurnRecords]
             /\ \A t \in Turns : /\ turn'[t].pc = turn[t].pc /\ turn'[t].call = turn[t].call
                                /\ turn'[t].how = turn[t].how
             /\ yes' \in SUBSET prompts
  <2>1. k[1] \in Turns BY DEF Calls
  <2>2. yes' \in SUBSET prompts /\ UNCHANGED <<transport, rows, prompts, acted, up, slot>>
    BY <1>1, <1>4 DEF Respond
  <2> DEFINE a == IF approved THEN "yes" ELSE "no"
             r == [turn[k[1]] EXCEPT !.future = a]
  <2>3. turn' = turn \/ turn' = [turn EXCEPT ![k[1]] = r]
    BY <1>4, <1>1, <2>1 DEF Respond
  <2>4. r \in TurnRecords /\ r.pc = turn[k[1]].pc /\ r.call = turn[k[1]].call
        /\ r.how = turn[k[1]].how
    BY <1>1, <2>1 DEF TurnRecords
  <2> HIDE DEF r
  <2> QED BY <1>1, <2>1, <2>2, <2>3, <2>4
<1> QED BY <1>1, <1>2, <1>3, <1>4 DEF SendStep, consent

\* One connection moves on: its frame keeps its shape, the others are as they were.
ConnMoves(c) ==
    /\ conn' \in [Conns -> ConnRecords]
    /\ \A d \in Conns \ {c} : conn'[d] = conn[d]
    /\ conn'[c].pc \in {"closing", "saving", "marking"} => conn'[c].cur \in Turns

LEMMA ConnStepMoves ==
    ASSUME Typed, NEW c \in Conns, ConnStep(c), ~ CloseEvicted(c)
    PROVE  ConnMoves(c)
<1> USE DEF ConnMoves, ConnPc
<1>1. conn \in [Conns -> ConnRecords] /\ conn[c] \in ConnRecords /\ session \in Conns \cup {None}
        /\ transcript \in Seq(Rows) /\ Len(transcript) \in Nat
  BY DEF Typed, TypeOK
<1>2. conn[c].pc \in {"closing", "saving", "marking"} => conn[c].cur \in Turns
  BY DEF Typed, SweepShape
<1>3. CASE Accept(c)
  BY <1>1, <1>3 DEF Accept, ConnRecords, ConnStates
<1>4. CASE ListOrphans(c)
  <2>1. Orphans \in SUBSET Turns BY DEF Orphans
  <2> QED BY <1>1, <1>4, <2>1 DEF ListOrphans, ConnRecords, ConnStates
<1>5. ASSUME NEW t \in Turns, PickOrphan(c, t) PROVE ConnMoves(c)
  <2> DEFINE left == conn[c].todo \ {t}
             r == [conn[c] EXCEPT !.todo = left, !.cur = t, !.pc = "closing"]
             s == [conn[c] EXCEPT !.todo = left]
  <2>1. conn' = [conn EXCEPT ![c] = r] \/ conn' = [conn EXCEPT ![c] = s]
    BY <1>5 DEF PickOrphan
  <2>2. left \in SUBSET Turns BY <1>1 DEF ConnRecords
  <2> HIDE DEF left
  <2>3. r \in ConnRecords /\ s \in ConnRecords /\ r.cur = t /\ s.pc = "resolving"
    BY <1>1, <1>5, <2>2 DEF ConnRecords, ConnStates, PickOrphan
  <2> HIDE DEF r, s
  <2> QED BY <1>1, <2>1, <2>3
<1>6. CASE ReadCloseSeq(c)
  BY <1>1, <1>2, <1>6 DEF ReadCloseSeq, ConnRecords, ConnStates
<1>7. CASE SaveClosing(c)
  BY <1>1, <1>2, <1>7 DEF SaveClosing, ConnRecords, ConnStates
<1>8. CASE MarkInterrupted(c)
  BY <1>1, <1>8 DEF MarkInterrupted, ConnRecords, ConnStates
<1>9. CASE SweepFails(c)
  BY <1>1, <1>9 DEF SweepFails, ConnRecords, ConnStates
<1>10. CASE SweepEnds(c)
  BY <1>1, <1>10 DEF SweepEnds, ConnRecords, ConnStates
<1>11. CASE LeaveSession(c)
  <2>1. NoConn("closed") \in ConnRecords /\ NoConn("closed").pc = "closed"
    BY NoConnTyped DEF ConnStates
  <2>2. conn' = [conn EXCEPT ![c] = NoConn("closed")] BY <1>11 DEF LeaveSession
  <2> QED BY <1>1, <2>1, <2>2
<1> QED BY <1>3, <1>4, <1>5, <1>6, <1>7, <1>8, <1>9, <1>10, <1>11 DEF ConnStep

\* _close_evicted also marks the frame of the old socket.
LEMMA CloseEvictedMoves ==
    ASSUME Typed, NEW c \in Conns, CloseEvicted(c)
    PROVE  /\ conn' \in [Conns -> ConnRecords]
           /\ conn[c].pc = "evicting" /\ conn'[c] = [conn[c] EXCEPT !.pc = "listing"]
           /\ \A d \in Conns \ {c} : \/ conn'[d] = conn[d] /\ d # conn[c].old
                                    \/ conn'[d] = [conn[d] EXCEPT !.shut = TRUE]
<1>1. conn \in [Conns -> ConnRecords] BY DEF Typed, TypeOK
<1>2. \A d \in Conns : /\ [conn[d] EXCEPT !.pc = "listing"] \in ConnRecords
                       /\ [conn[d] EXCEPT !.shut = TRUE] \in ConnRecords
  BY <1>1 DEF ConnRecords, ConnStates
<1> QED BY <1>1, <1>2 DEF CloseEvicted, ConnPc

\* A sweep's own rows and marks.
SweepRowsMove(c) ==
    \/ transcript' = transcript
    \/ /\ conn[c].pc = "saving"
       /\ transcript' = Append(transcript, Row(conn[c].cur, "assistant", "sweep"))

LEMMA ConnStepRows ==
    ASSUME Typed, NEW c \in Conns, ConnStep(c)
    PROVE  SweepRowsMove(c)
BY DEF SweepRowsMove, ConnStep, Accept, CloseEvicted, ListOrphans, PickOrphan, ReadCloseSeq,
       SaveClosing, MarkInterrupted, SweepFails, SweepEnds, LeaveSession, ConnPc, rows

LEMMA ConnStepTrace ==
    ASSUME Typed, NEW c \in Conns, ConnStep(c)
    PROVE  \/ trace' = trace
           \/ /\ conn[c].pc = "marking" /\ conn[c].cur \in Turns
              /\ trace' = [trace EXCEPT ![conn[c].cur] = "interrupted"]
BY DEF Typed, SweepShape, ConnStep, Accept, CloseEvicted, ListOrphans, PickOrphan, ReadCloseSeq,
       SaveClosing, MarkInterrupted, SweepFails, SweepEnds, LeaveSession, ConnPc, rows

\* Rows of the right type.
LEMMA RowsTyped ==
    ASSUME NEW t \in Turns
    PROVE  /\ \A role \in {"user", "assistant"}, by \in {"turn", "sweep"} : Row(t, role, by) \in Rows
           /\ Pair(t) \in Seq(Rows) /\ Len(Pair(t)) = 2
           /\ Pair(t)[1] = Row(t, "tool_call", "turn")
           /\ Pair(t)[2] = Row(t, "tool_result", "turn")
           /\ Row(t, "tool_result", "turn") = [Row(t, "tool_call", "turn") EXCEPT !.role = "tool_result"]
BY DEF Row, Rows, Pair

LEMMA TypedStep == Typed /\ [Next]_vars => Typed'
<1> SUFFICES ASSUME Typed, [Next]_vars PROVE Typed' OBVIOUS
<1> USE DEF TypeOK, CallShape, SweepShape
<1>1. CASE UNCHANGED vars BY <1>1 DEF Typed, vars
<1>2. ASSUME NEW t \in Turns, TurnStep(t) \/ BroadcastRaises(t) PROVE Typed'
  <2>1. TaskMoves(t) /\ PcMoves(t) BY <1>2, TaskStep
  <2>2. transcript' \in Seq(Rows)
    <3>1. transcript \in Seq(Rows) BY DEF Typed
    <3>2. transcript \o Pair(t) \in Seq(Rows) BY <3>1, RowsTyped
    <3>3. \A role \in {"user", "assistant"} : Append(transcript, Row(t, role, "turn")) \in Seq(Rows)
      BY <3>1, RowsTyped
    <3> QED BY <2>1, <3>1, <3>2, <3>3 DEF TaskMoves, RowsMove
  <2>3. trace' \in [Turns -> Outcomes \cup {"none", "running"}]
    BY <2>1 DEF TaskMoves, TraceMoves, Typed, TurnRecords
  <2>4. yes' \subseteq prompts' /\ prompts' \subseteq Calls /\ acted' \subseteq Calls
    <3>1. CASE AnnounceRequest(t)
      <4>1. <<t, turn[t].call>> \in Calls
        BY <3>1, AgentTurnAssumption DEF AnnounceRequest, InPc, Calls, Typed, TurnRecords
      <4> QED BY <3>1, <4>1 DEF AnnounceRequest, Typed
    <3>2. CASE ~ AnnounceRequest(t)
      <4>1. UNCHANGED consent
        BY <1>2, <3>2
        DEF TurnStep, FoldDuplicate, ReadSeq, PostUser, StartTrace, BeginIteration, GiveUp,
            StreamAnswers, StreamFails, StreamCalls, RegisterRequest, AskAnswered, AskTimesOut,
            OpenCall, CallReturns, CallInterrupted, CallTimesOut, CallRaises, RecordCall,
            ReadAnswerSeq, SaveAnswer, FinishTurn, SeqTaken, CloseGenerator, BroadcastRaises
      <4> QED BY <4>1 DEF Typed, consent
    <3> QED BY <3>1, <3>2
  <2> QED BY <2>1, <2>2, <2>3, <2>4 DEF Typed, TaskMoves, TurnMoves
<1>3. ASSUME NEW t \in Turns, ToolActs(t) PROVE Typed'
  <2>1. <<t, turn[t].call>> \in Calls
    BY <1>3, AgentTurnAssumption DEF ToolActs, InPc, Calls, Typed, TurnRecords
  <2> QED BY <1>3, <2>1 DEF ToolActs, Typed, transport, rows
<1>4. ASSUME NEW c \in Conns, ConnStep(c) PROVE Typed'
  <2>1. UNCHANGED <<slot, turn, consent, up>> BY <1>4, ConnStepFrame
  <2>2. session' \in Conns \cup {None}
    BY <1>4 DEF Typed, ConnStep, Accept, CloseEvicted, ListOrphans, PickOrphan, ReadCloseSeq,
       SaveClosing, MarkInterrupted, SweepFails, SweepEnds, LeaveSession
  <2>3. conn' \in [Conns -> ConnRecords] /\ SweepShape'
    <3>1. CASE CloseEvicted(c)
      <4>1. \A d \in Conns : conn[d] \in ConnRecords BY DEF Typed
      <4>2. \A d \in Conns : /\ conn'[d].pc \in {"closing", "saving", "marking"}
                                  => conn'[d].pc = conn[d].pc
                             /\ conn'[d].cur = conn[d].cur
        <5> SUFFICES ASSUME NEW d \in Conns
                     PROVE  /\ conn'[d].pc \in {"closing", "saving", "marking"}
                                 => conn'[d].pc = conn[d].pc
                            /\ conn'[d].cur = conn[d].cur
          OBVIOUS
        <5>1. CASE d = c
          <6>1. conn'[d] = [conn[d] EXCEPT !.pc = "listing"] BY <3>1, <5>1, CloseEvictedMoves
          <6> QED BY <4>1, <6>1 DEF ConnRecords
        <5>2. CASE d # c
          <6>1. conn'[d] = conn[d] \/ conn'[d] = [conn[d] EXCEPT !.shut = TRUE]
            BY <3>1, <5>2, CloseEvictedMoves
          <6> QED BY <4>1, <6>1 DEF ConnRecords
        <5> QED BY <5>1, <5>2
      <4> QED BY <3>1, <4>2, CloseEvictedMoves DEF Typed
    <3>2. CASE ~ CloseEvicted(c)
      BY <1>4, <3>2, ConnStepMoves DEF ConnMoves, Typed
    <3> QED BY <3>1, <3>2
  <2>4. transcript' \in Seq(Rows)
    BY <1>4, ConnStepRows, RowsTyped DEF SweepRowsMove, Typed
  <2>5. trace' \in [Turns -> Outcomes \cup {"none", "running"}]
    BY <1>4, ConnStepTrace DEF Typed, Outcomes
  <2> QED BY <2>1, <2>2, <2>3, <2>4, <2>5 DEF Typed, consent
<1>5. ASSUME NEW c \in Conns, SendStep(c) PROVE Typed'
  BY <1>5, SendStepFrame DEF Typed, transport, rows
<1>6. CASE ProcessExits
  <2>1. turn' \in [Turns -> TurnRecords] /\ CallShape'
    <3>1. \A t \in Turns : /\ NoTurn("lost", turn[t].text) \in TurnRecords
                           /\ NoTurn("lost", turn[t].text).pc = "lost"
      BY NoTurnTyped DEF Typed, TurnRecords, TurnStates
    <3> QED BY <1>6, <3>1 DEF ProcessExits, Typed
  <2>2. conn' \in [Conns -> ConnRecords] /\ SweepShape'
    <3>1. NoConn("closed") \in ConnRecords /\ NoConn("closed").pc = "closed"
      BY NoConnTyped DEF ConnStates
    <3> QED BY <1>6, <3>1 DEF ProcessExits, Typed
  <2> QED BY <1>6, <2>1, <2>2 DEF ProcessExits, Typed, rows, consent
<1>7. CASE Boot
  BY <1>7 DEF Boot, Typed, transport, rows, consent
<1> QED BY <1>1, <1>2, <1>3, <1>4, <1>5, <1>6, <1>7, NextCases

\* Every variable of a conversation's turns and connections keeps its type.
THEOREM TypeCorrect == Spec => []TypeOK
<1>1. Init => Typed BY TypedInit
<1>2. Typed /\ [Next]_vars => Typed' BY TypedStep
<1>3. Typed => TypeOK BY DEF Typed
<1> QED BY <1>1, <1>2, <1>3, PTL DEF Spec

-----------------------------------------------------------------------------
(* The slot, the rows of a turn, the trace.                                 *)

LEMMA SlotInit == Init => SlotIsTask
<1> SUFFICES ASSUME Init, NEW t \in Turns PROVE slot # t /\ turn[t].pc \notin ActiveStates
  BY DEF SlotIsTask
<1> QED BY AgentTurnAssumption DEF Init, NoTurn, ActiveStates

LEMMA SlotStep == Typed /\ SlotIsTask /\ [Next]_vars => SlotIsTask'
<1> SUFFICES ASSUME Typed, SlotIsTask, [Next]_vars PROVE SlotIsTask' OBVIOUS
<1> USE AgentTurnAssumption DEF SlotIsTask
<1>1. CASE UNCHANGED vars BY <1>1 DEF vars
<1>2. ASSUME NEW t \in Turns, TurnStep(t) \/ BroadcastRaises(t) PROVE SlotIsTask'
  BY <1>2, TaskStep DEF TaskMoves, TurnMoves, ActiveStates
<1>3. ASSUME NEW t \in Turns, ToolActs(t) PROVE SlotIsTask' BY <1>3 DEF ToolActs
<1>4. ASSUME NEW c \in Conns, ConnStep(c) PROVE SlotIsTask' BY <1>4, ConnStepFrame
<1>5. ASSUME NEW c \in Conns, SendStep(c) PROVE SlotIsTask'
  <2>1. CASE slot' = slot
    <3>1. \A t \in Turns : turn'[t].pc = turn[t].pc BY <1>5, <2>1, SendStepFrame
    <3> QED BY <2>1, <3>1
  <2>2. CASE slot' # slot
    BY <1>5, <2>2, SendStepFrame DEF ActiveStates
  <2> QED BY <2>1, <2>2
<1>6. CASE ProcessExits BY <1>6 DEF ProcessExits, ActiveStates, NoTurn
<1>7. CASE Boot BY <1>7 DEF Boot
<1> QED BY <1>1, <1>2, <1>3, <1>4, <1>5, <1>6, <1>7, NextCases

LEMMA SlotInvariant == Spec => [](Typed /\ SlotIsTask)
<1>1. Init => Typed /\ SlotIsTask BY TypedInit, SlotInit
<1>2. Typed /\ SlotIsTask /\ [Next]_vars => (Typed /\ SlotIsTask)' BY TypedStep, SlotStep
<1> QED BY <1>1, <1>2, PTL DEF Spec

\* The slot names exactly the turn whose task is alive: begin_turn admits one
\* turn at a time and refuses none for ever.
THEOREM SlotIsAlwaysTask == Spec => []SlotIsTask
BY SlotInvariant, PTL

OwnRow(i, t) == transcript[i].turn = t /\ transcript[i].by = "turn"

\* A turn has no row of its own before its user message is posted ...
Unwritten ==
    \A t \in Turns : turn[t].pc \in {"absent", "reserved", "posting"} =>
        \A i \in DOMAIN transcript : ~ OwnRow(i, t)

\* ... while it is active no other turn writes behind its rows; so they are together.
OpenTail ==
    \A t \in Turns : turn[t].pc \in ActiveStates =>
        \A i, j \in DOMAIN transcript :
            i < j /\ OwnRow(i, t) /\ transcript[j].by = "turn" => OwnRow(j, t)

Contiguous ==
    \A i, j, k \in DOMAIN transcript :
        /\ i < j /\ j < k
        /\ transcript[i].turn = transcript[k].turn
        /\ transcript[i].by = "turn" /\ transcript[j].by = "turn" /\ transcript[k].by = "turn"
        => transcript[j].turn = transcript[i].turn

Written == Unwritten /\ OpenTail /\ Contiguous /\ ToolRowsPaired

LEMMA WrittenInit == Init => Written
<1> SUFFICES ASSUME Init PROVE Written OBVIOUS
<1>1. DOMAIN transcript = {} BY DEF Init
<1> QED BY <1>1 DEF Written, Unwritten, OpenTail, Contiguous, ToolRowsPaired

\* A step that writes no row and wakes no turn.
LEMMA WrittenQuiet ==
    ASSUME Written, transcript' = transcript,
           \A t \in Turns : /\ turn'[t].pc \in ActiveStates =>
                                turn[t].pc \in ActiveStates \cup {"absent"}
                            /\ turn'[t].pc \in {"absent", "reserved", "posting"} =>
                                turn[t].pc \in {"absent", "reserved", "posting"}
    PROVE  Written'
<1>1. Unwritten' BY DEF Written, Unwritten, OwnRow
<1>2. OpenTail' BY DEF Written, Unwritten, OpenTail, OwnRow
<1>3. Contiguous' BY DEF Written, Contiguous
<1>4. ToolRowsPaired' BY DEF Written, ToolRowsPaired
<1> QED BY <1>1, <1>2, <1>3, <1>4 DEF Written

\* One row at the end that is no tool call: a sweep's, or the active turn's.
LEMMA WrittenAppend ==
    ASSUME Typed, Written, NEW t \in Turns, NEW role \in {"user", "assistant"},
           NEW by \in {"turn", "sweep"},
           transcript' = Append(transcript, Row(t, role, by)),
           by = "turn" => /\ turn[t].pc \in ActiveStates
                          /\ turn'[t].pc \notin {"absent", "reserved", "posting"},
           \A u \in Turns \ {t} : turn'[u] = turn[u],
           by = "turn" => \A u \in Turns \ {t} : turn[u].pc \notin ActiveStates,
           by = "sweep" => turn' = turn
    PROVE  Written'
<1> DEFINE n == Len(transcript)
<1>1. transcript \in Seq(Rows) /\ n \in Nat /\ DOMAIN transcript = 1 .. n
  BY DEF Typed, TypeOK
<1>2. /\ DOMAIN transcript' = 1 .. (n + 1)
      /\ \A i \in 1 .. n : transcript'[i] = transcript[i]
      /\ transcript'[n + 1] = Row(t, role, by)
  BY <1>1, RowsTyped
<1> HIDE DEF n
<1>3. Unwritten'
  BY <1>1, <1>2 DEF Written, Unwritten, OwnRow, Row
<1>4. OpenTail'
  BY <1>1, <1>2 DEF Written, OpenTail, OwnRow, Row
<1>5. Contiguous'
  BY <1>1, <1>2 DEF Written, OpenTail, OwnRow, Contiguous, Row
<1>6. ToolRowsPaired'
  BY <1>1, <1>2 DEF Written, ToolRowsPaired, Row
<1> QED BY <1>3, <1>4, <1>5, <1>6 DEF Written

\* A call's two rows at the end.
LEMMA WrittenPair ==
    ASSUME Typed, Written, NEW t \in Turns,
           transcript' = transcript \o Pair(t),
           turn[t].pc \in ActiveStates,
           turn'[t].pc \notin {"absent", "reserved", "posting"},
           \A u \in Turns \ {t} : turn'[u] = turn[u] /\ turn[u].pc \notin ActiveStates
    PROVE  Written'
<1> DEFINE n == Len(transcript)
<1>1. transcript \in Seq(Rows) /\ n \in Nat /\ DOMAIN transcript = 1 .. n
  BY DEF Typed, TypeOK
<1>2. /\ DOMAIN transcript' = 1 .. (n + 2)
      /\ \A i \in 1 .. n : transcript'[i] = transcript[i]
      /\ transcript'[n + 1] = Row(t, "tool_call", "turn")
      /\ transcript'[n + 2] = Row(t, "tool_result", "turn")
  BY <1>1, RowsTyped
<1> HIDE DEF n
<1>3. Unwritten'
  BY <1>1, <1>2 DEF Written, Unwritten, OwnRow, Row
<1>4. OpenTail'
  <2>1. \A u \in Turns : turn'[u].pc \in ActiveStates => u = t OBVIOUS
  <2>2. \A i, j \in DOMAIN transcript' :
          i < j /\ OwnRow(i, t)' /\ transcript'[j].by = "turn" => OwnRow(j, t)'
    BY <1>1, <1>2 DEF Written, OpenTail, OwnRow, Row
  <2> QED BY <2>1, <2>2 DEF OpenTail
<1>5. Contiguous'
  BY <1>1, <1>2 DEF Written, OpenTail, OwnRow, Contiguous, Row
<1>6. ToolRowsPaired'
  <2> SUFFICES ASSUME NEW i \in DOMAIN transcript', transcript'[i].role = "tool_call"
               PROVE  /\ i + 1 \in DOMAIN transcript'
                      /\ transcript'[i + 1] = [transcript'[i] EXCEPT !.role = "tool_result"]
    BY DEF ToolRowsPaired
  <2>1. CASE i \in 1 .. n
    BY <1>1, <1>2, <2>1 DEF Written, ToolRowsPaired
  <2>2. CASE i = n + 1
    <3>1. i + 1 = n + 2 /\ n + 2 \in 1 .. (n + 2) BY <1>1, <2>2
    <3> QED BY <1>2, <2>2, <3>1, RowsTyped
  <2>3. CASE i = n + 2
    <3>1. Row(t, "tool_result", "turn").role = "tool_result" BY DEF Row
    <3> QED BY <1>2, <2>3, <3>1
  <2>4. i \in 1 .. n \/ i = n + 1 \/ i = n + 2
    <3>1. i \in 1 .. (n + 2) BY <1>2
    <3> QED BY <1>1, <3>1
  <2> QED BY <2>1, <2>2, <2>3, <2>4
<1> QED BY <1>3, <1>4, <1>5, <1>6 DEF Written

LEMMA WrittenStep == Typed /\ SlotIsTask /\ Written /\ [Next]_vars => Written'
<1> SUFFICES ASSUME Typed, SlotIsTask, Written, [Next]_vars PROVE Written' OBVIOUS
<1>1. CASE UNCHANGED vars BY <1>1, WrittenQuiet DEF vars
<1>2. ASSUME NEW t \in Turns, TurnStep(t) \/ BroadcastRaises(t) PROVE Written'
  <2>1. TurnMoves(t) /\ RowsMove(t) BY <1>2, TaskStep DEF TaskMoves
  <2>2. turn[t].pc \in ActiveStates /\ \A u \in Turns \ {t} : turn'[u] = turn[u]
    BY <2>1 DEF TurnMoves
  <2>3. \A u \in Turns \ {t} : turn[u].pc \notin ActiveStates
    BY <2>2 DEF SlotIsTask
  <2>4. /\ turn'[t].pc \notin {"absent", "reserved"}
        /\ turn'[t].pc = "posting" => turn[t].pc = "reserved"
    BY <1>2, TaskStep DEF PcMoves
  <2>5. CASE transcript' = transcript
    BY <2>2, <2>4, <2>5, WrittenQuiet
  <2>6. CASE turn[t].pc = "recording" /\ transcript' = transcript \o Pair(t)
    BY <2>2, <2>3, <2>4, <2>6, WrittenPair
  <2>7. CASE /\ turn[t].pc \in {"posting", "saving"}
             /\ \E role \in {"user", "assistant"} :
                   transcript' = Append(transcript, Row(t, role, "turn"))
    BY <2>2, <2>3, <2>4, <2>7, WrittenAppend
  <2> QED BY <2>1, <2>5, <2>6, <2>7 DEF RowsMove
<1>3. ASSUME NEW t \in Turns, ToolActs(t) PROVE Written'
  BY <1>3, WrittenQuiet DEF ToolActs, rows
<1>4. ASSUME NEW c \in Conns, ConnStep(c) PROVE Written'
  <2>1. turn' = turn BY <1>4, ConnStepFrame
  <2>2. CASE transcript' = transcript BY <2>1, <2>2, WrittenQuiet
  <2>3. CASE /\ conn[c].pc = "saving"
             /\ transcript' = Append(transcript, Row(conn[c].cur, "assistant", "sweep"))
    <3>1. conn[c].cur \in Turns BY <2>3 DEF Typed, SweepShape
    <3> QED BY <2>1, <2>3, <3>1, WrittenAppend
  <2> QED BY <1>4, <2>2, <2>3, ConnStepRows DEF SweepRowsMove
<1>5. ASSUME NEW c \in Conns, SendStep(c) PROVE Written'
  BY <1>5, SendStepFrame, WrittenQuiet DEF rows
<1>6. CASE ProcessExits
  BY <1>6, WrittenQuiet DEF ProcessExits, rows, NoTurn, ActiveStates
<1>7. CASE Boot BY <1>7, WrittenQuiet DEF Boot, rows
<1> QED BY <1>1, <1>2, <1>3, <1>4, <1>5, <1>6, <1>7, NextCases

LEMMA WrittenInvariant == Spec => [](Typed /\ SlotIsTask /\ Written)
<1>1. Init => Written BY WrittenInit
<1>2. Typed /\ SlotIsTask /\ Written /\ [Next]_vars => Written' BY WrittenStep
<1> QED BY <1>1, <1>2, SlotInvariant, PTL DEF Spec

\* A tool call is in the transcript with its result right behind it, or not at all.
THEOREM CallsAreAnswered == Spec => []ToolRowsPaired
<1>1. Written => ToolRowsPaired BY DEF Written
<1> QED BY <1>1, WrittenInvariant, PTL

\* The rows of one turn are not cut by another turn's.
THEOREM RowsDontInterleave == Spec => []TurnsDontInterleave
<1>1. ASSUME NEW a, NEW b, NEW c, {a, b, c} = {"turn"}
      PROVE  a = "turn" /\ b = "turn" /\ c = "turn"
  BY <1>1
<1>2. Written => TurnsDontInterleave
  BY <1>1 DEF Written, Contiguous, TurnsDontInterleave
<1> QED BY <1>2, WrittenInvariant, PTL

-----------------------------------------------------------------------------
(* The traces.                                                              *)

\* A turn finishes as complete only behind its answer.
LastIsAnswer(t) ==
    \E i \in DOMAIN transcript :
        /\ transcript[i] = Row(t, "assistant", "turn")
        /\ \A k \in DOMAIN transcript : OwnRow(k, t) => k <= i
FinishingAnswered ==
    \A t \in Turns : turn[t].pc = "finishing" /\ turn[t].how = "complete" => LastIsAnswer(t)
CompleteIsDone ==
    \A t \in Turns : trace[t] = "complete" => turn[t].pc = "done" /\ LastIsAnswer(t)

Ended == FinishingAnswered /\ CompleteIsDone

LEMMA EndedInit == Init => Ended
BY DEF Init, Ended, FinishingAnswered, CompleteIsDone, NoTurn

\* Rows are added at the end only.
Grows ==
    /\ DOMAIN transcript \subseteq DOMAIN transcript'
    /\ \A i \in DOMAIN transcript : transcript'[i] = transcript[i]
AddsNoneOf(t) ==
    \A i \in DOMAIN transcript' \ DOMAIN transcript : ~ OwnRow(i, t)'

LEMMA LastStays ==
    ASSUME NEW t \in Turns, LastIsAnswer(t), Grows, AddsNoneOf(t)
    PROVE  LastIsAnswer(t)'
BY DEF LastIsAnswer, Grows, AddsNoneOf, OwnRow

LEMMA RowsGrow ==
    ASSUME Typed, [Next]_vars
    PROVE  Grows
<1>1. transcript \in Seq(Rows) BY DEF Typed, TypeOK
<1>2. CASE transcript' = transcript BY <1>2 DEF Grows
<1>3. ASSUME NEW r \in Rows, transcript' = Append(transcript, r) PROVE Grows
  BY <1>1, <1>3 DEF Grows
<1>4. ASSUME NEW t \in Turns, transcript' = transcript \o Pair(t) PROVE Grows
  BY <1>1, <1>4, RowsTyped DEF Grows
<1>5. ASSUME NEW t \in Turns, TurnStep(t) \/ BroadcastRaises(t) PROVE Grows
  <2>1. RowsMove(t) BY <1>5, TaskStep DEF TaskMoves
  <2> QED BY <1>2, <1>3, <1>4, <2>1, RowsTyped DEF RowsMove
<1>6. ASSUME NEW c \in Conns, ConnStep(c) PROVE Grows
  BY <1>2, <1>3, <1>6, ConnStepRows, RowsTyped DEF SweepRowsMove, Typed, SweepShape
<1>7. ASSUME NEW c \in Conns, SendStep(c) PROVE Grows
  BY <1>2, <1>7, SendStepFrame DEF rows
<1> QED
  BY <1>2, <1>5, <1>6, <1>7, NextCases DEF vars, ToolActs, ProcessExits, Boot, rows

LEMMA EndedQuiet ==
    ASSUME Ended, Grows, \A t \in Turns : AddsNoneOf(t),
           \A t \in Turns : trace'[t] = "complete" => trace[t] = "complete",
           \A t \in Turns : /\ turn'[t].pc = "finishing" =>
                                turn[t].pc = "finishing" /\ turn'[t].how = turn[t].how
                            /\ turn[t].pc = "done" => turn'[t].pc = "done"
    PROVE  Ended'
BY LastStays DEF Ended, FinishingAnswered, CompleteIsDone

LEMMA EndedStep == Typed /\ SlotIsTask /\ Ended /\ [Next]_vars => Ended'
<1> SUFFICES ASSUME Typed, SlotIsTask, Ended, [Next]_vars PROVE Ended' OBVIOUS
<1>0. /\ Grows /\ transcript \in Seq(Rows)
      /\ trace \in [Turns -> Outcomes \cup {"none", "running"}]
      /\ turn \in [Turns -> TurnRecords]
  BY RowsGrow DEF Typed, TypeOK
<1>1. CASE UNCHANGED vars BY <1>0, <1>1, EndedQuiet DEF vars, AddsNoneOf
<1>2. ASSUME NEW t \in Turns, TurnStep(t) \/ BroadcastRaises(t) PROVE Ended'
  <2>1. TurnMoves(t) /\ RowsMove(t) /\ TraceMoves(t) /\ PcMoves(t)
    BY <1>2, TaskStep DEF TaskMoves
  <2>2. turn[t].pc \in ActiveStates /\ \A u \in Turns \ {t} : turn'[u] = turn[u]
    BY <2>1 DEF TurnMoves
  <2>3. \A u \in Turns \ {t} : turn[u].pc # "finishing"
    BY <2>2 DEF SlotIsTask, ActiveStates
  <2>4. \A u \in Turns \ {t} : AddsNoneOf(u)
    <3>1. CASE transcript' = transcript BY <3>1 DEF AddsNoneOf
    <3>2. ASSUME NEW role \in {"user", "assistant"},
                 transcript' = Append(transcript, Row(t, role, "turn"))
          PROVE  \A u \in Turns \ {t} : AddsNoneOf(u)
      BY <1>0, <3>2 DEF AddsNoneOf, OwnRow, Row
    <3>3. CASE transcript' = transcript \o Pair(t)
      <4>1. \A i \in DOMAIN transcript' \ DOMAIN transcript :
              \/ transcript'[i] = Row(t, "tool_call", "turn")
              \/ transcript'[i] = Row(t, "tool_result", "turn")
        BY <1>0, <3>3, RowsTyped
      <4> QED BY <4>1 DEF AddsNoneOf, OwnRow, Row
    <3> QED BY <2>1, <3>1, <3>2, <3>3 DEF RowsMove
  <2>5. FinishingAnswered'
    <3> SUFFICES ASSUME turn'[t].pc = "finishing", turn'[t].how = "complete"
                 PROVE  LastIsAnswer(t)'
      BY <2>2, <2>3 DEF FinishingAnswered
    <3>1. transcript' = Append(transcript, Row(t, "assistant", "turn")) BY <2>1 DEF PcMoves
    <3>2. /\ Len(transcript) + 1 \in DOMAIN transcript'
          /\ transcript'[Len(transcript) + 1] = Row(t, "assistant", "turn")
          /\ \A k \in DOMAIN transcript' : k <= Len(transcript) + 1
      BY <1>0, <3>1, RowsTyped
    <3> QED BY <3>2 DEF LastIsAnswer
  <2>6. CompleteIsDone'
    <3>1. ASSUME NEW u \in Turns \ {t}, trace'[u] = "complete"
          PROVE  turn'[u].pc = "done" /\ LastIsAnswer(u)'
      <4>1. trace[u] = "complete" BY <1>0, <2>1, <3>1 DEF TraceMoves
      <4> QED BY <1>0, <2>2, <2>4, <3>1, <4>1, LastStays DEF Ended, CompleteIsDone
    <3>2. ASSUME trace'[t] = "complete" PROVE turn'[t].pc = "done" /\ LastIsAnswer(t)'
      <4>1. trace[t] # "complete" BY <2>2 DEF Ended, CompleteIsDone, ActiveStates
      <4>2. turn[t].pc = "finishing" /\ turn'[t].pc = "done" /\ turn[t].how = "complete"
        BY <1>0, <2>1, <3>2, <4>1 DEF TraceMoves
      <4>3. transcript' = transcript BY <2>1, <4>2 DEF RowsMove
      <4> QED BY <4>2, <4>3 DEF Ended, FinishingAnswered, LastIsAnswer, OwnRow
    <3> QED BY <3>1, <3>2 DEF CompleteIsDone
  <2> QED BY <2>5, <2>6 DEF Ended
<1>3. ASSUME NEW t \in Turns, ToolActs(t) PROVE Ended'
  BY <1>0, <1>3, EndedQuiet DEF ToolActs, rows, AddsNoneOf
<1>4. ASSUME NEW c \in Conns, ConnStep(c) PROVE Ended'
  <2>1. turn' = turn BY <1>4, ConnStepFrame
  <2>2. \A t \in Turns : AddsNoneOf(t)
    <3>1. CASE transcript' = transcript BY <3>1 DEF AddsNoneOf
    <3>2. CASE /\ conn[c].pc = "saving"
               /\ transcript' = Append(transcript, Row(conn[c].cur, "assistant", "sweep"))
      BY <1>0, <3>2 DEF AddsNoneOf, OwnRow, Row
    <3> QED BY <1>4, <3>1, <3>2, ConnStepRows DEF SweepRowsMove
  <2>3. \A t \in Turns : trace'[t] = "complete" => trace[t] = "complete"
    BY <1>0, <1>4, ConnStepTrace
  <2> QED BY <1>0, <2>1, <2>2, <2>3, EndedQuiet
<1>5. ASSUME NEW c \in Conns, SendStep(c) PROVE Ended'
  BY <1>0, <1>5, SendStepFrame, EndedQuiet DEF rows, AddsNoneOf
<1>6. CASE ProcessExits
  <2>1. \A t \in Turns : /\ turn'[t].pc # "finishing"
                         /\ turn[t].pc = "done" => turn'[t].pc = "done"
    BY <1>6 DEF ProcessExits, ActiveStates, NoTurn
  <2> QED BY <1>0, <1>6, <2>1, EndedQuiet DEF ProcessExits, rows, AddsNoneOf
<1>7. CASE Boot BY <1>0, <1>7, EndedQuiet DEF Boot, rows, AddsNoneOf
<1> QED BY <1>1, <1>2, <1>3, <1>4, <1>5, <1>6, <1>7, NextCases

\* A trace that says complete belongs to a turn that wrote its own answer, and
\* no row of its own behind it.
THEOREM CompleteMeansAnswered == Spec => []CompleteIsAnswered
<1>1. Init => Ended BY EndedInit
<1>2. Typed /\ SlotIsTask /\ Ended /\ [Next]_vars => Ended' BY EndedStep
<1>3. Ended => CompleteIsAnswered
  BY DEF Ended, CompleteIsDone, LastIsAnswer, CompleteIsAnswered, RowsOf, OwnRow, Row
<1> QED BY <1>1, <1>2, <1>3, SlotInvariant, PTL DEF Spec

-----------------------------------------------------------------------------
(* Connections: the registry and the sweep.                                 *)

\* Whoever is connected and not shut is registered, or is the one that the
\* newest is about to shut.
Served(c) == conn[c].pc \notin {"idle", "closed"} /\ ~ conn[c].shut
Registry ==
    /\ \A c \in Conns : Served(c) =>
          session = c \/ \E d \in Conns : conn[d].pc = "evicting" /\ conn[d].old = c
    /\ session # None => conn[session].pc # "idle"
    /\ \A c \in Conns : conn[c].pc = "evicting" => conn[c].old # c

\* A turn listed as an orphan stays without a task, and its trace ends only
\* behind an answer; a sweep loses none of them before its end.
Abandoned(t) ==
    /\ turn[t].pc \in {"dead", "lost"}
    /\ trace[t] = "running" \/ Answered(t)
Handled(c, t) ==
    \/ Answered(t)
    \/ t \in conn[c].todo /\ conn[c].pc \in {"resolving", "closing", "saving", "marking"}
    \/ t = conn[c].cur /\ conn[c].pc \in {"closing", "saving"}
Sweeping ==
    \A c \in Conns :
        /\ \A t \in conn[c].orphans : Abandoned(t)
        /\ conn[c].pc \in {"resolving", "closing", "saving", "marking"} \/ conn[c].swept
             => \A t \in conn[c].orphans : Handled(c, t)
        /\ conn[c].swept => conn[c].pc = "open"
        /\ conn[c].pc = "marking" => Answered(conn[c].cur)

LEMMA RegistryInit == Init => Registry /\ Sweeping
<1> SUFFICES ASSUME Init PROVE Registry /\ Sweeping OBVIOUS
<1>1. \A c \in Conns : /\ conn[c].pc = "idle" /\ conn[c].orphans = {}
                       /\ conn[c].swept = FALSE
  BY DEF Init, NoConn
<1> QED BY <1>1 DEF Init, Registry, Served, Sweeping

\* A connection that is neither new nor evicting.
LEMMA LaterConnStep ==
    ASSUME Typed, NEW c \in Conns, ConnStep(c), ~ Accept(c), ~ CloseEvicted(c)
    PROVE  /\ conn[c].pc \notin {"idle", "evicting"} /\ conn'[c].pc \notin {"idle", "evicting"}
           /\ \/ conn'[c].pc = "closed"
              \/ /\ conn[c].pc # "closed" /\ session' = session
                 /\ conn[c].shut => conn'[c].shut
           /\ session' = session \/ (session = c /\ session' = None)
<1> USE DEF ConnPc
<1>1. conn \in [Conns -> ConnRecords] /\ conn[c] \in ConnRecords BY DEF Typed, TypeOK
<1>2. CASE ListOrphans(c) BY <1>1, <1>2 DEF ListOrphans, ConnRecords
<1>3. ASSUME NEW t \in Turns, PickOrphan(c, t)
      PROVE  /\ conn[c].pc = "resolving" /\ conn'[c].pc \in {"resolving", "closing"}
             /\ (conn[c].shut => conn'[c].shut) /\ session' = session
  BY <1>1, <1>3 DEF PickOrphan, ConnRecords
<1>4. CASE ReadCloseSeq(c) BY <1>1, <1>4 DEF ReadCloseSeq, ConnRecords
<1>5. CASE SaveClosing(c) BY <1>1, <1>5 DEF SaveClosing, ConnRecords
<1>6. CASE MarkInterrupted(c) BY <1>1, <1>6 DEF MarkInterrupted, ConnRecords
<1>7. CASE SweepFails(c) BY <1>1, <1>7 DEF SweepFails, ConnRecords
<1>8. CASE SweepEnds(c) BY <1>1, <1>8 DEF SweepEnds, ConnRecords
<1>9. CASE LeaveSession(c)
  BY <1>1, <1>9 DEF LeaveSession, NoConn
<1> QED BY <1>2, <1>3, <1>4, <1>5, <1>6, <1>7, <1>8, <1>9 DEF ConnStep

LEMMA RegistryStep == Typed /\ Registry /\ [Next]_vars => Registry'
<1> SUFFICES ASSUME Typed, Registry, [Next]_vars PROVE Registry' OBVIOUS
<1> USE DEF Registry, Served
<1>0. conn \in [Conns -> ConnRecords] /\ None \notin Conns /\ session \in Conns \cup {None}
  BY AgentTurnAssumption DEF Typed, TypeOK
<1>1. CASE UNCHANGED <<conn, session>> BY <1>1
<1>2. ASSUME NEW c \in Conns, Accept(c) PROVE Registry'
  <2>1. /\ conn[c].pc = "idle" /\ conn'[c].pc = "evicting" /\ conn'[c].old = session
        /\ session' = c /\ \A d \in Conns \ {c} : conn'[d] = conn[d]
    BY <1>0, <1>2 DEF Accept, ConnPc, ConnRecords
  <2> QED BY <1>0, <2>1
<1>3. ASSUME NEW c \in Conns, CloseEvicted(c) PROVE Registry'
  <2>1. /\ session' = session
        /\ conn[c].pc = "evicting" /\ conn'[c].pc = "listing" /\ (conn[c].shut => conn'[c].shut)
    <3>1. conn'[c] = [conn[c] EXCEPT !.pc = "listing"] /\ conn[c] \in ConnRecords
      BY <1>0, <1>3, CloseEvictedMoves
    <3>2. conn'[c].pc = "listing" /\ (conn[c].shut => conn'[c].shut)
      BY <3>1 DEF ConnRecords
    <3> QED BY <1>3, <3>2, CloseEvictedMoves DEF CloseEvicted
  <2>2. \A d \in Conns \ {c} : /\ conn'[d].pc = conn[d].pc /\ conn'[d].old = conn[d].old
                              /\ (conn'[d].shut \/ (d # conn[c].old /\ conn'[d] = conn[d]))
    <3> SUFFICES ASSUME NEW d \in Conns \ {c}
                 PROVE  /\ conn'[d].pc = conn[d].pc /\ conn'[d].old = conn[d].old
                        /\ (conn'[d].shut \/ (d # conn[c].old /\ conn'[d] = conn[d]))
      OBVIOUS
    <3>1. CASE conn'[d] = conn[d] /\ d # conn[c].old BY <3>1
    <3>2. CASE conn'[d] = [conn[d] EXCEPT !.shut = TRUE] BY <1>0, <3>2 DEF ConnRecords
    <3> QED BY <1>3, <3>1, <3>2, CloseEvictedMoves
  <2> QED BY <1>0, <2>1, <2>2
<1>4. ASSUME NEW c \in Conns, ConnStep(c), ~ Accept(c), ~ CloseEvicted(c) PROVE Registry'
  BY <1>0, <1>4, LaterConnStep, ConnStepMoves DEF ConnMoves
<1>5. CASE ProcessExits
  <2>1. /\ session' = None
        /\ \A c \in Conns : conn'[c].pc \in {"idle", "closed"}
    BY <1>5 DEF ProcessExits, NoConn
  <2> QED BY <2>1
<1>6. ASSUME NEW c \in Conns, SendStep(c) PROVE Registry'
  BY <1>1, <1>6, SendStepFrame DEF transport
<1>7. ASSUME NEW t \in Turns, TurnStep(t) \/ BroadcastRaises(t) PROVE Registry'
  BY <1>1, <1>7, TaskStep DEF TaskMoves, TurnMoves
<1> QED
  BY <1>1, <1>2, <1>3, <1>4, <1>5, <1>6, <1>7, NextCases DEF vars, ToolActs, Boot, transport

\* The newest connection is registered while it is served: an older socket
\* that ends late does not unregister its successor.
THEOREM NewestStaysRegistered == Spec => []NewestIsRegistered
<1>1. Init => Typed /\ Registry BY TypedInit, RegistryInit
<1>2. Typed /\ Registry /\ [Next]_vars => (Typed /\ Registry)' BY TypedStep, RegistryStep
<1>3. Registry => NewestIsRegistered
  BY DEF Registry, Served, NewestIsRegistered, Listening, ConnPc
<1> QED BY <1>1, <1>2, <1>3, PTL DEF Spec

LEMMA AnsweredStays ==
    ASSUME NEW t \in Turns, Answered(t), Grows
    PROVE  Answered(t)'
BY DEF Answered, RowsOf, Grows

LEMMA AbandonedStays ==
    ASSUME Typed, Sweeping, NEW t \in Turns, Abandoned(t), [Next]_vars
    PROVE  Abandoned(t)'
<1>0. /\ Answered(t) => Answered(t)'
      /\ trace \in [Turns -> Outcomes \cup {"none", "running"}]
      /\ turn \in [Turns -> TurnRecords]
  BY RowsGrow, AnsweredStays DEF Typed, TypeOK
<1>1. CASE turn'[t] = turn[t] /\ trace'[t] = trace[t] BY <1>0, <1>1 DEF Abandoned
<1>2. ASSUME NEW u \in Turns, TurnStep(u) \/ BroadcastRaises(u) PROVE Abandoned(t)'
  <2>1. TurnMoves(u) /\ TraceMoves(u) BY <1>2, TaskStep DEF TaskMoves
  <2>2. u # t BY <2>1 DEF TurnMoves, Abandoned, ActiveStates
  <2>3. turn'[t] = turn[t] /\ trace'[t] = trace[t]
    BY <1>0, <2>1, <2>2 DEF TurnMoves, TraceMoves
  <2> QED BY <1>1, <2>3
<1>3. ASSUME NEW c \in Conns, ConnStep(c) PROVE Abandoned(t)'
  <2>1. turn' = turn BY <1>3, ConnStepFrame
  <2>2. CASE trace' = trace BY <1>1, <2>1, <2>2
  <2>3. CASE /\ conn[c].pc = "marking" /\ conn[c].cur \in Turns
             /\ trace' = [trace EXCEPT ![conn[c].cur] = "interrupted"]
    BY <1>0, <2>1, <2>3 DEF Abandoned, Sweeping
  <2> QED BY <1>3, <2>2, <2>3, ConnStepTrace
<1>4. ASSUME NEW c \in Conns, SendStep(c) PROVE Abandoned(t)'
  BY <1>0, <1>4, SendStepFrame DEF Abandoned, rows
<1>5. CASE ProcessExits
  BY <1>0, <1>1, <1>5 DEF ProcessExits, Abandoned, ActiveStates, rows
<1> QED
  BY <1>1, <1>2, <1>3, <1>4, <1>5, NextCases DEF vars, ToolActs, Boot, rows

\* One connection's part of the sweep.
Swept(c) ==
    /\ \A t \in conn[c].orphans : Abandoned(t)
    /\ conn[c].pc \in {"resolving", "closing", "saving", "marking"} \/ conn[c].swept
         => \A t \in conn[c].orphans : Handled(c, t)
    /\ conn[c].swept => conn[c].pc = "open"
    /\ conn[c].pc = "marking" => Answered(conn[c].cur)

LEMMA SweptStays ==
    ASSUME Typed, Sweeping, [Next]_vars, NEW c \in Conns,
           conn'[c] = conn[c] \/ conn'[c] = [conn[c] EXCEPT !.shut = TRUE]
    PROVE  Swept(c)'
<1>1. conn[c] \in ConnRecords BY DEF Typed, TypeOK
<1>2. /\ conn'[c].pc = conn[c].pc /\ conn'[c].orphans = conn[c].orphans
      /\ conn'[c].swept = conn[c].swept /\ conn'[c].todo = conn[c].todo
      /\ conn'[c].cur = conn[c].cur
  BY <1>1 DEF ConnRecords
<1>3. conn[c].orphans \subseteq Turns BY <1>1 DEF ConnRecords
<1>4. Swept(c) BY DEF Sweeping, Swept
<1>5. \A t \in Turns : Answered(t) => Answered(t)' BY RowsGrow, AnsweredStays
<1>6. \A t \in Turns : Abandoned(t) => Abandoned(t)' BY AbandonedStays
<1>7. conn[c].pc = "marking" => conn[c].cur \in Turns BY DEF Typed, SweepShape
<1> QED BY <1>2, <1>3, <1>4, <1>5, <1>6, <1>7 DEF Swept, Handled

\* The connection's own steps.
LEMMA SweptStep ==
    ASSUME Typed, Sweeping, [Next]_vars, NEW c \in Conns, ConnStep(c)
    PROVE  Swept(c)'
<1> USE DEF ConnPc
<1>1. conn \in [Conns -> ConnRecords] /\ conn[c] \in ConnRecords BY DEF Typed, TypeOK
<1>2. conn[c].orphans \subseteq Turns BY <1>1 DEF ConnRecords
<1>3. Swept(c) BY DEF Sweeping, Swept
<1>4. \A t \in Turns : Answered(t) => Answered(t)' BY RowsGrow, AnsweredStays
<1>5. \A t \in Turns : Abandoned(t) => Abandoned(t)' BY AbandonedStays
<1>6. conn[c].pc \in {"closing", "saving", "marking"} => conn[c].cur \in Turns
  BY DEF Typed, SweepShape
<1>7. CASE Accept(c)
  <2>1. /\ conn'[c].pc = "evicting" /\ conn'[c].orphans = conn[c].orphans
        /\ conn'[c].swept = conn[c].swept /\ conn[c].pc = "idle"
    BY <1>1, <1>7 DEF Accept, ConnRecords
  <2> QED BY <1>2, <1>3, <1>5, <2>1 DEF Swept
<1>8. CASE CloseEvicted(c)
  <2>1. conn'[c] = [conn[c] EXCEPT !.pc = "listing"] /\ conn[c].pc = "evicting"
    BY <1>8, CloseEvictedMoves
  <2>2. /\ conn'[c].pc = "listing" /\ conn'[c].orphans = conn[c].orphans
        /\ conn'[c].swept = conn[c].swept
    BY <1>1, <2>1 DEF ConnRecords
  <2> QED BY <1>2, <1>3, <1>5, <2>1, <2>2 DEF Swept
<1>9. CASE ListOrphans(c)
  <2> DEFINE os == {t \in Turns : /\ turn[t].pc \in {"dead", "lost"}
                                  /\ trace[t] = "running" /\ ~ Answered(t)}
  <2>1. /\ conn'[c].pc = "resolving" /\ conn'[c].orphans = os /\ conn'[c].todo = Orphans
        /\ conn'[c].swept = conn[c].swept /\ conn[c].pc = "listing"
    BY <1>1, <1>9 DEF ListOrphans, ConnRecords
  <2>2. \A t \in os : t \in Orphans /\ Abandoned(t) /\ t \in Turns BY DEF Orphans, Abandoned
  <2> HIDE DEF os
  <2> QED BY <1>3, <1>5, <2>1, <2>2 DEF Swept, Handled
<1>10. ASSUME NEW t \in Turns, PickOrphan(c, t) PROVE Swept(c)'
  <2>1. /\ conn[c].pc = "resolving" /\ conn'[c].orphans = conn[c].orphans
        /\ conn'[c].swept = conn[c].swept /\ conn'[c].todo = conn[c].todo \ {t}
        /\ \/ trace[t] = "running" /\ conn'[c].pc = "closing" /\ conn'[c].cur = t
           \/ trace[t] # "running" /\ conn'[c].pc = "resolving"
    BY <1>1, <1>10 DEF PickOrphan, ConnRecords
  <2>2. \A u \in conn[c].orphans : Answered(u) \/ u \in conn[c].todo
    BY <1>3, <2>1 DEF Swept, Handled
  <2>3. t \in conn[c].orphans /\ trace[t] # "running" => Answered(t)
    BY <1>3 DEF Swept, Abandoned
  <2>4. \A u \in conn[c].orphans : Handled(c, u)'
    BY <1>2, <1>4, <2>1, <2>2, <2>3 DEF Handled
  <2> QED BY <1>2, <1>3, <1>5, <2>1, <2>4 DEF Swept
<1>11. CASE ReadCloseSeq(c)
  <2>1. /\ conn[c].pc = "closing" /\ conn'[c].pc = "saving" /\ conn'[c].orphans = conn[c].orphans
        /\ conn'[c].swept = conn[c].swept /\ conn'[c].todo = conn[c].todo
        /\ conn'[c].cur = conn[c].cur
    BY <1>1, <1>11 DEF ReadCloseSeq, ConnRecords
  <2> QED BY <1>2, <1>3, <1>4, <1>5, <2>1 DEF Swept, Handled
<1>12. CASE SaveClosing(c)
  <2>1. /\ conn[c].pc = "saving" /\ conn'[c].pc = "marking" /\ conn'[c].orphans = conn[c].orphans
        /\ conn'[c].swept = conn[c].swept /\ conn'[c].todo = conn[c].todo
        /\ conn'[c].cur = conn[c].cur
        /\ transcript' = Append(transcript, Row(conn[c].cur, "assistant", "sweep"))
    BY <1>1, <1>12 DEF SaveClosing, ConnRecords
  <2>2. Answered(conn[c].cur)'
    <3>1. /\ Len(transcript) + 1 \in DOMAIN transcript'
          /\ transcript'[Len(transcript) + 1] = Row(conn[c].cur, "assistant", "sweep")
      BY <1>6, <2>1, RowsTyped DEF Typed, TypeOK
    <3> QED BY <2>1, <3>1 DEF Answered, RowsOf, Row
  <2> QED BY <1>2, <1>3, <1>4, <1>5, <2>1, <2>2 DEF Swept, Handled
<1>13. CASE MarkInterrupted(c)
  <2>1. /\ conn[c].pc = "marking" /\ conn'[c].pc = "resolving" /\ conn'[c].orphans = conn[c].orphans
        /\ conn'[c].swept = conn[c].swept /\ conn'[c].todo = conn[c].todo
    BY <1>1, <1>13 DEF MarkInterrupted, ConnRecords
  <2> QED BY <1>2, <1>3, <1>4, <1>5, <2>1 DEF Swept, Handled
<1>14. CASE SweepFails(c)
  <2>1. /\ conn[c].pc = "saving" /\ conn'[c].pc = "open" /\ conn'[c].orphans = conn[c].orphans
        /\ conn'[c].swept = conn[c].swept
    BY <1>1, <1>14 DEF SweepFails, ConnRecords
  <2> QED BY <1>2, <1>3, <1>5, <2>1 DEF Swept
<1>15. CASE SweepEnds(c)
  <2>1. /\ conn[c].pc = "resolving" /\ conn'[c].pc = "open" /\ conn'[c].orphans = conn[c].orphans
        /\ conn[c].todo = {}
    BY <1>1, <1>15 DEF SweepEnds, ConnRecords
  <2>2. \A t \in conn[c].orphans : Answered(t) BY <1>3, <2>1 DEF Swept, Handled
  <2> QED BY <1>2, <1>3, <1>4, <1>5, <2>1, <2>2 DEF Swept, Handled
<1>16. CASE LeaveSession(c)
  <2>1. conn'[c].pc = "closed" /\ conn'[c].orphans = {} /\ conn'[c].swept = FALSE
    BY <1>1, <1>16 DEF LeaveSession, NoConn
  <2> QED BY <2>1 DEF Swept
<1> QED
  BY <1>7, <1>8, <1>9, <1>10, <1>11, <1>12, <1>13, <1>14, <1>15, <1>16 DEF ConnStep

LEMMA SweepingStep == Typed /\ Sweeping /\ [Next]_vars => Sweeping'
<1> SUFFICES ASSUME Typed, Sweeping, [Next]_vars, NEW c \in Conns PROVE Swept(c)'
  BY DEF Sweeping, Swept
<1>1. CASE conn' = conn BY <1>1, SweptStays
<1>2. CASE ConnStep(c) BY <1>2, SweptStep
<1>3. ASSUME NEW d \in Conns \ {c}, ConnStep(d) PROVE Swept(c)'
  <2>1. conn'[c] = conn[c] \/ conn'[c] = [conn[c] EXCEPT !.shut = TRUE]
    BY <1>3, CloseEvictedMoves, ConnStepMoves DEF ConnMoves
  <2> QED BY <2>1, SweptStays
<1>4. CASE ProcessExits
  <2>1. CASE conn'[c] = conn[c] BY <2>1, SweptStays
  <2>2. CASE conn'[c] = NoConn("closed") BY <2>2 DEF Swept, NoConn
  <2> QED BY <1>4, <2>1, <2>2 DEF ProcessExits
<1>5. ASSUME NEW t \in Turns, TurnStep(t) \/ BroadcastRaises(t) PROVE conn' = conn
  BY <1>5, TaskStep DEF TaskMoves, TurnMoves
<1>6. ASSUME NEW d \in Conns, SendStep(d) PROVE conn' = conn
  BY <1>6, SendStepFrame DEF transport
<1> QED
  BY <1>1, <1>2, <1>3, <1>4, <1>5, <1>6, NextCases DEF vars, ToolActs, Boot, transport

\* A sweep that was not abandoned has answered every unanswered turn that it
\* found without a task, however many sweeps run and whatever else is written.
THEOREM SweepAnswersOrphans == Spec => []OrphansAnswered
<1>1. Init => Typed /\ Sweeping BY TypedInit, RegistryInit
<1>2. Typed /\ Sweeping /\ [Next]_vars => (Typed /\ Sweeping)' BY TypedStep, SweepingStep
<1>3. Sweeping => OrphansAnswered
  BY DEF Sweeping, OrphansAnswered, Handled
<1> QED BY <1>1, <1>2, <1>3, PTL DEF Spec

-----------------------------------------------------------------------------
(* AgentTurn implements Consent: the initial states map to initial states   *)
(* and every step to a step of the gate or to a stutter, for every value of *)
(* the constants. First what a task's frame remembers of the request.       *)

At(t) == <<t, turn[t].call>>

\* A future has an answer only while it is awaited, and yes only from a human.
FutureAnswered ==
    \A t \in Turns :
        /\ turn[t].future # "none" => turn[t].pc = "asking"
        /\ turn[t].future = "yes" => At(t) \in yes

\* No Stop is remembered before the wait; and what is dispatched with consent
\* was granted before any.
CallGranted ==
    \A t \in Turns :
        /\ turn[t].pc \in {"parsed", "announced"} => ~ turn[t].stopped
        /\ \/ turn[t].pc = "opening" /\ turn[t].ok
           \/ turn[t].pc = "calling" /\ turn[t].tier = "confirm"
           => At(t) \in yes /\ ~ turn[t].stopped

Asked == FutureAnswered /\ CallGranted

LEMMA AskedInit == Init => Asked
BY DEF Init, Asked, FutureAnswered, CallGranted, NoTurn

\* One frame changes, and no answer is forgotten.
LEMMA AskedMoves ==
    ASSUME Asked, NEW t \in Turns, yes \subseteq yes',
           \A u \in Turns \ {t} : turn'[u] = turn[u],
           turn'[t].future # "none" => turn'[t].pc = "asking",
           turn'[t].future = "yes" => At(t)' \in yes',
           turn'[t].pc \in {"parsed", "announced"} => ~ turn'[t].stopped,
           \/ turn'[t].pc = "opening" /\ turn'[t].ok
           \/ turn'[t].pc = "calling" /\ turn'[t].tier = "confirm"
           => At(t)' \in yes' /\ ~ turn'[t].stopped
    PROVE  Asked'
BY DEF Asked, FutureAnswered, CallGranted, At

\* How a step of the task counts its calls: it ends; or the call at hand stays
\* as it is; or the next one begins, not stopped; or the wait for it begins.
CallsMove(t) ==
    \/ turn'[t].pc \in {"folded", "done", "dead"}
    \/ /\ turn'[t].pc \in ActiveStates
       /\ turn'[t].call = turn[t].call /\ (turn'[t].stopped <=> turn[t].stopped)
    \/ /\ turn'[t].pc \in ActiveStates
       /\ turn'[t].call = turn[t].call + 1 /\ ~ turn'[t].stopped
    \/ /\ turn[t].pc = "announced" /\ turn'[t].pc = "asking"
       /\ turn'[t].call = turn[t].call

LEMMA AskedTask ==
    ASSUME Typed, Asked, NEW t \in Turns, TurnStep(t) \/ BroadcastRaises(t)
    PROVE  Asked' /\ CallsMove(t) /\ UNCHANGED <<yes, acted>>
<1> DEFINE G == /\ turn'[t].future # "none" => turn'[t].pc = "asking"
                /\ turn'[t].future = "yes" => At(t)' \in yes'
                /\ turn'[t].pc \in {"parsed", "announced"} => ~ turn'[t].stopped
                /\ \/ turn'[t].pc = "opening" /\ turn'[t].ok
                   \/ turn'[t].pc = "calling" /\ turn'[t].tier = "confirm"
                   => At(t)' \in yes' /\ ~ turn'[t].stopped
           Goal == G /\ CallsMove(t) /\ UNCHANGED <<yes, acted>>
<1> USE DEF InPc
<1>1. /\ turn \in [Turns -> TurnRecords] /\ turn[t] \in TurnRecords
      /\ transcript \in Seq(Rows) /\ Len(transcript) \in Nat
  BY DEF Typed, TypeOK
<1>2. /\ turn[t].future # "none" => turn[t].pc = "asking"
      /\ turn[t].future = "yes" => At(t) \in yes
      /\ turn[t].pc \in {"parsed", "announced"} => ~ turn[t].stopped
      /\ \/ turn[t].pc = "opening" /\ turn[t].ok
         \/ turn[t].pc = "calling" /\ turn[t].tier = "confirm"
         => At(t) \in yes /\ ~ turn[t].stopped
  BY DEF Asked, FutureAnswered, CallGranted
<1>3. ASSUME ReadSeq(t) PROVE Goal
  BY <1>1, <1>2, <1>3 DEF ReadSeq, CallsMove, ActiveStates, TurnRecords, At, consent
<1>4. ASSUME PostUser(t) PROVE Goal
  BY <1>1, <1>2, <1>4 DEF PostUser, CallsMove, ActiveStates, TurnRecords, At, consent
<1>5. ASSUME StartTrace(t) PROVE Goal
  BY <1>1, <1>2, <1>5 DEF StartTrace, CallsMove, ActiveStates, TurnRecords, At, consent
<1>6. ASSUME BeginIteration(t) PROVE Goal
  BY <1>1, <1>2, <1>6 DEF BeginIteration, CallsMove, ActiveStates, TurnRecords, At, consent
<1>7. ASSUME GiveUp(t) PROVE Goal
  BY <1>1, <1>2, <1>7 DEF GiveUp, CallsMove, ActiveStates, TurnRecords, At, consent
<1>8. ASSUME StreamAnswers(t) PROVE Goal
  BY <1>1, <1>2, <1>8 DEF StreamAnswers, CallsMove, ActiveStates, TurnRecords, At, consent
<1>9. ASSUME StreamFails(t) PROVE Goal
  BY <1>1, <1>2, <1>9 DEF StreamFails, CallsMove, ActiveStates, TurnRecords, At, consent
<1>10. ASSUME AnnounceRequest(t) PROVE Goal
  BY <1>1, <1>2, <1>10 DEF AnnounceRequest, CallsMove, ActiveStates, TurnRecords, At, consent
<1>11. ASSUME RegisterRequest(t) PROVE Goal
  BY <1>1, <1>2, <1>11 DEF RegisterRequest, CallsMove, ActiveStates, TurnRecords, At, consent
<1>12. ASSUME AskTimesOut(t) PROVE Goal
  BY <1>1, <1>2, <1>12 DEF AskTimesOut, CallsMove, ActiveStates, TurnRecords, At, consent
<1>13. ASSUME CallReturns(t) PROVE Goal
  BY <1>1, <1>2, <1>13 DEF CallReturns, CallsMove, ActiveStates, TurnRecords, At, consent
<1>14. ASSUME CallInterrupted(t) PROVE Goal
  BY <1>1, <1>2, <1>14 DEF CallInterrupted, CallsMove, ActiveStates, TurnRecords, At, consent
<1>15. ASSUME CallTimesOut(t) PROVE Goal
  BY <1>1, <1>2, <1>15 DEF CallTimesOut, CallsMove, ActiveStates, TurnRecords, At, consent
<1>16. ASSUME ReadAnswerSeq(t) PROVE Goal
  BY <1>1, <1>2, <1>16 DEF ReadAnswerSeq, CallsMove, ActiveStates, TurnRecords, At, consent
<1>17. ASSUME SaveAnswer(t) PROVE Goal
  BY <1>1, <1>2, <1>17 DEF SaveAnswer, CallsMove, ActiveStates, TurnRecords, At, consent
<1>18. ASSUME BroadcastRaises(t) PROVE Goal
  BY <1>1, <1>2, <1>18 DEF BroadcastRaises, CallsMove, ActiveStates, TurnRecords, At, consent
<1>19. ASSUME AskAnswered(t) PROVE Goal
  BY <1>1, <1>2, <1>19 DEF AskAnswered, CallsMove, ActiveStates, TurnRecords, At, consent
<1>20. ASSUME OpenCall(t) PROVE Goal
  BY <1>1, <1>2, <1>20 DEF OpenCall, CallsMove, ActiveStates, TurnRecords, At, consent
<1>21. ASSUME RecordCall(t) PROVE Goal
  <2>1. turn[t].pc = "recording" /\ UNCHANGED consent BY <1>21 DEF RecordCall
  <2>2. CASE turn' = [turn EXCEPT ![t].pc = "looping"]
    BY <1>1, <1>2, <2>1, <2>2 DEF CallsMove, ActiveStates, TurnRecords, At, consent
  <2>3. ASSUME NEW tier \in {"auto", "confirm"},
               turn' = [turn EXCEPT ![t] = [@ EXCEPT !.pc = "parsed",
                                                     !.call = turn[t].call + 1,
                                                     !.stopped = FALSE, !.tier = tier]]
        PROVE  Goal
    BY <1>1, <1>2, <2>1, <2>3 DEF CallsMove, ActiveStates, TurnRecords, At, consent
  <2> QED BY <1>21, <2>2, <2>3 DEF RecordCall
<1>22. ASSUME NEW tier \in {"auto", "confirm"}, StreamCalls(t, tier) PROVE Goal
  BY <1>1, <1>2, <1>22 DEF StreamCalls, CallsMove, ActiveStates, TurnRecords, At, consent
<1>23. ASSUME FoldDuplicate(t) \/ CallRaises(t) \/ FinishTurn(t) \/ SeqTaken(t) \/ CloseGenerator(t)
      PROVE  Goal
  BY <1>1, <1>2, <1>23
  DEF FoldDuplicate, CallRaises, FinishTurn, SeqTaken, CloseGenerator, Leave, NoTurn,
      CallsMove, consent
<1>24. Goal
  BY <1>3, <1>4, <1>5, <1>6, <1>7, <1>8, <1>9, <1>10, <1>11, <1>12, <1>13, <1>14, <1>15, <1>16, <1>17, <1>18, <1>19, <1>20, <1>21, <1>22, <1>23 DEF TurnStep
<1>25. Asked'
  <2>1. \A u \in Turns \ {t} : turn'[u] = turn[u]
    BY TaskStep DEF TaskMoves, TurnMoves
  <2> QED BY <1>24, <2>1, AskedMoves
<1> QED BY <1>24, <1>25

\* What clients and crashes do to it.
LEMMA AskedStep == Typed /\ SlotIsTask /\ Asked /\ [Next]_vars => Asked'
<1> SUFFICES ASSUME Typed, SlotIsTask, Asked, [Next]_vars PROVE Asked' OBVIOUS
<1>0. turn \in [Turns -> TurnRecords] BY DEF Typed, TypeOK
<1>1. CASE UNCHANGED <<turn, yes>>
  BY <1>1 DEF Asked, FutureAnswered, CallGranted, At
<1>2. ASSUME NEW t \in Turns, TurnStep(t) \/ BroadcastRaises(t) PROVE Asked'
  BY <1>2, AskedTask
<1>3. ASSUME NEW c \in Conns, Interrupt(c) PROVE Asked'
  <2> DEFINE r == [turn[slot] EXCEPT !.cancel = TRUE,
                     !.stopped = turn[slot].stopped \/ turn[slot].future = "pending"]
  <2>1. slot \in Turns /\ slot' = slot /\ turn' = [turn EXCEPT ![slot] = r]
        /\ yes' = yes
    BY <1>3, <1>0 DEF Interrupt, Typed, TypeOK, consent
  <2>2. /\ r.pc = turn[slot].pc /\ r.call = turn[slot].call /\ r.future = turn[slot].future
        /\ r.ok = turn[slot].ok /\ r.tier = turn[slot].tier
        /\ r.stopped => turn[slot].stopped \/ turn[slot].future = "pending"
    BY <1>0, <2>1 DEF TurnRecords
  <2> HIDE DEF r
  <2>3. /\ turn'[slot] = r /\ \A u \in Turns \ {slot} : turn'[u] = turn[u]
        /\ At(slot)' = At(slot)
    BY <1>0, <2>1, <2>2 DEF At
  <2> QED BY <2>1, <2>2, <2>3 DEF Asked, FutureAnswered, CallGranted, At
<1>4. ASSUME NEW c \in Conns, NEW t \in Turns, NEW x \in Texts, UserMessage(c, t, x)
      PROVE  Asked'
  <2>1. /\ yes' = yes /\ turn[t].pc = "absent" /\ turn'[t].pc = "reserved"
        /\ turn'[t].future = turn[t].future
        /\ \A u \in Turns \ {t} : turn'[u] = turn[u]
    BY <1>0, <1>4 DEF UserMessage, consent, TurnRecords
  <2> QED BY <2>1, AskedMoves DEF Asked, FutureAnswered
<1>5. ASSUME NEW c \in Conns, NEW k \in Calls, NEW approved \in BOOLEAN,
             Respond(c, k[1], k[2], approved)
      PROVE  Asked'
  <2> DEFINE a == IF approved THEN "yes" ELSE "no"
             r == [turn[k[1]] EXCEPT !.future = a]
  <2>1. k[1] \in Turns /\ k = <<k[1], k[2]>> BY DEF Calls
  <2>2. yes \subseteq yes' /\ (approved => k \in yes') BY <1>5, <2>1 DEF Respond
  <2>3. CASE turn' = turn
    BY <2>2, <2>3 DEF Asked, FutureAnswered, CallGranted, At
  <2>4. CASE /\ turn[k[1]].call = k[2] /\ turn[k[1]].future = "pending"
             /\ turn' = [turn EXCEPT ![k[1]] = r]
    <3>1. /\ r.pc = turn[k[1]].pc /\ r.call = turn[k[1]].call /\ r.future = a
          /\ r.ok = turn[k[1]].ok /\ r.tier = turn[k[1]].tier
          /\ r.stopped = turn[k[1]].stopped
      BY <1>0, <2>1 DEF TurnRecords
    <3> HIDE DEF r
    <3>2. turn[k[1]].pc = "asking" BY <2>1, <2>4 DEF Asked, FutureAnswered
    <3>3. /\ turn'[k[1]] = r /\ \A u \in Turns \ {k[1]} : turn'[u] = turn[u]
      BY <1>0, <2>1, <2>4
    <3>4. At(k[1])' = k BY <2>1, <2>4, <3>1, <3>3 DEF At
    <3> QED BY <2>1, <2>2, <3>1, <3>2, <3>3, <3>4, AskedMoves
  <2> QED BY <1>5, <2>3, <2>4 DEF Respond
<1>6. CASE ProcessExits
  <2>1. /\ yes' = yes
        /\ \A t \in Turns : \/ turn'[t] = turn[t] /\ turn[t].pc \notin ActiveStates
                            \/ turn'[t].pc = "lost" /\ turn'[t].future = "none"
    BY <1>0, <1>6 DEF ProcessExits, consent, NoTurn
  <2> QED BY <2>1 DEF Asked, FutureAnswered, CallGranted, At
<1>7. ASSUME NEW c \in Conns, ConnStep(c) PROVE Asked'
  BY <1>1, <1>7, ConnStepFrame DEF consent
<1> QED
  BY <1>1, <1>2, <1>3, <1>4, <1>5, <1>6, <1>7, NextCases
  DEF vars, ToolActs, Boot, SendStep, consent

LEMMA AskedInvariant == Spec => [](Typed /\ SlotIsTask /\ Asked)
<1>1. Typed /\ SlotIsTask /\ Asked /\ [Next]_vars => Asked' BY AskedStep
<1> QED BY <1>1, AskedInit, SlotInvariant, PTL DEF Spec

-----------------------------------------------------------------------------
(* The step simulation.                                                     *)

StatusOf(k) ==
    IF k \in acted THEN "acted"
    ELSE IF Passed(k) THEN "over"
    ELSE IF turn[k[1]].call = k[2] /\ turn[k[1]].stopped THEN "withdrawn"
    ELSE IF k \in yes THEN "granted" ELSE "none"

Keeps(k) == StatusOf(k)' = StatusOf(k)
Ends(k)  == StatusOf(k)' = "over" /\ StatusOf(k) # "acted"

LEMMA StatusIs ==
    /\ RequestStatus = [k \in Calls |-> StatusOf(k)]
    /\ RequestStatus' = [k \in Calls |-> StatusOf(k)']
<1>1. \A k \in Calls : RequestStatus[k] = StatusOf(k)
  BY DEF RequestStatus, StatusOf
<1>2. \A k \in Calls : RequestStatus'[k] = StatusOf(k)'
  BY DEF RequestStatus, StatusOf
<1>3. /\ RequestStatus = [k \in Calls |-> RequestStatus[k]]
      /\ RequestStatus' = [k \in Calls |-> RequestStatus'[k]]
  BY DEF RequestStatus
<1> QED BY <1>1, <1>2, <1>3

\* Requests that do not act end together, and the others stay: a step of the
\* gate, or a stutter.
LEMMA ClosingStep ==
    ASSUME \A k \in Calls : Keeps(k) \/ Ends(k)
    PROVE  Gate!Next
<1> DEFINE ks == {k \in Calls : Ends(k)}
<1>1. RequestStatus' = [k \in Calls |->
        IF k \in ks /\ RequestStatus[k] # "acted" THEN "over" ELSE RequestStatus[k]]
  BY StatusIs DEF Keeps, Ends
<1>2. Gate!Close(ks) BY <1>1 DEF Gate!Close
<1> QED BY <1>2 DEF Gate!Next

\* One request moves on.
LEMMA MovingStep ==
    ASSUME NEW k \in Calls,
           \A j \in Calls \ {k} : Keeps(j),
           \/ StatusOf(k) = "none" /\ StatusOf(k)' = "granted"
           \/ StatusOf(k) \in {"none", "granted"} /\ StatusOf(k)' = "withdrawn"
           \/ StatusOf(k) = "granted" /\ StatusOf(k)' = "acted"
    PROVE  Gate!Next
<1>1. RequestStatus' = [RequestStatus EXCEPT ![k] = StatusOf(k)'] BY StatusIs DEF Keeps
<1>2. RequestStatus[k] = StatusOf(k) BY StatusIs
<1>3. Gate!Grant(k) \/ Gate!Withdraw(k) \/ Gate!Act(k)
  BY <1>1, <1>2 DEF Gate!Grant, Gate!Withdraw, Gate!Act, Gate!Move
<1> QED BY <1>3 DEF Gate!Next

\* The call at hand is a request.
LEMMA CallAt ==
    ASSUME Typed, NEW t \in Turns,
           turn[t].pc \in {"parsed", "announced", "asking", "opening", "calling", "recording"}
    PROVE  \E k \in Calls : k = <<t, turn[t].call>>
<1>1. turn[t].call > 0 BY DEF Typed, CallShape
<1>2. turn[t].call \in 0 .. MaxCalls BY DEF Typed, TypeOK, TurnRecords
<1>3. turn[t].call \in 1 .. MaxCalls BY <1>1, <1>2, AgentTurnAssumption
<1> QED BY <1>3 DEF Calls

LEMMA StatusInit == Init => Gate!Init
<1> SUFFICES ASSUME Init PROVE Gate!Init OBVIOUS
<1>1. \A k \in Calls : StatusOf(k) = "none"
  <2> SUFFICES ASSUME NEW k \in Calls PROVE StatusOf(k) = "none" OBVIOUS
  <2>1. k[1] \in Turns /\ k[2] \in 1 .. MaxCalls BY DEF Calls
  <2>2. turn[k[1]].pc = "absent" /\ turn[k[1]].call = 0 BY <2>1 DEF Init, NoTurn
  <2> QED BY <2>1, <2>2, AgentTurnAssumption DEF Init, StatusOf, Passed
<1> QED BY <1>1, StatusIs DEF Gate!Init

\* A task's own steps close the requests it leaves behind, or withdraw the one
\* it begins to wait for behind a Stop.
LEMMA GateTask ==
    ASSUME Typed, SlotIsTask, Asked, NEW t \in Turns, TurnStep(t) \/ BroadcastRaises(t)
    PROVE  Gate!Next
<1>1. /\ CallsMove(t) /\ UNCHANGED <<yes, acted>>
      /\ turn[t].pc \in ActiveStates /\ \A u \in Turns \ {t} : turn'[u] = turn[u]
  BY AskedTask, TaskStep DEF TaskMoves, TurnMoves
<1>2. \A k \in Calls : k[1] \in Turns /\ k[2] \in 1 .. MaxCalls /\ k = <<k[1], k[2]>>
  BY DEF Calls
<1>3. turn[t].call \in Nat /\ MaxCalls \in Nat
  BY AgentTurnAssumption DEF Typed, TypeOK, TurnRecords
<1>4. \A k \in Calls : k[1] # t => Keeps(k)
  BY <1>1, <1>2 DEF Keeps, StatusOf, Passed
<1>5. CASE turn'[t].pc \in {"folded", "done", "dead"}
  <2>1. \A k \in Calls : k[1] = t => Keeps(k) \/ Ends(k)
    BY <1>1, <1>5 DEF Keeps, Ends, StatusOf, Passed, ActiveStates
  <2> QED BY <1>4, <2>1, ClosingStep
<1>6. CASE /\ turn'[t].pc \in ActiveStates
           /\ turn'[t].call = turn[t].call /\ (turn'[t].stopped <=> turn[t].stopped)
  <2>1. \A k \in Calls : k[1] = t => Keeps(k)
    BY <1>1, <1>6 DEF Keeps, StatusOf, Passed
  <2> QED BY <1>4, <2>1, ClosingStep
<1>7. CASE /\ turn'[t].pc \in ActiveStates
           /\ turn'[t].call = turn[t].call + 1 /\ ~ turn'[t].stopped
  <2>1. ASSUME NEW k \in Calls, k[1] = t
        PROVE  Keeps(k) \/ Ends(k)
    <3>1. k[2] \in Nat BY <1>2, <1>3
    <3>2. CASE k[2] <= turn[t].call
      BY <1>1, <1>3, <1>7, <2>1, <3>1, <3>2 DEF Keeps, Ends, StatusOf, Passed
    <3>3. CASE k[2] > turn[t].call
      BY <1>1, <1>3, <1>7, <2>1, <3>1, <3>3 DEF Keeps, Ends, StatusOf, Passed
    <3> QED BY <1>3, <3>1, <3>2, <3>3
  <2> QED BY <1>4, <2>1, ClosingStep
<1>8. CASE /\ turn[t].pc = "announced" /\ turn'[t].pc = "asking"
           /\ turn'[t].call = turn[t].call
  <2>1. ~ turn[t].stopped BY <1>8 DEF Asked, CallGranted
  <2>0. PICK k \in Calls : k = <<t, turn[t].call>> BY <1>8, CallAt
  <2>2. k[1] = t /\ k[2] = turn[t].call BY <2>0
  <2>3. \A j \in Calls \ {k} : j[1] = t => j[2] # turn[t].call BY <1>2, <2>0
  <2>4. \A j \in Calls \ {k} : j[1] = t => Keeps(j)
    BY <1>1, <1>8, <2>3 DEF Keeps, StatusOf, Passed, ActiveStates
  <2>5. \/ Keeps(k)
        \/ StatusOf(k) \in {"none", "granted"} /\ StatusOf(k)' = "withdrawn"
    BY <1>1, <1>3, <1>8, <2>1, <2>2 DEF Keeps, StatusOf, Passed, ActiveStates
  <2>6. \A j \in Calls \ {k} : Keeps(j) BY <1>4, <2>4
  <2>7. CASE Keeps(k) BY <2>6, <2>7, ClosingStep
  <2>8. CASE StatusOf(k) \in {"none", "granted"} /\ StatusOf(k)' = "withdrawn"
    BY <2>2, <2>6, <2>8, MovingStep
  <2> QED BY <2>5, <2>7, <2>8
<1> QED BY <1>1, <1>5, <1>6, <1>7, <1>8 DEF CallsMove

LEMMA GateStep ==
    Typed /\ SlotIsTask /\ Asked /\ [Next]_vars => [Gate!Next]_RequestStatus
<1> SUFFICES ASSUME Typed, SlotIsTask, Asked, [Next]_vars PROVE Gate!Next OBVIOUS
<1>0. /\ turn \in [Turns -> TurnRecords]
      /\ \A k \in Calls : k[1] \in Turns /\ k[2] \in 1 .. MaxCalls /\ k = <<k[1], k[2]>>
  BY DEF Typed, TypeOK, Calls
<1>1. CASE UNCHANGED <<turn, yes, acted>>
  <2>1. \A k \in Calls : Keeps(k) BY <1>1 DEF Keeps, StatusOf, Passed
  <2> QED BY <2>1, ClosingStep
<1>2. ASSUME NEW t \in Turns, TurnStep(t) \/ BroadcastRaises(t) PROVE Gate!Next
  BY <1>2, GateTask
<1>3. ASSUME NEW t \in Turns, ToolActs(t) PROVE Gate!Next
  <2>1. /\ turn[t].pc = "calling" /\ turn[t].tier = "confirm" /\ <<t, turn[t].call>> \notin acted
        /\ acted' = acted \cup {<<t, turn[t].call>>} /\ turn' = turn /\ yes' = yes
    BY <1>3 DEF ToolActs, InPc
  <2>2. PICK k \in Calls : k = <<t, turn[t].call>>
    BY <2>1, CallAt
  <2>3. k[1] = t /\ k[2] = turn[t].call BY <2>2
  <2>4. k \in yes /\ ~ turn[t].stopped
    BY <2>1, <2>2 DEF Asked, CallGranted, At
  <2>5. ~ Passed(k)
    <3>1. turn[t].call \in Nat BY AgentTurnAssumption DEF Typed, TypeOK, TurnRecords
    <3> QED BY <2>1, <2>3, <3>1 DEF Passed, ActiveStates
  <2>6. StatusOf(k) = "granted" BY <2>1, <2>2, <2>3, <2>4, <2>5 DEF StatusOf
  <2>7. StatusOf(k)' = "acted" BY <2>1, <2>2 DEF StatusOf
  <2>8. \A j \in Calls \ {k} : Keeps(j)
    BY <2>1, <2>2 DEF Keeps, StatusOf, Passed
  <2> QED BY <2>6, <2>7, <2>8, MovingStep
<1>4. ASSUME NEW c \in Conns, Interrupt(c) PROVE Gate!Next
  <2>0. PICK t \in Turns : t = slot BY <1>4 DEF Interrupt, Typed, TypeOK
  <2> DEFINE r == [turn[t] EXCEPT !.cancel = TRUE,
                     !.stopped = turn[t].stopped \/ turn[t].future = "pending"]
  <2>1. /\ turn' = [turn EXCEPT ![t] = r] /\ yes' = yes /\ acted' = acted
    BY <1>4, <2>0 DEF Interrupt, consent
  <2>2. /\ r.pc = turn[t].pc /\ r.call = turn[t].call
        /\ turn[t].future = "pending" => r.stopped
        /\ turn[t].future # "pending" => (r.stopped <=> turn[t].stopped)
    <3>1. turn[t] \in TurnRecords BY <1>0
    <3>2. r.pc = turn[t].pc /\ r.call = turn[t].call BY <3>1 DEF TurnRecords
    <3>3. CASE turn[t].future = "pending" BY <3>1, <3>2, <3>3 DEF TurnRecords
    <3>4. CASE turn[t].future # "pending" BY <3>1, <3>2, <3>4 DEF TurnRecords
    <3> QED BY <3>3, <3>4
  <2> HIDE DEF r
  <2>3. turn'[t] = r /\ \A u \in Turns \ {t} : turn'[u] = turn[u] BY <1>0, <2>1
  <2>4. CASE turn[t].future # "pending"
    <3>1. \A k \in Calls : Keeps(k)
      BY <1>0, <2>1, <2>2, <2>3, <2>4 DEF Keeps, StatusOf, Passed
    <3> QED BY <3>1, ClosingStep
  <2>5. CASE turn[t].future = "pending"
    <3>1. turn[t].pc = "asking" BY <2>5 DEF Asked, FutureAnswered
    <3>2. PICK k \in Calls : k = <<t, turn[t].call>>
      BY <3>1, CallAt
    <3>3. k[1] = t /\ k[2] = turn[t].call BY <3>2
    <3>4. \A j \in Calls \ {k} : Keeps(j)
      BY <1>0, <2>1, <2>2, <2>3, <3>2 DEF Keeps, StatusOf, Passed
    <3>5. turn[t].call \in Nat BY AgentTurnAssumption DEF Typed, TypeOK, TurnRecords
    <3>6. \/ Keeps(k)
          \/ StatusOf(k) \in {"none", "granted"} /\ StatusOf(k)' = "withdrawn"
      BY <2>1, <2>2, <2>3, <2>5, <3>1, <3>3, <3>5 DEF Keeps, StatusOf, Passed, ActiveStates
    <3>7. CASE Keeps(k) BY <3>4, <3>7, ClosingStep
    <3>8. CASE StatusOf(k) \in {"none", "granted"} /\ StatusOf(k)' = "withdrawn"
      BY <3>4, <3>8, MovingStep
    <3> QED BY <3>6, <3>7, <3>8
  <2> QED BY <2>4, <2>5
<1>5. ASSUME NEW c \in Conns, NEW t \in Turns, NEW x \in Texts, UserMessage(c, t, x)
      PROVE  Gate!Next
  <2>1. /\ UNCHANGED <<yes, acted>> /\ turn[t].pc = "absent" /\ turn'[t].pc = "reserved"
        /\ turn'[t].call = turn[t].call /\ (turn'[t].stopped <=> turn[t].stopped)
        /\ \A u \in Turns \ {t} : turn'[u] = turn[u]
    BY <1>0, <1>5 DEF UserMessage, consent, TurnRecords
  <2>2. \A k \in Calls : Keeps(k)
    BY <1>0, <2>1 DEF Keeps, StatusOf, Passed, ActiveStates
  <2> QED BY <2>2, ClosingStep
<1>6. ASSUME NEW c \in Conns, NEW k \in Calls, NEW approved \in BOOLEAN,
             Respond(c, k[1], k[2], approved)
      PROVE  Gate!Next
  <2>1. \A t \in Turns : /\ turn'[t].pc = turn[t].pc /\ turn'[t].call = turn[t].call
                         /\ turn'[t].stopped <=> turn[t].stopped
    BY <1>0, <1>6 DEF Respond, TurnRecords
  <2>2. acted' = acted /\ yes' = (IF approved THEN yes \cup {k} ELSE yes)
    BY <1>0, <1>6 DEF Respond
  <2>3. \A j \in Calls \ {k} : Keeps(j)
    BY <1>0, <2>1, <2>2 DEF Keeps, StatusOf, Passed
  <2>4. Keeps(k) \/ (StatusOf(k) = "none" /\ StatusOf(k)' = "granted")
    BY <1>0, <2>1, <2>2 DEF Keeps, StatusOf, Passed
  <2>5. CASE Keeps(k) BY <2>3, <2>5, ClosingStep
  <2>6. CASE StatusOf(k) = "none" /\ StatusOf(k)' = "granted" BY <2>3, <2>6, MovingStep
  <2> QED BY <2>4, <2>5, <2>6
<1>7. CASE ProcessExits
  <2>1. /\ UNCHANGED <<yes, acted>>
        /\ \A t \in Turns : turn'[t] = turn[t] \/ turn'[t].pc = "lost"
    BY <1>0, <1>7 DEF ProcessExits, consent, NoTurn
  <2>2. \A k \in Calls : Keeps(k) \/ Ends(k)
    BY <1>0, <2>1 DEF Keeps, Ends, StatusOf, Passed, ActiveStates
  <2> QED BY <2>2, ClosingStep
<1>8. ASSUME NEW c \in Conns, ConnStep(c) PROVE Gate!Next
  BY <1>1, <1>8, ConnStepFrame DEF consent
<1> QED
  BY <1>1, <1>2, <1>3, <1>4, <1>5, <1>6, <1>7, <1>8, NextCases DEF vars, Boot, SendStep, consent

\* A confirm-tier tool acts only on a human's yes to that very call, once, not
\* behind a Stop that came before the wait had its answer, and not once the
\* turn is past it: AgentTurn refines Consent.
THEOREM GateIsImplemented == Spec => ImplementsConsent
<1>1. Init => Gate!Init BY StatusInit
<1>2. Typed /\ SlotIsTask /\ Asked /\ [Next]_vars => [Gate!Next]_RequestStatus BY GateStep
<1> QED BY <1>1, <1>2, AskedInvariant, PTL DEF Spec, ImplementsConsent, Gate!Spec
=============================================================================

--------------------------- MODULE Services_proof ---------------------------
(* The safety of the components of MCServices, for every value of their     *)
(* constants.  A component's invariant speaks of its own variables only, so *)
(* it is proved from the component's next-state relation alone.             *)
EXTENDS MCServices, Selection, FiniteSetTheorems, SequenceTheorems,
        WellFoundedInduction, TLAPS

-----------------------------------------------------------------------------
(* Composition.                                                             *)

\* A step of the system is, for every component, one of its steps or none.
LEMMA StepOfEach ==
    ASSUME [Next]_vars
    PROVE  /\ FeedPolls!Next \/ UNCHANGED feedVars
           /\ Profile!Next \/ UNCHANGED profileVars
           /\ CatchupPass!Next \/ UNCHANGED catchupVars
           /\ Llm!Next \/ UNCHANGED llmVars
           /\ Mcp!Next \/ UNCHANGED mcpVars
           /\ MatrixRow!Next \/ UNCHANGED matrixVars
           /\ Cache!Next \/ UNCHANGED searchVars
           /\ Voice!Next \/ UNCHANGED voiceVars
           /\ Editor!Next \/ UNCHANGED editorVars
           /\ Shell!Next \/ UNCHANGED shellVars
           /\ Pane!Next \/ UNCHANGED paneVars
           /\ NoteFiles!Next \/ UNCHANGED notesVars
           /\ Mirrors!Next \/ UNCHANGED mirrorsVars
           /\ Memory!Next \/ UNCHANGED memoryVars
           /\ Research!Next \/ UNCHANGED researchVars
BY DEF Next, Only, vars

LEMMA BoundsAreNumbers ==
    /\ MaxTime \in Nat /\ MaxFaults \in Nat /\ MaxSaves \in Nat
    /\ MaxRetries \in Nat /\ RepairRetries \in Nat /\ RepairRetries <= MaxRetries
    /\ Interval \in Nat /\ MaxSpawns \in Nat /\ MaxIds \in Nat /\ MaxLines \in Nat
    /\ MaxEdits \in Nat /\ PageSize \in Nat /\ MaxResults \in Nat
    /\ MaxHolds \in Nat /\ MaxTurns \in Nat /\ MaxSentences \in Nat
    /\ MaxTexts \in Nat /\ MaxClicks \in Nat /\ MaxBroken \in Nat
    /\ MaxMoves \in Nat /\ MaxLost \in Nat
    /\ MaxSockets \in Nat /\ MaxSends \in Nat /\ MaxDrops \in Nat
    /\ MaxVersions \in Nat /\ MaxDepth \in Nat \ {0} /\ MaxIterations \in Nat \ {0}
BY ServicesAssumption

-----------------------------------------------------------------------------
(* Induction, in a form the provers can instantiate: a set of numbers that  *)
(* holds 0 and with each number the next holds all of them.                 *)

LEMMA Induction ==
    ASSUME NEW S, 0 \in S, \A n \in Nat : n \in S => n + 1 \in S
    PROVE  \A n \in Nat : n \in S
<1> DEFINE R == OpToRel(<, Nat)
           T == {n \in Nat : n \notin S}
<1>1. SUFFICES ASSUME T # {} PROVE FALSE OBVIOUS
<1>2. IsWellFoundedOn(R, Nat) BY NatLessThanWellFounded
<1>3. \A x, y \in Nat : x < y => <<x, y>> \in R BY DEF OpToRel
<1> HIDE DEF R
<1>4. T \subseteq Nat OBVIOUS
<1>5. PICK m \in T : \A y \in T : ~ (<<y, m>> \in R)
  <2> HIDE DEF T
  <2> QED BY <1>1, <1>2, <1>4, WFMin
<1>6. m \in Nat \ {0} /\ m \notin S OBVIOUS
<1>7. m - 1 \in Nat /\ m - 1 < m /\ m - 1 + 1 = m BY <1>6
<1>8. m - 1 \notin T BY <1>3, <1>5, <1>6, <1>7
<1>9. m - 1 \in S BY <1>7, <1>8
<1> QED BY <1>6, <1>7, <1>9

-----------------------------------------------------------------------------
(* McpClient.                                                               *)

\* The answer a call returns is the one to its own request.
THEOREM AnswersAreOwn == Spec => []Mcp!OwnAnswer
<1> USE DEF Mcp!OwnAnswer
<1>1. Init => Mcp!OwnAnswer BY DEF Init, Mcp!Init
<1>2. Mcp!OwnAnswer /\ [Next]_vars => Mcp!OwnAnswer'
  <2> SUFFICES ASSUME Mcp!OwnAnswer, [Next]_vars PROVE Mcp!OwnAnswer' OBVIOUS
  <2>1. CASE UNCHANGED mcpVars BY <2>1 DEF mcpVars
  <2>2. CASE Mcp!Next
    <3>1. CASE result' = result BY <3>1
    <3>2. ASSUME NEW c \in Callers, Mcp!ReadAnswer(c) PROVE Mcp!OwnAnswer'
      <4>1. rpc[c].id = Mcp!Line(c) BY <3>2 DEF Mcp!ReadAnswer, Mcp!Own
      <4>2. result' = result \/ result' = result \cup {<<rpc[c].id, Mcp!Line(c)>>}
        BY <3>2 DEF Mcp!ReadAnswer
      <4> QED BY <4>1, <4>2
    <3>3. result' = result \/ \E c \in Callers : Mcp!ReadAnswer(c)
      BY <2>2 DEF Mcp!Next, Mcp!Begin, Mcp!Send, Mcp!SpawnStart, Mcp!SpawnEnd, Mcp!SpawnFails,
         Mcp!ReadOther, Mcp!Wait, Mcp!ReadFails, Mcp!Timeout, Mcp!Emit, Mcp!Die
    <3> QED BY <3>1, <3>2, <3>3
  <2> QED BY <2>1, <2>2, StepOfEach
<1> QED BY <1>1, <1>2, PTL DEF Spec

-----------------------------------------------------------------------------
(* Matrix.                                                                  *)

\* Rows are only added, so the row that an edit found stays in its cell.
FoundStays ==
    \A e \in Edits : edit[e] # None /\ edit[e].found # 0 =>
        edit[e].found \in DOMAIN cells[edit[e].column]

MatrixInv ==
    /\ MatrixRow!TypeOK /\ cells = [c \in Columns |-> cells[c]]
    /\ FoundStays /\ MatrixRow!CellShowsLastEdit

LEMMA OneRow == \A x : <<x>> # <<>> /\ Len(<<x>>) = 1
OBVIOUS

LEMMA MatrixInit == MatrixRow!Init => MatrixInv
<1> SUFFICES ASSUME MatrixRow!Init PROVE MatrixInv OBVIOUS
<1> USE DEF MatrixRow!Init
<1>1. 0 \in 0 .. MaxEdits BY BoundsAreNumbers
<1>2. MatrixRow!TypeOK
  <2>1. \A c \in Columns : cells[c] \in Seq(MatrixRow!Cells) OBVIOUS
  <2>2. selected \in BOOLEAN /\ raced \subseteq Columns /\ edits \in 0 .. MaxEdits
    BY <1>1
  <2>3. last \in [Columns -> 0 .. MaxEdits] BY <1>1
  <2>4. view \in [Views -> (SUBSET Custom) \cup {None}] OBVIOUS
  <2>5. edit \in [Edits -> MatrixRow!Reads \cup {None}] OBVIOUS
  <2> QED BY <2>1, <2>2, <2>3, <2>4, <2>5 DEF MatrixRow!TypeOK
<1>3. cells = [c \in Columns |-> cells[c]] OBVIOUS
<1>4. FoundStays BY DEF FoundStays
<1>5. MatrixRow!CellShowsLastEdit BY DEF MatrixRow!CellShowsLastEdit
<1> QED BY <1>2, <1>3, <1>4, <1>5 DEF MatrixInv

LEMMA CellsTyped ==
    /\ MatrixRow!Extracted \in MatrixRow!Cells
    /\ \A n \in Nat : n < MaxEdits => MatrixRow!User(n + 1) \in MatrixRow!Cells
BY BoundsAreNumbers DEF MatrixRow!Cells

\* One row more in some columns: the cell it is the first of shows it.
LEMMA MatrixInserts ==
    ASSUME MatrixInv, NEW columns \in SUBSET Columns, NEW cell \in MatrixRow!Cells,
           MatrixRow!Inserted(columns, cell)
    PROVE  /\ \A c \in Columns : cells'[c] \in Seq(MatrixRow!Cells)
           /\ cells' = [c \in Columns |-> cells'[c]]
           /\ \A c \in Columns : DOMAIN cells[c] \subseteq DOMAIN cells'[c]
           /\ \A c \in Columns \ columns : cells'[c] = cells[c]
           /\ \A c \in columns \ raced' : cells[c] = <<>> /\ cells'[c] = <<cell>>
           /\ raced \subseteq raced' /\ raced' \subseteq Columns
<1>1. \A c \in Columns : cells[c] \in Seq(MatrixRow!Cells) BY DEF MatrixInv, MatrixRow!TypeOK
<1>2. /\ cells' = [c \in Columns |-> IF c \in columns THEN Append(cells[c], cell) ELSE cells[c]]
      /\ raced' = raced \cup {c \in columns : cells[c] # <<>>}
  BY DEF MatrixRow!Inserted
<1>3. \A c \in Columns : cells'[c] \in Seq(MatrixRow!Cells)
                           /\ DOMAIN cells[c] \subseteq DOMAIN cells'[c]
  BY <1>1, <1>2
<1>4. \A c \in columns \ raced' : cells[c] = <<>> /\ cells'[c] = <<cell>>
  <2>1. Append(<<>>, cell) = <<cell>> OBVIOUS
  <2>2. \A c \in columns \ raced' : cells[c] = <<>> BY <1>2
  <2> QED BY <1>2, <2>1, <2>2
<1>5. raced' \subseteq Columns BY <1>2 DEF MatrixInv, MatrixRow!TypeOK
<1> QED BY <1>2, <1>3, <1>4, <1>5

LEMMA MatrixStep ==
    ASSUME MatrixInv, MatrixRow!Next \/ UNCHANGED matrixVars
    PROVE  MatrixInv'
<1> USE DEF MatrixInv, MatrixRow!TypeOK, FoundStays, MatrixRow!CellShowsLastEdit, MatrixRow!Reads
<1>1. CASE UNCHANGED matrixVars BY <1>1 DEF matrixVars
<1>2. CASE MatrixRow!UpdateMatrix BY <1>2 DEF MatrixRow!UpdateMatrix
<1>3. ASSUME NEW v \in Views, MatrixRow!ViewRead(v) PROVE MatrixInv'
  BY <1>3 DEF MatrixRow!ViewRead, MatrixRow!Missing
<1>4. ASSUME NEW v \in Views, MatrixRow!ViewCommit(v) PROVE MatrixInv'
  <2>1. PICK answered \in SUBSET view[v] : MatrixRow!Inserted(answered, MatrixRow!Extracted)
    BY <1>4 DEF MatrixRow!ViewCommit
  <2>2. answered \in SUBSET Columns
    BY <1>4, ServicesAssumption DEF MatrixRow!ViewCommit
  <2>3. /\ view' = [view EXCEPT ![v] = None]
        /\ UNCHANGED <<selected, edit, last, edits>>
    BY <1>4 DEF MatrixRow!ViewCommit
  <2>4. view' \in [Views -> (SUBSET Custom) \cup {None}] BY <2>3
  <2> HIDE DEF MatrixInv
  <2>5. /\ \A c \in Columns : cells'[c] \in Seq(MatrixRow!Cells)
        /\ cells' = [c \in Columns |-> cells'[c]]
        /\ \A c \in Columns : DOMAIN cells[c] \subseteq DOMAIN cells'[c]
        /\ \A c \in Columns \ answered : cells'[c] = cells[c]
        /\ \A c \in answered \ raced' : cells[c] = <<>> /\ cells'[c] = <<MatrixRow!Extracted>>
        /\ raced \subseteq raced' /\ raced' \subseteq Columns
    BY <2>1, <2>2, CellsTyped, MatrixInserts
  <2> USE DEF MatrixInv
  <2>6. FoundStays' BY <2>3, <2>5
  <2>7. MatrixRow!CellShowsLastEdit'
    <3> SUFFICES ASSUME NEW c \in Columns, c \notin raced'
                 PROVE  Len(cells'[c]) <= 1 /\ (last'[c] # 0 => cells'[c] = <<MatrixRow!User(last'[c])>>)
      OBVIOUS
    <3>1. c \notin raced BY <2>5
    <3>2. Len(cells[c]) <= 1 /\ (last[c] # 0 => cells[c] = <<MatrixRow!User(last[c])>>) BY <3>1
    <3>3. CASE c \notin answered BY <2>3, <2>5, <3>2, <3>3
    <3>4. CASE c \in answered
      <4>1. cells[c] = <<>> /\ cells'[c] = <<MatrixRow!Extracted>> BY <2>5, <3>4
      <4>2. last'[c] = 0 BY <2>3, <3>2, <4>1, OneRow
      <4> QED BY <4>1, <4>2, OneRow
    <3> QED BY <3>3, <3>4
  <2> QED BY <2>3, <2>4, <2>5, <2>6, <2>7
<1>5. ASSUME NEW e \in Edits, NEW c \in Columns, MatrixRow!EditRead(e, c) PROVE MatrixInv'
  <2>1. PICK found \in IF cells[c] = <<>> THEN {0} ELSE DOMAIN cells[c] :
            edit' = [edit EXCEPT ![e] = [column |-> c, found |-> found]]
    BY <1>5 DEF MatrixRow!EditRead
  <2>2. found \in Nat /\ (found # 0 => found \in DOMAIN cells[c])
    BY <2>1
  <2> QED BY <1>5, <2>1, <2>2 DEF MatrixRow!EditRead
<1>6. ASSUME NEW e \in Edits, MatrixRow!Entered(e), edit[e] # None
      PROVE  /\ edit[e].column \in Columns /\ edit[e].found \in Nat
             /\ MatrixRow!User(edits + 1) \in MatrixRow!Cells
             /\ edits' = edits + 1 /\ edits + 1 \in 1 .. MaxEdits
             /\ edit' = [edit EXCEPT ![e] = None]
             /\ last' = [last EXCEPT ![edit[e].column] = edits + 1]
             /\ last' \in [Columns -> 0 .. MaxEdits]
  <2>1. /\ edits < MaxEdits /\ edits' = edits + 1
        /\ edit' = [edit EXCEPT ![e] = None]
        /\ last' = [last EXCEPT ![edit[e].column] = edits + 1]
    BY <1>6 DEF MatrixRow!Entered
  <2>2. edits \in Nat /\ edits + 1 \in 1 .. MaxEdits /\ edits + 1 \in 0 .. MaxEdits
    <3>1. edits \in 0 .. MaxEdits /\ MaxEdits \in Nat BY BoundsAreNumbers
    <3> HIDE DEF MatrixInv, MatrixRow!TypeOK
    <3> QED BY <2>1, <3>1
  <2>3. edit[e].column \in Columns /\ edit[e].found \in Nat
    BY <1>6
  <2>4. last' \in [Columns -> 0 .. MaxEdits]
    BY <2>1, <2>2, <2>3
  <2> QED BY <2>1, <2>2, <2>3, <2>4, CellsTyped
<1>7. ASSUME NEW e \in Edits, MatrixRow!EditUpdate(e) PROVE MatrixInv'
  <2> DEFINE c == edit[e].column
             i == edit[e].found
             u == MatrixRow!User(edits + 1)
  <2>1. /\ edit[e] # None /\ i # 0 /\ MatrixRow!Entered(e)
        /\ cells' = [cells EXCEPT ![c][i] = u]
        /\ UNCHANGED <<selected, view, raced>>
    BY <1>7 DEF MatrixRow!EditUpdate
  <2>2. /\ c \in Columns /\ u \in MatrixRow!Cells /\ i \in DOMAIN cells[c]
        /\ edits' = edits + 1 /\ edits + 1 \in 1 .. MaxEdits
        /\ edit' = [edit EXCEPT ![e] = None]
        /\ last' = [last EXCEPT ![c] = edits + 1]
        /\ last' \in [Columns -> 0 .. MaxEdits]
    BY <1>6, <2>1
  <2> HIDE DEF c, i, u
  <2>3. /\ cells'[c] = [cells[c] EXCEPT ![i] = u]
        /\ \A d \in Columns \ {c} : cells'[d] = cells[d]
        /\ cells' = [d \in Columns |-> cells'[d]]
    BY <2>1, <2>2
  <2>4. /\ cells'[c] \in Seq(MatrixRow!Cells)
        /\ DOMAIN cells'[c] = DOMAIN cells[c] /\ Len(cells'[c]) = Len(cells[c])
    BY <2>2, <2>3
  <2>5. Len(cells[c]) <= 1 => cells'[c] = <<u>>
    BY <2>2, <2>3
  <2>6. FoundStays' BY <2>2, <2>3, <2>4
  <2>7. MatrixRow!CellShowsLastEdit'
    BY <2>1, <2>2, <2>3, <2>4, <2>5 DEF u
  <2> QED BY SMTT(20), <2>1, <2>2, <2>3, <2>4, <2>6, <2>7
<1>8. ASSUME NEW e \in Edits, MatrixRow!EditInsert(e) PROVE MatrixInv'
  <2> DEFINE c == edit[e].column
             u == MatrixRow!User(edits + 1)
  <2>1. /\ edit[e] # None /\ MatrixRow!Entered(e)
        /\ MatrixRow!Inserted({c}, u)
        /\ UNCHANGED <<selected, view>>
    BY <1>8 DEF MatrixRow!EditInsert
  <2>2. /\ c \in Columns /\ u \in MatrixRow!Cells
        /\ edits' = edits + 1 /\ edits + 1 \in 1 .. MaxEdits
        /\ edit' = [edit EXCEPT ![e] = None]
        /\ last' = [last EXCEPT ![c] = edits + 1]
        /\ last' \in [Columns -> 0 .. MaxEdits]
    BY <1>6, <2>1
  <2> HIDE DEF c, MatrixInv
  <2>3. /\ \A d \in Columns : cells'[d] \in Seq(MatrixRow!Cells)
        /\ cells' = [d \in Columns |-> cells'[d]]
        /\ \A d \in Columns : DOMAIN cells[d] \subseteq DOMAIN cells'[d]
        /\ \A d \in Columns \ {c} : cells'[d] = cells[d]
        /\ \A d \in {c} \ raced' : cells[d] = <<>> /\ cells'[d] = <<u>>
        /\ raced \subseteq raced' /\ raced' \subseteq Columns
    BY <2>1, <2>2, MatrixInserts
  <2> USE DEF MatrixInv
  <2>4. FoundStays' BY <2>2, <2>3
  <2>5. MatrixRow!CellShowsLastEdit'
    <3> SUFFICES ASSUME NEW d \in Columns, d \notin raced'
                 PROVE  Len(cells'[d]) <= 1 /\ (last'[d] # 0 => cells'[d] = <<MatrixRow!User(last'[d])>>)
      OBVIOUS
    <3>1. d \notin raced BY <2>3
    <3>2. Len(cells[d]) <= 1 /\ (last[d] # 0 => cells[d] = <<MatrixRow!User(last[d])>>) BY <3>1
    <3>3. CASE d # c BY <2>2, <2>3, <3>2, <3>3
    <3>4. CASE d = c
      <4>1. cells'[d] = <<u>> /\ last'[d] = edits + 1 BY <2>2, <2>3, <3>4
      <4> QED BY <4>1, OneRow DEF u
    <3> QED BY <3>3, <3>4
  <2> QED BY <2>1, <2>2, <2>3, <2>4, <2>5
<1> QED BY SMTT(20), <1>1, <1>2, <1>3, <1>4, <1>5, <1>7, <1>8 DEF MatrixRow!Next

-----------------------------------------------------------------------------
(* LlmClient.                                                               *)

\* Who waits for the limiter is in its queue once, and who sleeps is at the
\* head of it, for as long as the limiter still has to wait.
Queued ==
    /\ bucket \in Seq(Calls)
    /\ \A i, j \in 1 .. Len(bucket) : bucket[i] = bucket[j] => i = j
    /\ \A c \in Calls :
          (\E i \in 1 .. Len(bucket) : bucket[i] = c) <=> call[c].pc \in {"acquire", "sleep"}

Sleeping ==
    \A c \in Calls : call[c].pc = "sleep" =>
        Len(bucket) > 0 /\ bucket[1] = c /\ call[c].sleep = wait

\* The limiter waits for what is missing to the interval since the last start.
Clocked == wait \in 0 .. Interval /\ gap \in 0 .. Interval /\ wait + gap = Interval

\* What a learnt budget is written back on is no older than the saved key.
KeysKept ==
    /\ row.key = saves \/ crossed
    /\ \A c \in Calls : call[c].pc = "persist" =>
          call[c].read \in Llm!Rows /\ (call[c].read.key = saves \/ crossed)

CallRecords == [pc : Llm!Steps, mode : Llm!Modes, attempt : Nat,
                sleep : 0 .. Interval, read : Llm!Rows \cup {None}]

LlmTyped ==
    /\ call \in [Calls -> CallRecords]
    /\ row \in Llm!Rows /\ saves \in 0 .. MaxSaves /\ crossed \in BOOLEAN

LlmInv == LlmTyped /\ Queued /\ Sleeping /\ Clocked /\ KeysKept

LEMMA IntervalIsNumber == Interval \in Nat /\ 0 \in 0 .. Interval
<1>1. Interval \in Nat BY BoundsAreNumbers, Zenon
<1> QED BY <1>1

\* A call that goes to another step, and one that is begun anew.
LEMMA LlmCallGoes ==
    ASSUME NEW r \in CallRecords, NEW pc \in Llm!Steps
    PROVE  [r EXCEPT !.pc = pc] \in CallRecords /\ [r EXCEPT !.pc = pc].pc = pc
<1> DEFINE Steps == Llm!Steps
           Modes == Llm!Modes
           Reads == Llm!Rows \cup {None}
<1>1. r \in [pc : Steps, mode : Modes, attempt : Nat, sleep : 0 .. Interval, read : Reads]
      /\ pc \in Steps
  BY Zenon DEF CallRecords
<1> HIDE DEF Steps, Modes, Reads
<1>2. [r EXCEPT !.pc = pc]
         \in [pc : Steps, mode : Modes, attempt : Nat, sleep : 0 .. Interval, read : Reads]
      /\ [r EXCEPT !.pc = pc].pc = pc
  BY <1>1
<1> QED BY <1>2, Zenon DEF CallRecords, Steps, Modes, Reads

LEMMA LlmCallRetries ==
    ASSUME NEW r \in CallRecords, NEW pc \in Llm!Steps, NEW n \in Nat
    PROVE  /\ [r EXCEPT !.pc = pc, !.attempt = n] \in CallRecords
           /\ [r EXCEPT !.pc = pc, !.attempt = n].pc = pc
<1> DEFINE Steps == Llm!Steps
           Modes == Llm!Modes
           Reads == Llm!Rows \cup {None}
<1>1. r \in [pc : Steps, mode : Modes, attempt : Nat, sleep : 0 .. Interval, read : Reads]
      /\ pc \in Steps
  BY Zenon DEF CallRecords
<1> HIDE DEF Steps, Modes, Reads
<1>2. [r EXCEPT !.pc = pc, !.attempt = n]
         \in [pc : Steps, mode : Modes, attempt : Nat, sleep : 0 .. Interval, read : Reads]
      /\ [r EXCEPT !.pc = pc, !.attempt = n].pc = pc
  BY <1>1
<1> QED BY <1>2, Zenon DEF CallRecords, Steps, Modes, Reads

LEMMA LlmCallSleeps ==
    ASSUME NEW r \in CallRecords, NEW s \in 0 .. Interval
    PROVE  /\ [r EXCEPT !.pc = "sleep", !.sleep = s] \in CallRecords
           /\ [r EXCEPT !.pc = "sleep", !.sleep = s].pc = "sleep"
           /\ [r EXCEPT !.pc = "sleep", !.sleep = s].sleep = s
<1> DEFINE Steps == Llm!Steps
           Modes == Llm!Modes
           Reads == Llm!Rows \cup {None}
<1>1. r \in [pc : Steps, mode : Modes, attempt : Nat, sleep : 0 .. Interval, read : Reads]
      /\ "sleep" \in Steps
  BY Zenon DEF CallRecords, Llm!Steps
<1> HIDE DEF Steps, Modes, Reads
<1>2. /\ [r EXCEPT !.pc = "sleep", !.sleep = s]
           \in [pc : Steps, mode : Modes, attempt : Nat, sleep : 0 .. Interval, read : Reads]
      /\ [r EXCEPT !.pc = "sleep", !.sleep = s].pc = "sleep"
      /\ [r EXCEPT !.pc = "sleep", !.sleep = s].sleep = s
  BY <1>1
<1> QED BY <1>2, Zenon DEF CallRecords, Steps, Modes, Reads

LEMMA IdleCall == Llm!Idle \in CallRecords /\ Llm!Idle.pc = "idle"
<1> QED BY IntervalIsNumber DEF Llm!Idle, CallRecords, Llm!Steps, Llm!Modes

LEMMA LlmCallBegins ==
    ASSUME NEW pc \in Llm!Steps, NEW mode \in Llm!Modes
    PROVE  /\ [Llm!Idle EXCEPT !.pc = pc, !.mode = mode] \in CallRecords
           /\ [Llm!Idle EXCEPT !.pc = pc, !.mode = mode].pc = pc
<1> DEFINE Steps == Llm!Steps
           Modes == Llm!Modes
           Reads == Llm!Rows \cup {None}
           r == Llm!Idle
<1>1. /\ r \in [pc : Steps, mode : Modes, attempt : Nat, sleep : 0 .. Interval, read : Reads]
      /\ pc \in Steps /\ mode \in Modes
  BY IdleCall, Zenon DEF CallRecords
<1> HIDE DEF Steps, Modes, Reads, r
<1>2. [r EXCEPT !.pc = pc, !.mode = mode]
         \in [pc : Steps, mode : Modes, attempt : Nat, sleep : 0 .. Interval, read : Reads]
      /\ [r EXCEPT !.pc = pc, !.mode = mode].pc = pc
  BY <1>1
<1> QED BY <1>2, Zenon DEF CallRecords, Steps, Modes, Reads, r

LEMMA LlmInit == Llm!Init => LlmInv
<1> SUFFICES ASSUME Llm!Init PROVE LlmInv OBVIOUS
<1>1. /\ call = [c \in Calls |-> Llm!Idle] /\ bucket = <<>>
      /\ wait = 0 /\ gap = Interval /\ saves = 0 /\ crossed = FALSE
      /\ row = [key |-> 0, budget |-> FALSE]
  BY DEF Llm!Init
<1>2. 0 \in 0 .. MaxSaves /\ Interval \in 0 .. Interval /\ 0 \in 0 .. Interval
  BY BoundsAreNumbers
<1>3. \A c \in Calls : call[c] \in CallRecords /\ call[c].pc = "idle" BY <1>1, IdleCall
<1>4. LlmTyped BY <1>1, <1>2, IdleCall DEF LlmTyped, Llm!Rows
<1>5. Queued BY <1>1, <1>3 DEF Queued
<1>6. Clocked BY <1>1, <1>2, BoundsAreNumbers DEF Clocked
<1>7. Sleeping /\ KeysKept BY <1>1, <1>3 DEF Sleeping, KeysKept
<1> QED BY <1>4, <1>5, <1>6, <1>7 DEF LlmInv

\* t is s (of length n) without its k-th place.
LacksPlace(s, t, n, m, k) ==
    /\ n \in Nat /\ m \in Nat /\ k \in 1 .. n /\ m = n - 1
    /\ \A i, j \in 1 .. n : s[i] = s[j] => i = j
    /\ \A i \in 1 .. m : i < k => t[i] = s[i]
    /\ \A i \in 1 .. m : i >= k => t[i] = s[i + 1]

\* What t then holds, and what it has first.
HoldsTheRest(s, t, n, m, k) ==
    /\ \A i, j \in 1 .. m : t[i] = t[j] => i = j
    /\ \A d : (\E i \in 1 .. m : t[i] = d) <=> d # s[k] /\ \E i \in 1 .. n : s[i] = d
    /\ s[1] # s[k] => m > 0 /\ t[1] = s[1]

\* A sequence with its k-th place taken out: the others keep their order.
LEMMA PlaceTakenOut ==
    ASSUME NEW s, NEW t, NEW n, NEW m, NEW k, LacksPlace(s, t, n, m, k)
    PROVE  HoldsTheRest(s, t, n, m, k)
<1> SUFFICES
        ASSUME n \in Nat, m \in Nat, k \in 1 .. n, m = n - 1,
               \A i, j \in 1 .. n : s[i] = s[j] => i = j,
               \A i \in 1 .. m : i < k => t[i] = s[i],
               \A i \in 1 .. m : i >= k => t[i] = s[i + 1]
        PROVE  /\ \A i, j \in 1 .. m : t[i] = t[j] => i = j
               /\ \A d : (\E i \in 1 .. m : t[i] = d)
                           <=> d # s[k] /\ \E i \in 1 .. n : s[i] = d
               /\ s[1] # s[k] => m > 0 /\ t[1] = s[1]
  BY Zenon DEF LacksPlace, HoldsTheRest
<1>1. ASSUME NEW i \in 1 .. m
      PROVE  \E j \in 1 .. n : t[i] = s[j] /\ j # k /\ ((i < k /\ j = i) \/ (i >= k /\ j = i + 1))
  <2>1. CASE i < k
    <3>1. i \in 1 .. n BY <2>1
    <3>2. t[i] = s[i] /\ i # k BY <2>1
    <3> QED BY <2>1, <3>1, <3>2
  <2>2. CASE i >= k
    <3>1. i + 1 \in 1 .. n /\ i + 1 # k BY <2>2
    <3>2. t[i] = s[i + 1] BY <2>2
    <3> QED BY <2>2, <3>1, <3>2
  <2> QED BY <2>1, <2>2
<1>2. \A i, j \in 1 .. m : t[i] = t[j] => i = j
  <2> SUFFICES ASSUME NEW i \in 1 .. m, NEW j \in 1 .. m, t[i] = t[j] PROVE i = j OBVIOUS
  <2>1. PICK p \in 1 .. n : t[i] = s[p] /\ ((i < k /\ p = i) \/ (i >= k /\ p = i + 1)) BY <1>1
  <2>2. PICK q \in 1 .. n : t[j] = s[q] /\ ((j < k /\ q = j) \/ (j >= k /\ q = j + 1)) BY <1>1
  <2>3. p = q BY <2>1, <2>2
  <2> QED BY <2>1, <2>2, <2>3
<1>3. \A i \in 1 .. m : t[i] # s[k] /\ \E j \in 1 .. n : s[j] = t[i]
  <2> SUFFICES ASSUME NEW i \in 1 .. m PROVE t[i] # s[k] /\ \E j \in 1 .. n : s[j] = t[i]
    OBVIOUS
  <2>1. PICK j \in 1 .. n : t[i] = s[j] /\ j # k BY <1>1
  <2> QED BY <2>1
<1>4. ASSUME NEW i \in 1 .. n, i # k PROVE \E j \in 1 .. m : t[j] = s[i]
  <2>1. CASE i < k
    <3>1. i \in 1 .. m BY <2>1
    <3> QED BY <2>1, <3>1
  <2>2. CASE i > k
    <3>1. i - 1 \in 1 .. m /\ i - 1 >= k /\ (i - 1) + 1 = i BY <2>2
    <3>2. t[i - 1] = s[i] BY <3>1
    <3> QED BY <3>1, <3>2
  <2> QED BY <1>4, <2>1, <2>2
<1>5. ASSUME s[1] # s[k] PROVE m > 0 /\ t[1] = s[1]
  <2>1. k # 1 BY <1>5
  <2>2. 1 \in 1 .. m /\ 1 < k BY <2>1
  <2> QED BY <2>2
<1>6. \A d : (\E i \in 1 .. m : t[i] = d) <=> d # s[k] /\ \E i \in 1 .. n : s[i] = d
  <2> SUFFICES ASSUME NEW d
               PROVE  (\E i \in 1 .. m : t[i] = d) <=> d # s[k] /\ \E i \in 1 .. n : s[i] = d
    BY Zenon
  <2>1. ASSUME NEW i \in 1 .. m, t[i] = d PROVE d # s[k] /\ \E j \in 1 .. n : s[j] = d
    BY <1>3, <2>1
  <2>2. ASSUME d # s[k], NEW i \in 1 .. n, s[i] = d PROVE \E j \in 1 .. m : t[j] = d
    BY <1>4, <2>2
  <2> QED BY <2>1, <2>2
<1> QED BY <1>2, <1>5, <1>6

\* t is s without its k-th place, and still a sequence over S.
OnePlaceFewer(S, s, t, k) ==
    /\ t \in Seq(S) /\ Len(t) = Len(s) - 1
    /\ \A i \in 1 .. Len(s) - 1 : i < k => t[i] = s[i]
    /\ \A i \in 1 .. Len(s) - 1 : i >= k => t[i] = s[i + 1]

\* The places of a sequence written with SubSeq and \o.
LEMMA TakenOutPlaces ==
    ASSUME NEW S, NEW s \in Seq(S), NEW k \in 1 .. Len(s)
    PROVE  OnePlaceFewer(S, s, SubSeq(s, 1, k - 1) \o SubSeq(s, k + 1, Len(s)), k)
<1> DEFINE a == SubSeq(s, 1, k - 1)
           b == SubSeq(s, k + 1, Len(s))
<1>0. Len(s) \in Nat /\ k \in Nat /\ k >= 1 /\ k <= Len(s) OBVIOUS
<1>1. a \in Seq(S) /\ Len(a) = k - 1 /\ \A i \in 1 .. k - 1 : a[i] = s[i]
  BY <1>0
<1>2. /\ b \in Seq(S) /\ Len(b) = Len(s) - k
      /\ \A i \in 1 .. Len(s) - k : b[i] = s[k + i]
  BY <1>0
<1> SUFFICES /\ a \o b \in Seq(S) /\ Len(a \o b) = Len(s) - 1
             /\ \A i \in 1 .. Len(s) - 1 : i < k => (a \o b)[i] = s[i]
             /\ \A i \in 1 .. Len(s) - 1 : i >= k => (a \o b)[i] = s[i + 1]
  BY Zenon DEF OnePlaceFewer
<1> HIDE DEF a, b
<1>3. /\ a \o b \in Seq(S) /\ Len(a \o b) = Len(a) + Len(b)
      /\ \A i \in 1 .. Len(a) + Len(b) :
            (a \o b)[i] = IF i <= Len(a) THEN a[i] ELSE b[i - Len(a)]
  BY <1>1, <1>2, ConcatProperties, Zenon
<1>4. Len(a) + Len(b) = Len(s) - 1 BY <1>0, <1>1, <1>2
<1> DEFINE t == a \o b
<1>5. \A i \in 1 .. Len(s) - 1 : t[i] = IF i <= Len(a) THEN a[i] ELSE b[i - Len(a)]
  BY <1>3, <1>4, Zenon
<1>6. t \in Seq(S) /\ Len(t) = Len(s) - 1 BY <1>3, <1>4, Zenon
<1> HIDE DEF t
<1>7. ASSUME NEW i \in 1 .. Len(s) - 1, i < k PROVE t[i] = s[i]
  <2>1. i <= Len(a) /\ i \in 1 .. k - 1 BY <1>0, <1>1, <1>7
  <2> QED BY <1>1, <1>5, <2>1
<1>8. ASSUME NEW i \in 1 .. Len(s) - 1, i >= k PROVE t[i] = s[i + 1]
  <2>1. ~(i <= Len(a)) /\ i - Len(a) \in 1 .. Len(s) - k /\ k + (i - Len(a)) = i + 1
    BY <1>0, <1>1, <1>8
  <2>2. t[i] = b[i - Len(a)] BY <1>5, <2>1
  <2> QED BY <1>2, <2>1, <2>2
<1> QED BY <1>6, <1>7, <1>8, Zenon DEF t

\* One call moves on; the limiter's queue keeps up with it.
LEMMA CallMoves ==
    ASSUME LlmInv, NEW c \in Calls, NEW x \in CallRecords,
           call' = [call EXCEPT ![c] = x],
           \/ /\ bucket' = bucket
              /\ x.pc \in {"acquire", "sleep"} <=> call[c].pc \in {"acquire", "sleep"}
           \/ /\ bucket' = Append(bucket, c)
              /\ call[c].pc \notin {"acquire", "sleep"} /\ x.pc = "acquire"
           \/ /\ \E i \in 1 .. Len(bucket) :
                    /\ bucket[i] = c
                    /\ bucket' = SubSeq(bucket, 1, i - 1) \o SubSeq(bucket, i + 1, Len(bucket))
              /\ x.pc \notin {"acquire", "sleep"}
    PROVE  /\ call' \in [Calls -> CallRecords]
           /\ Queued'
           /\ \A d \in Calls \ {c} : call'[d] = call[d]
           /\ call'[c] = x
           /\ \A d \in Calls \ {c} : Len(bucket) > 0 /\ bucket[1] = d
                => Len(bucket') > 0 /\ bucket'[1] = d
<1>1. /\ call \in [Calls -> CallRecords] /\ bucket \in Seq(Calls)
      /\ \A i, j \in 1 .. Len(bucket) : bucket[i] = bucket[j] => i = j
      /\ \A d \in Calls :
            (\E i \in 1 .. Len(bucket) : bucket[i] = d) <=> call[d].pc \in {"acquire", "sleep"}
  BY DEF LlmInv, LlmTyped, Queued
<1>2. /\ call' \in [Calls -> CallRecords] /\ call'[c] = x
      /\ \A d \in Calls \ {c} : call'[d] = call[d]
  BY <1>1
<1>3. CASE /\ bucket' = bucket
           /\ x.pc \in {"acquire", "sleep"} <=> call[c].pc \in {"acquire", "sleep"}
  BY <1>1, <1>2, <1>3 DEF Queued
<1>4. CASE /\ bucket' = Append(bucket, c)
           /\ call[c].pc \notin {"acquire", "sleep"} /\ x.pc = "acquire"
  <2>1. /\ bucket' \in Seq(Calls) /\ Len(bucket') = Len(bucket) + 1
        /\ \A i \in 1 .. Len(bucket) : bucket'[i] = bucket[i]
        /\ bucket'[Len(bucket) + 1] = c
    BY <1>1, <1>4
  <2>2. \A i \in 1 .. Len(bucket) : bucket[i] # c BY <1>1, <1>4
  <2>3. \A i, j \in 1 .. Len(bucket') : bucket'[i] = bucket'[j] => i = j
    BY <1>1, <2>1, <2>2
  <2>4. \A d \in Calls : (\E i \in 1 .. Len(bucket') : bucket'[i] = d)
                            <=> call'[d].pc \in {"acquire", "sleep"}
    BY <1>1, <1>2, <1>4, <2>1
  <2> QED BY <1>1, <1>2, <2>1, <2>3, <2>4 DEF Queued
<1>5. CASE /\ \E i \in 1 .. Len(bucket) :
                 /\ bucket[i] = c
                 /\ bucket' = SubSeq(bucket, 1, i - 1) \o SubSeq(bucket, i + 1, Len(bucket))
           /\ x.pc \notin {"acquire", "sleep"}
  <2>1. PICK k \in 1 .. Len(bucket) :
                 /\ bucket[k] = c
                 /\ bucket' = SubSeq(bucket, 1, k - 1) \o SubSeq(bucket, k + 1, Len(bucket))
    BY <1>5
  <2>2. /\ bucket' \in Seq(Calls) /\ Len(bucket') = Len(bucket) - 1
        /\ \A i \in 1 .. Len(bucket) - 1 : i < k => bucket'[i] = bucket[i]
        /\ \A i \in 1 .. Len(bucket) - 1 : i >= k => bucket'[i] = bucket[i + 1]
    <3>1. OnePlaceFewer(Calls, bucket, bucket', k) BY <1>1, <2>1, TakenOutPlaces, Zenon
    <3> QED BY <3>1, Zenon DEF OnePlaceFewer
  <2>3. Len(bucket) \in Nat /\ Len(bucket') \in Nat BY <1>1, <2>2, LenProperties, Zenon
  <2>4. /\ \A i \in 1 .. Len(bucket') : i < k => bucket'[i] = bucket[i]
        /\ \A i \in 1 .. Len(bucket') : i >= k => bucket'[i] = bucket[i + 1]
    BY <2>2, Zenon
  <2>5. /\ \A i, j \in 1 .. Len(bucket') : bucket'[i] = bucket'[j] => i = j
        /\ \A d : (\E i \in 1 .. Len(bucket') : bucket'[i] = d)
                    <=> d # c /\ \E i \in 1 .. Len(bucket) : bucket[i] = d
        /\ bucket[1] # c => Len(bucket') > 0 /\ bucket'[1] = bucket[1]
    <3>1. LacksPlace(bucket, bucket', Len(bucket), Len(bucket'), k)
      BY <1>1, <2>1, <2>2, <2>3, <2>4, Zenon DEF LacksPlace
    <3>2. HoldsTheRest(bucket, bucket', Len(bucket), Len(bucket'), k)
      BY <3>1, PlaceTakenOut, Zenon
    <3> QED BY <2>1, <3>2, Zenon DEF HoldsTheRest
  <2>6. \A d \in Calls : (\E i \in 1 .. Len(bucket') : bucket'[i] = d)
                            <=> call'[d].pc \in {"acquire", "sleep"}
    <3> SUFFICES ASSUME NEW d \in Calls
                 PROVE  (\E i \in 1 .. Len(bucket') : bucket'[i] = d)
                            <=> call'[d].pc \in {"acquire", "sleep"}
      BY Zenon
    <3>1. CASE d = c BY <1>2, <1>5, <2>5, <3>1
    <3>2. CASE d # c BY <1>1, <1>2, <2>5, <3>2
    <3> QED BY <3>1, <3>2
  <2>7. \A d \in Calls \ {c} : Len(bucket) > 0 /\ bucket[1] = d
                => Len(bucket') > 0 /\ bucket'[1] = d
    BY <2>5
  <2> QED BY <1>2, <2>2, <2>5, <2>6, <2>7 DEF Queued
<1> QED BY <1>3, <1>4, <1>5

\* A call moves on, the limiter's clock and the settings stay.
LEMMA QuietMove ==
    ASSUME LlmInv, NEW c \in Calls, NEW x \in CallRecords,
           call' = [call EXCEPT ![c] = x],
           \/ /\ bucket' = bucket
              /\ x.pc \in {"acquire", "sleep"} <=> call[c].pc \in {"acquire", "sleep"}
           \/ /\ bucket' = Append(bucket, c)
              /\ call[c].pc \notin {"acquire", "sleep"} /\ x.pc = "acquire"
           \/ /\ \E i \in 1 .. Len(bucket) :
                    /\ bucket[i] = c
                    /\ bucket' = SubSeq(bucket, 1, i - 1) \o SubSeq(bucket, i + 1, Len(bucket))
              /\ x.pc \notin {"acquire", "sleep"},
           UNCHANGED <<wait, gap, row, saves, crossed>>,
           x.pc = "sleep" => Len(bucket') > 0 /\ bucket'[1] = c /\ x.sleep = wait,
           x.pc = "persist" => x.read \in Llm!Rows /\ (x.read.key = saves \/ crossed)
    PROVE  LlmInv'
<1>1. /\ call' \in [Calls -> CallRecords]
      /\ Queued'
      /\ \A d \in Calls \ {c} : call'[d] = call[d]
      /\ call'[c] = x
      /\ \A d \in Calls \ {c} : Len(bucket) > 0 /\ bucket[1] = d
           => Len(bucket') > 0 /\ bucket'[1] = d
  BY CallMoves
<1>2. Sleeping'
  <2> SUFFICES ASSUME NEW d \in Calls, call'[d].pc = "sleep"
               PROVE  Len(bucket') > 0 /\ bucket'[1] = d /\ call'[d].sleep = wait'
    BY DEF Sleeping
  <2>1. CASE d = c BY <1>1, <2>1
  <2>2. CASE d # c BY <1>1, <2>2 DEF LlmInv, Sleeping
  <2> QED BY <2>1, <2>2
<1>3. KeysKept'
  <2> SUFFICES ASSUME NEW d \in Calls, call'[d].pc = "persist"
               PROVE  call'[d].read \in Llm!Rows /\ (call'[d].read.key = saves' \/ crossed')
    BY DEF LlmInv, KeysKept
  <2>1. CASE d = c BY <1>1, <2>1
  <2>2. CASE d # c BY <1>1, <2>2 DEF LlmInv, KeysKept
  <2> QED BY <2>1, <2>2
<1> QED BY <1>1, <1>2, <1>3 DEF LlmInv, LlmTyped, Clocked

\* Who sleeps or waits has a place, and a queue without its head is the rest.
LEMMA QueueFacts ==
    ASSUME LlmInv
    PROVE  /\ bucket \in Seq(Calls) /\ Len(bucket) \in Nat
           /\ \A c \in Calls : call[c] \in CallRecords
           /\ \A c \in Calls : call[c].pc \in {"acquire", "sleep"} =>
                 \E i \in 1 .. Len(bucket) : bucket[i] = c
           /\ Len(bucket) > 0 =>
                 /\ Head(bucket) = bucket[1]
                 /\ Tail(bucket) = SubSeq(bucket, 1, 0) \o SubSeq(bucket, 2, Len(bucket))
           /\ wait \in 0 .. Interval /\ gap \in 0 .. Interval /\ wait + gap = Interval
<1>1. bucket \in Seq(Calls) /\ Len(bucket) \in Nat BY DEF LlmInv, Queued
<1>2. \A c \in Calls : call[c] \in CallRecords BY DEF LlmInv, LlmTyped
<1>3. \A c \in Calls : call[c].pc \in {"acquire", "sleep"} =>
                 \E i \in 1 .. Len(bucket) : bucket[i] = c
  BY DEF LlmInv, Queued
<1>4. ASSUME Len(bucket) > 0
      PROVE  /\ Head(bucket) = bucket[1]
             /\ Tail(bucket) = SubSeq(bucket, 1, 0) \o SubSeq(bucket, 2, Len(bucket))
  <2>1. bucket # <<>> BY <1>1, <1>4
  <2>2. Tail(bucket) = SubSeq(bucket, 2, Len(bucket)) BY <1>1, <2>1, TailIsSubSeq
  <2>3. SubSeq(bucket, 1, 0) = <<>> BY <1>1, SubSeqEmpty
  <2>4. SubSeq(bucket, 2, Len(bucket)) \in Seq(Calls) BY <1>1, <2>1, <2>2, HeadTailProperties
  <2>5. Head(bucket) = bucket[1] BY <1>1, <2>1
  <2> QED BY <2>2, <2>3, <2>4, <2>5, ConcatEmptySeq
<1> QED BY <1>1, <1>2, <1>3, <1>4 DEF LlmInv, Clocked

LEMMA LlmStep ==
    ASSUME LlmInv, Llm!Next \/ UNCHANGED llmVars
    PROVE  LlmInv'
<1> USE DEF Llm!limiter, Llm!settings
<1>0. /\ \A c \in Calls : call[c] \in CallRecords
      /\ call = [c \in Calls |-> call[c]]
      /\ row \in Llm!Rows /\ saves \in Nat /\ MaxSaves \in Nat /\ saves <= MaxSaves
      /\ crossed \in BOOLEAN
  BY BoundsAreNumbers DEF LlmInv, LlmTyped
<1>1. CASE UNCHANGED llmVars
  BY <1>1 DEF llmVars, LlmInv, LlmTyped, Queued, Sleeping, Clocked, KeysKept
<1>2. CASE Llm!Tick
  <2>1. /\ wait > 0 /\ wait' = wait - 1
        /\ gap' = IF gap < Interval THEN gap + 1 ELSE gap
        /\ call' = [c \in Calls |-> [call[c] EXCEPT !.sleep = Llm!Minus1(call[c].sleep)]]
        /\ UNCHANGED <<bucket, row, saves, crossed>>
    BY <1>2 DEF Llm!Tick
  <2>2. Clocked'
    <3>1. wait > 0 /\ wait' = wait - 1 /\ gap' = IF gap < Interval THEN gap + 1 ELSE gap
      BY <2>1, Zenon
    <3>2. wait \in 0 .. Interval /\ gap \in 0 .. Interval /\ wait + gap = Interval
      BY QueueFacts, Zenon
    <3> QED BY <3>1, <3>2, IntervalIsNumber DEF Clocked
  <2>3. \A c \in Calls : Llm!Minus1(call[c].sleep) \in 0 .. Interval
    BY <1>0, IntervalIsNumber DEF CallRecords, Llm!Minus1
  <2>4. \A c \in Calls : /\ call'[c].pc = call[c].pc /\ call'[c].read = call[c].read
                         /\ call'[c].sleep = Llm!Minus1(call[c].sleep)
                         /\ call'[c] \in CallRecords
    BY <1>0, <2>1, <2>3 DEF CallRecords
  <2>5. call' \in [Calls -> CallRecords] BY <2>1, <2>4
  <2>6. Sleeping'
    <3> SUFFICES ASSUME NEW c \in Calls, call'[c].pc = "sleep"
                 PROVE  Len(bucket') > 0 /\ bucket'[1] = c /\ call'[c].sleep = wait'
      BY DEF Sleeping
    <3>1. Len(bucket) > 0 /\ bucket[1] = c /\ call[c].sleep = wait
      BY <2>4 DEF LlmInv, Sleeping
    <3>2. wait \in Nat /\ wait # 0 BY <2>1, QueueFacts, IntervalIsNumber
    <3> QED BY <2>1, <2>4, <3>1, <3>2 DEF Llm!Minus1
  <2>7. Queued' BY <2>1, <2>4 DEF LlmInv, Queued
  <2>8. KeysKept' BY <2>1, <2>4 DEF LlmInv, KeysKept
  <2> QED BY <1>0, <2>1, <2>2, <2>5, <2>6, <2>7, <2>8 DEF LlmInv, LlmTyped
<1>3. CASE Llm!SaveProvider
  <2>1. /\ saves < MaxSaves /\ saves' = saves + 1
        /\ row' = [key |-> saves + 1, budget |-> FALSE]
        /\ crossed' = (crossed \/ \E c \in Calls : call[c].pc = "persist")
        /\ UNCHANGED <<call, bucket, wait, gap>>
    BY <1>3 DEF Llm!SaveProvider, Llm!In
  <2>2. saves + 1 \in 0 .. MaxSaves BY <1>0, <2>1
  <2>3. LlmTyped' BY <2>1, <2>2 DEF LlmInv, LlmTyped, Llm!Rows
  <2>4. KeysKept'
    <3>1. row'.key = saves' BY <2>1
    <3>2. ASSUME NEW c \in Calls, call[c].pc = "persist" PROVE crossed' BY <2>1, <3>2
    <3>3. \A c \in Calls : call[c].pc = "persist" => call[c].read \in Llm!Rows
      BY DEF LlmInv, KeysKept
    <3> QED BY <2>1, <3>1, <3>2, <3>3 DEF KeysKept
  <2> QED BY <2>1, <2>3, <2>4 DEF LlmInv, Queued, Sleeping, Clocked
<1>4. ASSUME NEW c \in Calls, NEW mode \in Llm!Modes, Llm!Begin(c, mode) PROVE LlmInv'
  <2> DEFINE x == [Llm!Idle EXCEPT !.pc = "acquire", !.mode = mode]
  <2>1. x \in CallRecords /\ x.pc = "acquire" BY LlmCallBegins DEF Llm!Steps
  <2>2. /\ call[c].pc = "idle" /\ call' = [call EXCEPT ![c] = x]
        /\ bucket' = Append(bucket, c) /\ UNCHANGED <<wait, gap, row, saves, crossed>>
    BY <1>4 DEF Llm!Begin, Llm!In
  <2> HIDE DEF x
  <2> QED BY <2>1, <2>2, QuietMove
<1>5. ASSUME NEW c \in Calls, Llm!Enter(c) PROVE LlmInv'
  <2> DEFINE x == [call[c] EXCEPT !.pc = "sleep", !.sleep = wait]
  <2>1. x \in CallRecords /\ x.pc = "sleep" /\ x.sleep = wait
    <3>1. call[c] \in CallRecords /\ wait \in 0 .. Interval BY <1>0, QueueFacts, Zenon
    <3> QED BY <3>1, LlmCallSleeps, Zenon
  <2>2. /\ call[c].pc = "acquire" /\ call' = [call EXCEPT ![c] = x]
        /\ bucket' = bucket /\ UNCHANGED <<wait, gap, row, saves, crossed>>
        /\ Head(bucket) = c
    BY <1>5 DEF Llm!Enter, Llm!In
  <2>3. Len(bucket) > 0 BY <2>2, QueueFacts
  <2>4. bucket'[1] = c BY <2>2, <2>3, QueueFacts
  <2> HIDE DEF x
  <2> QED BY <2>1, <2>2, <2>3, <2>4, QuietMove
<1>6. ASSUME NEW c \in Calls, Llm!Start(c) PROVE LlmInv'
  <2> DEFINE x == [call[c] EXCEPT !.pc = "call"]
  <2>1. x \in CallRecords /\ x.pc = "call" BY <1>0, LlmCallGoes, Zenon DEF Llm!Steps
  <2>2. /\ call[c].pc = "sleep" /\ call' = [call EXCEPT ![c] = x]
        /\ bucket' = Tail(bucket) /\ wait' = Interval /\ gap' = 0
        /\ UNCHANGED <<row, saves, crossed>>
    BY <1>6 DEF Llm!Start, Llm!In, Llm!Go
  <2> HIDE DEF x
  <2>3. Len(bucket) > 0 /\ bucket[1] = c BY <2>2 DEF LlmInv, Sleeping
  <2>4. \E i \in 1 .. Len(bucket) :
            /\ bucket[i] = c
            /\ bucket' = SubSeq(bucket, 1, i - 1) \o SubSeq(bucket, i + 1, Len(bucket))
    <3>1. 1 \in 1 .. Len(bucket) /\ 1 - 1 = 0 /\ 1 + 1 = 2 BY <2>3, QueueFacts
    <3>2. bucket' = SubSeq(bucket, 1, 1 - 1) \o SubSeq(bucket, 1 + 1, Len(bucket))
      BY <2>2, <2>3, <3>1, QueueFacts
    <3> QED BY <2>3, <3>1, <3>2
  <2>5. /\ call' \in [Calls -> CallRecords] /\ Queued'
        /\ \A d \in Calls \ {c} : call'[d] = call[d]
        /\ call'[c] = x
    BY <2>1, <2>2, <2>4, CallMoves
  <2>6. \A d \in Calls : call'[d].pc # "sleep"
    BY <2>1, <2>3, <2>5 DEF LlmInv, Sleeping
  <2>7. KeysKept'
    BY <2>1, <2>2, <2>5 DEF LlmInv, KeysKept
  <2>8. Clocked' BY <2>2, IntervalIsNumber DEF Clocked
  <2>9. LlmTyped' BY <2>2, <2>5 DEF LlmInv, LlmTyped
  <2> QED BY <2>5, <2>6, <2>7, <2>8, <2>9 DEF LlmInv, Sleeping
\* A call goes to a step where it neither waits for the limiter nor writes.
<1>7. ASSUME NEW c \in Calls, NEW x \in CallRecords, call' = [call EXCEPT ![c] = x],
             call[c].pc \notin {"acquire", "sleep"},
             x.pc \notin {"acquire", "sleep", "persist"},
             UNCHANGED <<bucket, wait, gap, row, saves, crossed>>
      PROVE  LlmInv'
  BY <1>7, QuietMove
<1>8. ASSUME NEW c \in Calls, Llm!Succeed(c) \/ Llm!Refuse(c) PROVE LlmInv'
  <2>1. /\ call[c].pc \in {"call", "heal"} /\ call' = [call EXCEPT ![c] = Llm!Idle]
        /\ UNCHANGED <<bucket, wait, gap, row, saves, crossed>>
    BY <1>8 DEF Llm!Succeed, Llm!Refuse, Llm!Asked, Llm!In, Llm!Give
  <2> QED BY <1>7, <2>1, IdleCall
<1>9. ASSUME NEW c \in Calls, Llm!Fail(c) PROVE LlmInv'
  <2> DEFINE x == [call[c] EXCEPT !.pc = "backoff", !.attempt = call[c].attempt + 1]
  <2>1. x \in CallRecords /\ x.pc = "backoff"
    <3>1. call[c].attempt + 1 \in Nat BY <1>0 DEF CallRecords
    <3>2. call[c] \in CallRecords /\ "backoff" \in Llm!Steps BY <1>0 DEF Llm!Steps
    <3>3. /\ [call[c] EXCEPT !.pc = "backoff", !.attempt = call[c].attempt + 1] \in CallRecords
          /\ [call[c] EXCEPT !.pc = "backoff", !.attempt = call[c].attempt + 1].pc = "backoff"
      BY <3>1, <3>2, LlmCallRetries
    <3> QED BY <3>3, Zenon
  <2>2. /\ call[c].pc \in {"call", "heal"}
        /\ call' = [call EXCEPT ![c] = IF call[c].attempt = Llm!Limit(c) THEN Llm!Idle ELSE x]
        /\ UNCHANGED <<bucket, wait, gap, row, saves, crossed>>
    BY <1>9 DEF Llm!Fail, Llm!Asked, Llm!In, Llm!Retry
  <2> HIDE DEF x
  <2>3. CASE call[c].attempt = Llm!Limit(c)
    <3>1. call' = [call EXCEPT ![c] = Llm!Idle] BY <2>2, <2>3
    <3> QED BY <1>7, <2>2, <3>1, IdleCall
  <2>4. CASE call[c].attempt # Llm!Limit(c)
    <3>1. call' = [call EXCEPT ![c] = x] BY <2>2, <2>4
    <3> QED BY <1>7, <2>1, <2>2, <3>1
  <2> QED BY <2>3, <2>4
<1>10. ASSUME NEW c \in Calls, Llm!Resume(c) PROVE LlmInv'
  <2> DEFINE x == [call[c] EXCEPT !.pc = "acquire"]
  <2>1. x \in CallRecords /\ x.pc = "acquire" BY <1>0, LlmCallGoes, Zenon DEF Llm!Steps
  <2>2. /\ call[c].pc = "backoff" /\ call' = [call EXCEPT ![c] = x]
        /\ bucket' = Append(bucket, c) /\ UNCHANGED <<wait, gap, row, saves, crossed>>
    BY <1>10 DEF Llm!Resume, Llm!In, Llm!Go
  <2> HIDE DEF x
  <2> QED BY <2>1, <2>2, QuietMove
<1>11. ASSUME NEW c \in Calls, Llm!SchemaViolation(c) PROVE LlmInv'
  <2> DEFINE x == [Llm!Idle EXCEPT !.pc = "acquire", !.mode = "repair"]
  <2>1. x \in CallRecords /\ x.pc = "acquire" BY LlmCallBegins, Zenon DEF Llm!Steps, Llm!Modes
  <2>2. /\ call[c].pc \in {"call", "heal"} /\ call' = [call EXCEPT ![c] = x]
        /\ bucket' = Append(bucket, c) /\ UNCHANGED <<wait, gap, row, saves, crossed>>
    BY <1>11 DEF Llm!SchemaViolation, Llm!Asked, Llm!In
  <2> HIDE DEF x
  <2> QED BY <2>1, <2>2, QuietMove
<1>12. ASSUME NEW c \in Calls, Llm!RateLimited(c) PROVE LlmInv'
  <2> DEFINE x == [call[c] EXCEPT !.pc = "learn"]
  <2>1. x \in CallRecords /\ x.pc = "learn" BY <1>0, LlmCallGoes, Zenon DEF Llm!Steps
  <2>2. /\ call[c].pc = "call" /\ call' = [call EXCEPT ![c] = x]
        /\ UNCHANGED <<bucket, wait, gap, row, saves, crossed>>
    BY <1>12 DEF Llm!RateLimited, Llm!In, Llm!Go
  <2> HIDE DEF x
  <2> QED BY <1>7, <2>1, <2>2
<1>13. ASSUME NEW c \in Calls, Llm!LearnRead(c) PROVE LlmInv'
  <2> DEFINE x == [call[c] EXCEPT !.pc = "persist", !.read = row]
  <2>1. x \in CallRecords /\ x.pc = "persist" /\ x.read = row
    BY <1>0 DEF CallRecords, Llm!Steps
  <2>2. /\ call[c].pc = "learn" /\ call' = [call EXCEPT ![c] = x]
        /\ UNCHANGED <<bucket, wait, gap, row, saves, crossed>>
    BY <1>13 DEF Llm!LearnRead, Llm!In
  <2>3. row.key = saves \/ crossed BY DEF LlmInv, KeysKept
  <2> HIDE DEF x
  <2> QED BY <1>0, <2>1, <2>2, <2>3, QuietMove
<1>14. ASSUME NEW c \in Calls, Llm!LearnWrite(c) PROVE LlmInv'
  <2> DEFINE x == [call[c] EXCEPT !.pc = "heal", !.read = None]
  <2>1. x \in CallRecords /\ x.pc = "heal" BY <1>0 DEF CallRecords, Llm!Steps
  <2>2. /\ call[c].pc = "persist" /\ call' = [call EXCEPT ![c] = x]
        /\ row' = [call[c].read EXCEPT !.budget = TRUE]
        /\ UNCHANGED <<bucket, wait, gap, saves, crossed>>
    BY <1>14 DEF Llm!LearnWrite, Llm!In
  <2> HIDE DEF x
  <2>3. /\ call' \in [Calls -> CallRecords] /\ Queued'
        /\ \A d \in Calls \ {c} : call'[d] = call[d]
        /\ call'[c] = x
    BY <2>1, <2>2, CallMoves
  <2>4. call[c].read \in Llm!Rows /\ (call[c].read.key = saves \/ crossed)
    BY <2>2 DEF LlmInv, KeysKept
  <2>5. row' \in Llm!Rows /\ row'.key = call[c].read.key BY <2>2, <2>4 DEF Llm!Rows
  <2>6. Sleeping' BY <2>1, <2>2, <2>3 DEF LlmInv, Sleeping
  <2>7. KeysKept' BY <2>1, <2>2, <2>3, <2>4, <2>5 DEF LlmInv, KeysKept
  <2> QED BY <2>2, <2>3, <2>5, <2>6, <2>7 DEF LlmInv, LlmTyped, Clocked
<1>15. ASSUME NEW c \in Calls, Llm!Cancel(c) PROVE LlmInv'
  <2>1. /\ call' = [call EXCEPT ![c] = Llm!Idle]
        /\ UNCHANGED <<wait, gap, row, saves, crossed>>
        /\ \/ \E i \in DOMAIN bucket :
                bucket[i] = c /\ bucket' = SubSeq(bucket, 1, i - 1) \o SubSeq(bucket, i + 1, Len(bucket))
           \/ c \notin {bucket[i] : i \in DOMAIN bucket} /\ bucket' = bucket
    BY <1>15 DEF Llm!Cancel, Llm!Give, Llm!RemoveAt, Llm!ToSet
  <2>2. DOMAIN bucket = 1 .. Len(bucket) BY QueueFacts
  <2>3. CASE \E i \in DOMAIN bucket :
                bucket[i] = c /\ bucket' = SubSeq(bucket, 1, i - 1) \o SubSeq(bucket, i + 1, Len(bucket))
    BY <2>1, <2>2, <2>3, IdleCall, QuietMove
  <2>4. CASE c \notin {bucket[i] : i \in DOMAIN bucket} /\ bucket' = bucket
    <3>1. call[c].pc \notin {"acquire", "sleep"} BY <2>2, <2>4, QueueFacts
    <3> QED BY <1>7, <2>1, <2>4, <3>1, IdleCall
  <2> QED BY <2>1, <2>3, <2>4
<1> QED
  BY <1>1, <1>2, <1>3, <1>4, <1>5, <1>6, <1>8, <1>9, <1>10, <1>11, <1>12, <1>13, <1>14, <1>15
     DEF Llm!Next, Llm!Answer

\* What the researcher entered in a matrix cell, or saved as a provider's key,
\* is what is kept, but for a write computed from what was read before it.
THEOREM EntriesOfUserStand == Spec => []EntriesStand
<1>1. Init => MatrixInv /\ LlmInv BY MatrixInit, LlmInit DEF Init
<1>2. MatrixInv /\ LlmInv /\ [Next]_vars => MatrixInv' /\ LlmInv'
  BY StepOfEach, MatrixStep, LlmStep
<1>3. MatrixInv /\ LlmInv => EntriesStand
  BY DEF EntriesStand, MatrixInv, LlmInv, KeysKept, Llm!SavedKeyStays
<1> QED BY <1>1, <1>2, <1>3, PTL DEF Spec

\* The limiter lets a request through no sooner than the interval after the
\* last one, however calls sleep, back off or are cancelled in its queue.
THEOREM StartsArePaced == Spec => Paced
<1> DEFINE A == \A c \in Calls : Llm!In(c, "sleep") /\ call'[c].pc = "call" => gap = Interval
<1>1. Init => LlmInv BY LlmInit DEF Init
<1>2. LlmInv /\ [Next]_vars => LlmInv' BY StepOfEach, LlmStep
<1>3. ASSUME LlmInv, [Next]_vars PROVE A
  <2> SUFFICES ASSUME NEW c \in Calls, call[c].pc = "sleep", call'[c].pc = "call"
               PROVE  gap = Interval
    BY DEF Llm!In
  <2>1. Llm!Next
    <3>1. Llm!Next \/ UNCHANGED llmVars BY <1>3, StepOfEach, Zenon
    <3>2. call' # call OBVIOUS
    <3> QED BY <3>1, <3>2, Zenon DEF llmVars
  <2>2. call = [d \in Calls |-> call[d]] /\ \A d \in Calls : call[d] \in CallRecords
    BY <1>3 DEF LlmInv, LlmTyped
  <2>3. ~Llm!Tick BY <2>2 DEF Llm!Tick, CallRecords
  <2>4. ~Llm!SaveProvider BY DEF Llm!SaveProvider
  <2>5. PICK d \in Calls :
           \/ \E mode \in Llm!Modes : Llm!Begin(d, mode)
           \/ Llm!Enter(d) \/ Llm!Start(d) \/ Llm!Resume(d) \/ Llm!Answer(d)
           \/ Llm!LearnRead(d) \/ Llm!LearnWrite(d) \/ Llm!Cancel(d)
    BY <2>1, <2>3, <2>4 DEF Llm!Next
  <2>6. \E x : call' = [call EXCEPT ![d] = x]
    BY <2>2, <2>5
       DEF Llm!Begin, Llm!Enter, Llm!Start, Llm!Resume, Llm!Answer, Llm!LearnRead,
           Llm!LearnWrite, Llm!Cancel, Llm!Go, Llm!Give, Llm!Succeed, Llm!Refuse, Llm!Fail,
           Llm!Retry, Llm!SchemaViolation, Llm!RateLimited
  <2>7. d = c BY <2>2, <2>6
  <2>8. Llm!Start(c)
    <3>1. ~Llm!Cancel(c) BY <2>2, IdleCall DEF Llm!Cancel, Llm!Give
    <3>2. \A mode \in Llm!Modes : ~Llm!Begin(c, mode) BY DEF Llm!Begin, Llm!In
    <3>3. ~Llm!Enter(c) /\ ~Llm!Resume(c) /\ ~Llm!LearnRead(c) /\ ~Llm!LearnWrite(c)
      BY DEF Llm!Enter, Llm!Resume, Llm!LearnRead, Llm!LearnWrite, Llm!In
    <3>4. ~Llm!Answer(c)
      BY DEF Llm!Answer, Llm!Succeed, Llm!Refuse, Llm!Fail, Llm!SchemaViolation, Llm!RateLimited,
             Llm!Asked, Llm!In
    <3> QED BY <2>5, <2>7, <3>1, <3>2, <3>3, <3>4
  <2>9. call[c].sleep = 0 /\ call[c].sleep = wait
    BY <1>3, <2>8 DEF Llm!Start, LlmInv, Sleeping
  <2> QED BY <1>3, <2>9, QueueFacts, BoundsAreNumbers
<1> QED BY <1>1, <1>2, <1>3, PTL DEF Spec, Paced, Llm!Paced

-----------------------------------------------------------------------------
(* Feed.                                                                    *)

\* An item behind the cursor is handled, or a poll in flight still has it.
Handled(i) == i \in library \cup missed \/ \E r \in FeedPolls!Reasons : <<i, r>> \in seen

Carries(j, i) ==
    \/ poll[j].pc \in {"queued", "fetching"} /\ i \in FeedPolls!Window(j)
    \/ poll[j].pc \in {"filtering", "scoring"} /\ i \in poll[j].batch

Carried == \A i \in Items : published[i] # None /\ published[i] < cursor =>
    Handled(i) \/ \E j \in PollIds : Carries(j, i)

\* A poll's batch comes from its window; once it is filtered, only an insert of
\* another poll puts one of its items in the feed.
PollKeeps(j) ==
    /\ poll[j].pc \in {"filtering", "scoring"} =>
          \A i \in poll[j].batch : i \in FeedPolls!Window(j)
    /\ poll[j].pc = "scoring" =>
          poll[j].stale \/ \A i \in poll[j].batch : item[i] = "none" /\ <<i, "surfaced">> \notin seen

\* An item in the feed is in the seen set for good.
ShownIsSeen == \A i \in Items :
    item[i] # "none" => \E r \in FeedPolls!Reasons : <<i, r>> \in seen

Polls == [pc : FeedPolls!PollSteps, since : Nat, batch : SUBSET Items, stale : BOOLEAN]

FeedTyped ==
    /\ now \in Nat /\ cursor \in Nat /\ cursor <= now
    /\ \A i \in Items : published[i] # None => published[i] \in Nat
    /\ published = [i \in Items |-> published[i]]
    /\ poll \in [PollIds -> Polls]
    /\ item \in [Items -> {"none", "new", "saved", "dismissed"}]

FeedInv ==
    /\ FeedTyped /\ Carried /\ ShownIsSeen
    /\ \A j \in PollIds : PollKeeps(j)

LEMMA FeedInit == FeedPolls!Init => FeedInv
<1> SUFFICES ASSUME FeedPolls!Init PROVE FeedInv OBVIOUS
<1>1. /\ now = 0 /\ cursor = 0 /\ published = [i \in Items |-> None]
      /\ poll = [j \in PollIds |-> FeedPolls!NoPoll] /\ item = [i \in Items |-> "none"]
  BY DEF FeedPolls!Init
<1>2. FeedPolls!NoPoll \in Polls
  BY DEF Polls, FeedPolls!NoPoll, FeedPolls!PollSteps
<1>3. FeedPolls!NoPoll.pc = "free" BY DEF FeedPolls!NoPoll
<1>4. FeedTyped BY <1>1, <1>2 DEF FeedTyped
<1>5. Carried /\ ShownIsSeen BY <1>1 DEF Carried, ShownIsSeen
<1>6. \A j \in PollIds : PollKeeps(j) BY <1>1, <1>3 DEF PollKeeps
<1> QED BY <1>4, <1>5, <1>6 DEF FeedInv

\* A poll that ends leaves behind it nothing that it alone carried: what is
\* before the cursor counts as missed.
LEMMA PollGivesUp ==
    ASSUME FeedInv, NEW j \in PollIds, NEW gone,
           \A i \in Items : Carries(j, i) => i \in gone,
           FeedPolls!Give(j, gone),
           UNCHANGED <<now, published, cursor, item, seen, library>>
    PROVE  FeedInv'
<1>1. /\ poll' = [poll EXCEPT ![j] = FeedPolls!NoPoll]
      /\ missed' = missed \cup {i \in gone : published[i] < cursor}
  BY DEF FeedPolls!Give, FeedPolls!Set, FeedPolls!Past
<1>2. /\ FeedPolls!NoPoll \in Polls /\ FeedPolls!NoPoll.pc = "free"
      /\ poll \in [PollIds -> Polls]
  BY DEF Polls, FeedPolls!NoPoll, FeedPolls!PollSteps, FeedInv, FeedTyped
<1>3. /\ poll' \in [PollIds -> Polls] /\ poll'[j].pc = "free"
      /\ \A k \in PollIds \ {j} : poll'[k] = poll[k]
  BY <1>1, <1>2
<1>4. FeedTyped' BY <1>3 DEF FeedInv, FeedTyped, Polls
<1>5. ShownIsSeen' BY DEF FeedInv, ShownIsSeen
<1>6. ASSUME NEW k \in PollIds PROVE PollKeeps(k)'
  <2>1. CASE k = j BY <1>3, <2>1 DEF PollKeeps
  <2>2. CASE k # j
    <3>1. poll'[k] = poll[k] /\ PollKeeps(k) BY <1>3, <2>2 DEF FeedInv
    <3> QED BY <3>1 DEF PollKeeps, FeedPolls!Window
  <2> QED BY <2>1, <2>2
<1>7. Carried'
  <2> SUFFICES ASSUME NEW i \in Items, published[i] # None, published[i] < cursor
               PROVE  Handled(i)' \/ \E k \in PollIds : Carries(k, i)'
    BY DEF Carried
  <2>1. Handled(i) => Handled(i)' BY <1>1 DEF Handled
  <2>2. Carries(j, i) => Handled(i)' BY <1>1 DEF Handled
  <2>3. ASSUME NEW k \in PollIds, k # j, Carries(k, i) PROVE Carries(k, i)'
    BY <1>3, <2>3 DEF Carries, FeedPolls!Window
  <2> QED BY <2>1, <2>2, <2>3 DEF FeedInv, Carried
<1> QED BY <1>4, <1>5, <1>6, <1>7 DEF FeedInv

\* A poll that goes on carries what it carried, or has found it handled.
LEMMA PollGoesOn ==
    ASSUME FeedInv, NEW j \in PollIds, NEW p \in Polls,
           poll' = [poll EXCEPT ![j] = p],
           \A i \in Items : Carries(j, i) => Handled(i) \/ Carries(j, i)',
           PollKeeps(j)',
           UNCHANGED <<now, published, cursor, item, seen, library, missed>>
    PROVE  FeedInv'
<1>1. /\ poll' \in [PollIds -> Polls] /\ \A k \in PollIds \ {j} : poll'[k] = poll[k]
  BY DEF FeedInv, FeedTyped, Polls
<1>2. FeedTyped' BY <1>1 DEF FeedInv, FeedTyped, Polls
<1>3. ShownIsSeen' BY DEF FeedInv, ShownIsSeen
<1>4. ASSUME NEW k \in PollIds, k # j PROVE PollKeeps(k)'
  <2>1. poll'[k] = poll[k] /\ PollKeeps(k) BY <1>1, <1>4 DEF FeedInv
  <2> QED BY <2>1 DEF PollKeeps, FeedPolls!Window
<1>5. Carried'
  <2> SUFFICES ASSUME NEW i \in Items, published[i] # None, published[i] < cursor
               PROVE  Handled(i)' \/ \E k \in PollIds : Carries(k, i)'
    BY DEF Carried
  <2>1. Handled(i) => Handled(i)' BY DEF Handled
  <2>2. ASSUME NEW k \in PollIds, k # j, Carries(k, i) PROVE Carries(k, i)'
    BY <1>1, <2>2 DEF Carries, FeedPolls!Window
  <2> QED BY <2>1, <2>2 DEF FeedInv, Carried
<1> QED BY <1>2, <1>3, <1>4, <1>5 DEF FeedInv

\* More is seen or in the library; the feed shows nothing that it did not.
LEMMA ResearcherMoves ==
    ASSUME FeedInv, UNCHANGED <<now, published, cursor, poll, missed>>,
           library \subseteq library', seen \subseteq seen',
           item' \in [Items -> {"none", "new", "saved", "dismissed"}],
           \A i \in Items : item'[i] = "none" <=> item[i] = "none",
           \A i \in Items : <<i, "surfaced">> \in seen' => <<i, "surfaced">> \in seen
    PROVE  FeedInv'
<1>1. FeedTyped' BY DEF FeedInv, FeedTyped
<1>2. ShownIsSeen' BY DEF FeedInv, ShownIsSeen
<1>3. ASSUME NEW j \in PollIds PROVE PollKeeps(j)'
  <2>1. PollKeeps(j) /\ poll[j] \in Polls BY Zenon DEF FeedInv, FeedTyped
  <2>2. poll[j].batch \subseteq Items BY <2>1 DEF Polls
  <2> QED BY <2>1, <2>2 DEF PollKeeps, FeedPolls!Window
<1>4. Carried'
  <2> SUFFICES ASSUME NEW i \in Items, published[i] # None, published[i] < cursor
               PROVE  Handled(i)' \/ \E k \in PollIds : Carries(k, i)'
    BY DEF Carried
  <2>1. Handled(i) => Handled(i)' BY DEF Handled
  <2>2. \A k \in PollIds : Carries(k, i) => Carries(k, i)'
    BY DEF Carries, FeedPolls!Window
  <2> QED BY <2>1, <2>2 DEF FeedInv, Carried
<1> QED BY <1>1, <1>2, <1>3, <1>4 DEF FeedInv

LEMMA FeedStep ==
    ASSUME FeedInv, FeedPolls!Next \/ UNCHANGED feedVars
    PROVE  FeedInv'
<1> USE DEF FeedPolls!feed
<1>0. /\ now \in Nat /\ cursor \in Nat /\ cursor <= now
      /\ \A i \in Items : published[i] # None => published[i] \in Nat
      /\ poll \in [PollIds -> Polls] /\ Carried /\ ShownIsSeen
      /\ \A j \in PollIds : PollKeeps(j)
      /\ item \in [Items -> {"none", "new", "saved", "dismissed"}]
  BY DEF FeedInv, FeedTyped, Polls
<1>1. CASE UNCHANGED feedVars
  <2> SUFFICES ASSUME NEW j \in PollIds PROVE PollKeeps(j)'
    BY <1>0, <1>1 DEF feedVars, FeedInv, FeedTyped, Carried, ShownIsSeen, Handled, Carries, FeedPolls!Window
  <2> QED BY <1>0, <1>1 DEF feedVars, PollKeeps, FeedPolls!Window
<1>2. CASE FeedPolls!Tick
  <2>1. now' = now + 1 /\ UNCHANGED <<published, cursor, poll, item, seen, library, missed>>
    BY <1>2 DEF FeedPolls!Tick
  <2>2. FeedTyped' BY <1>0, <2>1 DEF FeedInv, FeedTyped
  <2>3. Carried' /\ ShownIsSeen'
    BY <1>0, <2>1 DEF Carried, ShownIsSeen, Handled, Carries, FeedPolls!Window
  <2>4. ASSUME NEW j \in PollIds PROVE PollKeeps(j)'
    BY <1>0, <2>1 DEF PollKeeps, FeedPolls!Window
  <2> QED BY <2>2, <2>3, <2>4 DEF FeedInv
<1>3. ASSUME NEW i \in Items, FeedPolls!Publish(i) PROVE FeedInv'
  <2>1. /\ published[i] = None /\ published' = [published EXCEPT ![i] = now]
        /\ UNCHANGED <<now, cursor, poll, item, seen, library, missed>>
    BY <1>3 DEF FeedPolls!Publish
  <2>2. /\ published' = [k \in Items |-> published'[k]] /\ published'[i] = now
        /\ \A k \in Items \ {i} : published'[k] = published[k]
    BY <2>1 DEF FeedInv, FeedTyped
  <2>3. FeedTyped' BY <1>0, <2>1, <2>2 DEF FeedInv, FeedTyped
  <2>4. ASSUME NEW j \in PollIds, NEW k \in FeedPolls!Window(j) PROVE k \in FeedPolls!Window(j)'
    BY <2>1, <2>2, <2>4 DEF FeedPolls!Window
  <2>5. Carried'
    <3> SUFFICES ASSUME NEW k \in Items, published'[k] # None, published'[k] < cursor
                 PROVE  Handled(k)' \/ \E j \in PollIds : Carries(j, k)'
      BY <2>1 DEF Carried
    <3>1. k # i BY <1>0, <2>2
    <3>2. Handled(k) \/ \E j \in PollIds : Carries(j, k) BY <1>0, <2>2, <3>1 DEF Carried
    <3> QED BY <2>1, <2>4, <3>2 DEF Handled, Carries
  <2>6. ASSUME NEW j \in PollIds PROVE PollKeeps(j)' BY <1>0, <2>1, <2>4 DEF PollKeeps
  <2> QED BY <2>1, <2>3, <2>5, <2>6, <1>0 DEF FeedInv, ShownIsSeen
<1>4. ASSUME NEW j \in PollIds, FeedPolls!Dispatch(j) PROVE FeedInv'
  <2> DEFINE p == [FeedPolls!NoPoll EXCEPT !.pc = "queued", !.since = cursor]
  <2>1. /\ poll[j].pc = "free" /\ poll' = [poll EXCEPT ![j] = p] /\ cursor' = now
        /\ UNCHANGED <<now, published, item, seen, library, missed>>
    BY <1>4 DEF FeedPolls!Dispatch, FeedPolls!InStep, FeedPolls!Set
  <2>2. p \in Polls /\ p.pc = "queued" /\ p.since = cursor
    BY <1>0 DEF Polls, FeedPolls!NoPoll, FeedPolls!PollSteps
  <2> HIDE DEF p
  <2>3. /\ poll' \in [PollIds -> Polls] /\ poll'[j] = p
        /\ \A k \in PollIds \ {j} : poll'[k] = poll[k]
    BY <1>0, <2>1, <2>2
  <2>4. FeedTyped' BY <1>0, <2>1, <2>3 DEF FeedInv, FeedTyped, Polls
  <2>5. ASSUME NEW k \in PollIds PROVE PollKeeps(k)'
    <3>1. CASE k = j BY <2>2, <2>3, <3>1 DEF PollKeeps
    <3>2. CASE k # j
      <4>1. poll'[k] = poll[k] /\ PollKeeps(k) BY <1>0, <2>3, <3>2
      <4> QED BY <2>1, <4>1 DEF PollKeeps, FeedPolls!Window
    <3> QED BY <3>1, <3>2
  <2>6. Carried'
    <3> SUFFICES ASSUME NEW i \in Items, published[i] # None, published[i] < now
                 PROVE  Handled(i)' \/ \E k \in PollIds : Carries(k, i)'
      BY <2>1 DEF Carried
    <3>1. CASE published[i] < cursor
      <4>1. Handled(i) \/ \E k \in PollIds : Carries(k, i) BY <1>0, <3>1 DEF Carried
      <4>2. ASSUME NEW k \in PollIds, Carries(k, i) PROVE Carries(k, i)'
        <5>1. k # j BY <2>1, <4>2 DEF Carries
        <5> QED BY <2>1, <2>3, <4>2, <5>1 DEF Carries, FeedPolls!Window
      <4> QED BY <2>1, <4>1, <4>2 DEF Handled
    <3>2. CASE ~(published[i] < cursor)
      <4>1. published[i] >= cursor BY <1>0, <3>2
      <4>2. Carries(j, i)' BY <2>1, <2>2, <2>3, <4>1 DEF Carries, FeedPolls!Window
      <4> QED BY <4>2
    <3> QED BY <3>1, <3>2
  <2> QED BY <1>0, <2>1, <2>4, <2>5, <2>6 DEF FeedInv, ShownIsSeen
<1>5. ASSUME NEW j \in PollIds, FeedPolls!DispatchUncommitted(j) PROVE FeedInv'
  <2> DEFINE p == [FeedPolls!NoPoll EXCEPT !.pc = "queued", !.since = cursor]
  <2>1. /\ poll[j].pc = "free" /\ poll' = [poll EXCEPT ![j] = p]
        /\ UNCHANGED <<now, published, cursor, item, seen, library, missed>>
    BY <1>5 DEF FeedPolls!DispatchUncommitted, FeedPolls!InStep, FeedPolls!Set
  <2>2. p \in Polls /\ p.pc = "queued"
    BY <1>0 DEF Polls, FeedPolls!NoPoll, FeedPolls!PollSteps
  <2> HIDE DEF p
  <2>3. PollKeeps(j)' BY <1>0, <2>1, <2>2 DEF PollKeeps
  <2>4. \A i \in Items : ~Carries(j, i) BY <2>1 DEF Carries
  <2> QED BY <2>1, <2>2, <2>3, <2>4, PollGoesOn
<1>6. ASSUME NEW j \in PollIds, FeedPolls!PollProfile(j) PROVE FeedInv'
  <2>1. poll[j].pc = "queued" /\ UNCHANGED <<now, published, cursor, item, seen, library>>
    BY <1>6 DEF FeedPolls!PollProfile, FeedPolls!InStep
  <2>2. CASE FeedPolls!Give(j, FeedPolls!Window(j))
    <3>1. \A i \in Items : Carries(j, i) => i \in FeedPolls!Window(j) BY <2>1 DEF Carries
    <3> QED BY <2>1, <2>2, <3>1, PollGivesUp
  <2>3. CASE FeedPolls!Set(j, [poll[j] EXCEPT !.pc = "fetching"]) /\ UNCHANGED missed
    <3> DEFINE p == [poll[j] EXCEPT !.pc = "fetching"]
    <3>1. /\ p \in Polls /\ p.pc = "fetching" /\ p.since = poll[j].since
      BY <1>0 DEF Polls, FeedPolls!PollSteps
    <3>2. poll' = [poll EXCEPT ![j] = p] BY <2>3 DEF FeedPolls!Set
    <3> HIDE DEF p
    <3>3. poll'[j] = p BY <1>0, <3>2
    <3>4. PollKeeps(j)' BY <3>1, <3>3 DEF PollKeeps
    <3>5. \A i \in Items : Carries(j, i) => Carries(j, i)'
      BY <2>1, <3>1, <3>3 DEF Carries, FeedPolls!Window
    <3> QED BY <2>1, <2>3, <3>1, <3>2, <3>4, <3>5, PollGoesOn
  <2> QED BY <1>6, <2>2, <2>3 DEF FeedPolls!PollProfile
<1>7. ASSUME NEW j \in PollIds, FeedPolls!PollFetch(j) PROVE FeedInv'
  <2>1. poll[j].pc = "fetching" /\ UNCHANGED <<now, published, cursor, item, seen, library>>
    BY <1>7 DEF FeedPolls!PollFetch, FeedPolls!InStep
  <2>2. CASE FeedPolls!Window(j) = {}
    <3>1. FeedPolls!Give(j, {}) BY <1>7, <2>2 DEF FeedPolls!PollFetch
    <3>2. \A i \in Items : ~Carries(j, i) BY <2>1, <2>2 DEF Carries
    <3> QED BY <2>1, <3>1, <3>2, PollGivesUp
  <2>3. CASE FeedPolls!Window(j) # {}
    <3> DEFINE w == FeedPolls!Window(j)
               p == [poll[j] EXCEPT !.pc = "filtering", !.batch = w]
    <3>1. w \subseteq Items BY DEF FeedPolls!Window
    <3>2. poll' = [poll EXCEPT ![j] = p] /\ missed' = missed
      BY <1>7, <2>3 DEF FeedPolls!PollFetch, FeedPolls!Set
    <3>3. /\ p \in Polls /\ p.pc = "filtering" /\ p.since = poll[j].since /\ p.batch = w
      <4> HIDE DEF w
      <4> QED BY <1>0, <3>1 DEF Polls, FeedPolls!PollSteps
    <3> HIDE DEF p
    <3>4. poll'[j] = p BY <1>0, <3>2
    <3>5. FeedPolls!Window(j)' = w BY <2>1, <3>3, <3>4 DEF FeedPolls!Window
    <3> HIDE DEF w
    <3>6. PollKeeps(j)' BY <3>3, <3>4, <3>5 DEF PollKeeps
    <3>7. \A i \in Items : Carries(j, i) => Carries(j, i)'
      BY <2>1, <3>3, <3>4 DEF Carries, w
    <3> QED BY <2>1, <3>2, <3>3, <3>6, <3>7, PollGoesOn
  <2> QED BY <2>2, <2>3
<1>8. ASSUME NEW j \in PollIds, FeedPolls!PollFilter(j) PROVE FeedInv'
  <2> DEFINE u == FeedPolls!Unseen(poll[j].batch)
             p == [poll[j] EXCEPT !.pc = "scoring", !.batch = u]
  <2>1. /\ poll[j].pc = "filtering" /\ poll' = [poll EXCEPT ![j] = p]
        /\ UNCHANGED <<now, published, cursor, item, seen, library, missed>>
    BY <1>8 DEF FeedPolls!PollFilter, FeedPolls!InStep, FeedPolls!Set
  <2>2. /\ u \subseteq poll[j].batch
        /\ \A i \in u : \A r \in FeedPolls!Reasons : <<i, r>> \notin seen
        /\ \A i \in poll[j].batch : i \notin u => Handled(i)
    BY DEF FeedPolls!Unseen, Handled
  <2> HIDE DEF u
  <2>3. poll[j].batch \subseteq Items /\ poll[j] \in Polls BY <1>0 DEF Polls
  <2>4. /\ p \in Polls /\ p.pc = "scoring" /\ p.since = poll[j].since /\ p.batch = u
    BY <2>2, <2>3 DEF Polls, FeedPolls!PollSteps
  <2> HIDE DEF p
  <2>5. poll'[j] = p BY <1>0, <2>1
  <2>6. FeedPolls!Window(j)' = FeedPolls!Window(j) BY <2>1, <2>4, <2>5 DEF FeedPolls!Window
  <2>7. PollKeeps(j)'
    <3>1. \A i \in u : i \in FeedPolls!Window(j)' BY <1>0, <2>1, <2>2, <2>6 DEF PollKeeps
    <3>2. \A i \in u : item[i] = "none" BY <1>0, <2>2, <2>3 DEF ShownIsSeen
    <3>3. \A i \in u : <<i, "surfaced">> \notin seen BY <2>2 DEF FeedPolls!Reasons
    <3> QED BY <2>1, <2>4, <2>5, <3>1, <3>2, <3>3 DEF PollKeeps
  <2>8. \A i \in Items : Carries(j, i) => Handled(i) \/ Carries(j, i)'
    BY <2>1, <2>2, <2>4, <2>5 DEF Carries
  <2> QED BY <2>1, <2>4, <2>7, <2>8, PollGoesOn
<1>9. ASSUME NEW j \in PollIds, FeedPolls!PollInsert(j) PROVE FeedInv'
  <2> DEFINE b == poll[j].batch
  <2>1. /\ poll[j].pc = "scoring"
        /\ item' = [i \in Items |-> IF i \in b THEN "new" ELSE item[i]]
        /\ seen' = seen \cup (b \X {"surfaced"})
        /\ poll' = [k \in PollIds |->
              IF k = j THEN FeedPolls!NoPoll
              ELSE [poll[k] EXCEPT !.stale = poll[k].stale \/ poll[k].pc = "scoring"]]
        /\ UNCHANGED <<now, published, cursor, library, missed>>
    BY <1>9 DEF FeedPolls!PollInsert, FeedPolls!InStep, FeedPolls!Surfaced, FeedPolls!Inserted
  <2>2. FeedPolls!NoPoll \in Polls /\ FeedPolls!NoPoll.pc = "free"
    BY DEF Polls, FeedPolls!NoPoll, FeedPolls!PollSteps
  <2>3. poll'[j].pc = "free" BY <2>1, <2>2
  <2>4. ASSUME NEW k \in PollIds, k # j
        PROVE  /\ poll'[k] \in Polls /\ poll'[k].pc = poll[k].pc /\ poll'[k].since = poll[k].since
               /\ poll'[k].batch = poll[k].batch /\ (poll[k].pc = "scoring" => poll'[k].stale)
    <3> DEFINE st == poll[k].stale \/ poll[k].pc = "scoring"
    <3>1. st \in BOOLEAN /\ (poll[k].pc = "scoring" => st) OBVIOUS
    <3>2. poll'[k] = [poll[k] EXCEPT !.stale = st] BY <2>1, <2>4
    <3>3. poll[k] \in Polls BY <1>0
    <3> HIDE DEF st
    <3>4. /\ poll'[k] \in Polls /\ poll'[k].pc = poll[k].pc /\ poll'[k].since = poll[k].since
          /\ poll'[k].batch = poll[k].batch /\ poll'[k].stale = st
      BY <3>1, <3>2, <3>3 DEF Polls
    <3> QED BY <3>1, <3>4
  <2>5. \A k \in PollIds : poll'[k] \in Polls BY <2>1, <2>2, <2>4
  <2>6. poll' \in [PollIds -> Polls]
    <3>1. poll' = [k \in PollIds |-> poll'[k]] BY <2>1
    <3> QED BY <2>5, <3>1
  <2>7. FeedTyped' BY <1>0, <2>1, <2>6 DEF FeedInv, FeedTyped, Polls
  <2>8. ShownIsSeen'
    <3> SUFFICES ASSUME NEW i \in Items, item'[i] # "none"
                 PROVE  \E r \in FeedPolls!Reasons : <<i, r>> \in seen'
      BY DEF ShownIsSeen
    <3>1. CASE i \in b BY <2>1, <3>1 DEF FeedPolls!Reasons
    <3>2. CASE i \notin b BY <1>0, <2>1, <3>2 DEF ShownIsSeen
    <3> QED BY <3>1, <3>2
  <2>9. ASSUME NEW k \in PollIds PROVE PollKeeps(k)'
    <3>1. CASE k = j BY <2>3, <3>1 DEF PollKeeps
    <3>2. CASE k # j
      <4>1. FeedPolls!Window(k)' = FeedPolls!Window(k) BY <2>1, <2>4, <3>2 DEF FeedPolls!Window
      <4>2. PollKeeps(k) BY <1>0
      <4> QED BY <2>4, <3>2, <4>1, <4>2 DEF PollKeeps
    <3> QED BY <3>1, <3>2
  <2>10. Carried'
    <3> SUFFICES ASSUME NEW i \in Items, published[i] # None, published[i] < cursor
                 PROVE  Handled(i)' \/ \E k \in PollIds : Carries(k, i)'
      BY <2>1 DEF Carried
    <3>1. Handled(i) => Handled(i)' BY <2>1 DEF Handled
    <3>2. Carries(j, i) => Handled(i)' BY <2>1 DEF Handled, Carries, FeedPolls!Reasons
    <3>3. ASSUME NEW k \in PollIds, k # j, Carries(k, i) PROVE Carries(k, i)'
      BY SMTT(20), <2>1, <2>4, <3>3 DEF Carries, FeedPolls!Window
    <3> QED BY <1>0, <3>1, <3>2, <3>3 DEF Carried
  <2> QED BY <2>7, <2>8, <2>9, <2>10 DEF FeedInv
<1>10. ASSUME NEW j \in PollIds, FeedPolls!PollClashes(j) PROVE FeedInv'
  <2>1. /\ poll[j].pc = "scoring" /\ FeedPolls!Give(j, poll[j].batch)
        /\ UNCHANGED <<now, published, cursor, item, seen, library>>
    BY <1>10 DEF FeedPolls!PollClashes, FeedPolls!InStep
  <2>2. \A i \in Items : Carries(j, i) => i \in poll[j].batch BY <2>1 DEF Carries
  <2> QED BY <2>1, <2>2, PollGivesUp
<1>11. ASSUME NEW j \in PollIds, FeedPolls!PollDies(j) PROVE FeedInv'
  <2>1. /\ FeedPolls!Give(j, FeedPolls!Window(j))
        /\ UNCHANGED <<now, published, cursor, item, seen, library>>
    BY <1>11 DEF FeedPolls!PollDies
  <2>2. \A i \in Items : Carries(j, i) => i \in FeedPolls!Window(j)
    BY <1>0 DEF Carries, PollKeeps
  <2> QED BY <2>1, <2>2, PollGivesUp
<1>12. ASSUME NEW i \in Items,
              FeedPolls!SaveItem(i) \/ FeedPolls!DismissItem(i) \/ FeedPolls!AddToLibrary(i)
       PROVE  FeedInv'
  <2>1. /\ UNCHANGED <<now, published, cursor, poll, missed>>
        /\ library \subseteq library' /\ seen \subseteq seen'
        /\ seen' \in {seen, seen \cup {<<i, "library">>}, seen \cup {<<i, "dismissed">>}}
        /\ \/ item' = item
           \/ item[i] # "none" /\ \E s \in {"saved", "dismissed"} : item' = [item EXCEPT ![i] = s]
    BY <1>12 DEF FeedPolls!SaveItem, FeedPolls!DismissItem, FeedPolls!AddToLibrary
  <2>2. /\ item' \in [Items -> {"none", "new", "saved", "dismissed"}]
        /\ \A k \in Items : item'[k] = "none" <=> item[k] = "none"
    BY <1>0, <2>1
  <2>3. \A k \in Items : <<k, "surfaced">> \in seen' => <<k, "surfaced">> \in seen
    BY <2>1
  <2> QED BY <2>1, <2>2, <2>3, ResearcherMoves
<1> QED
  BY <1>1, <1>2, <1>3, <1>4, <1>5, <1>6, <1>7, <1>8, <1>9, <1>10, <1>11, <1>12 DEF FeedPolls!Next

\* Every paper published before the cursor is accounted for, and two polls of
\* one window clash only when one inserted after the other had filtered.
THEOREM NothingIsLeftBehind == Spec => []FeedComplete
<1>1. Init => FeedInv BY FeedInit DEF Init
<1>2. FeedInv /\ [Next]_vars => FeedInv' BY StepOfEach, FeedStep
<1>3. FeedInv => FeedComplete
  <2> SUFFICES ASSUME FeedInv PROVE FeedComplete OBVIOUS
  <2>1. FeedPolls!WindowCovered
    <3> SUFFICES ASSUME NEW i \in Items, published[i] # None, published[i] < cursor
                 PROVE  \/ Handled(i)
                        \/ \E j \in PollIds : poll[j].pc # "free" /\ i \in FeedPolls!Window(j)
      BY DEF FeedPolls!WindowCovered, FeedPolls!InStep, Handled
    <3>1. Handled(i) \/ \E j \in PollIds : Carries(j, i) BY DEF FeedInv, Carried
    <3>2. \A j \in PollIds : PollKeeps(j) BY DEF FeedInv
    <3> QED BY <3>1, <3>2 DEF Carries, PollKeeps
  <2>2. FeedPolls!SerialPollsNeverClash
    BY DEF FeedPolls!SerialPollsNeverClash, FeedInv, PollKeeps, FeedPolls!InStep, FeedPolls!Clash
  <2> QED BY <2>1, <2>2 DEF FeedComplete, FeedPolls!FeedComplete
<1> QED BY <1>1, <1>2, <1>3, PTL DEF Spec

-----------------------------------------------------------------------------
(* InterestProfile.                                                         *)

\* While nobody saved or seeded, the profile is still within what was read.
ProfileInv == fresh /\ reextract # None => profile \subseteq reextract

\* Undisturbed, a weekly re-extraction takes no term away.
THEOREM ReextractionOnlyAdds == Spec => AdditiveIfUndisturbed
<1> DEFINE A == Profile!ReextractEnds /\ fresh => profile \subseteq profile'
<1>1. Init => ProfileInv BY DEF Init, Profile!Init, ProfileInv
<1>2. ProfileInv /\ [Next]_vars => ProfileInv'
  <2> SUFFICES ASSUME ProfileInv, Profile!Next \/ UNCHANGED profileVars PROVE ProfileInv'
    BY StepOfEach
  <2>1. CASE UNCHANGED profileVars BY <2>1 DEF profileVars, ProfileInv
  <2>2. ASSUME NEW r \in Readers, Profile!GetProfile(r) PROVE ProfileInv'
    BY <2>2 DEF Profile!GetProfile, ProfileInv
  <2>3. ASSUME NEW r \in Readers, Profile!SeedProfile(r) PROVE ProfileInv'
    <3>1. PICK seed \in SUBSET Terms : profile' = seed /\ fresh' = (fresh /\ seed \subseteq reextract)
      BY <2>3 DEF Profile!SeedProfile
    <3>2. reextract' = reextract BY <2>3 DEF Profile!SeedProfile
    <3> QED BY <3>1, <3>2 DEF ProfileInv
  <2>4. ASSUME NEW terms \in SUBSET Terms, Profile!UpdateInterestProfile(terms) PROVE ProfileInv'
    BY <2>4 DEF Profile!UpdateInterestProfile, ProfileInv
  <2>5. CASE Profile!ReextractRead BY <2>5 DEF Profile!ReextractRead, ProfileInv
  <2>6. CASE Profile!ReextractWrite \/ Profile!ReextractFails
    BY <2>6 DEF Profile!ReextractWrite, Profile!ReextractFails, ProfileInv
  <2> QED BY <2>1, <2>2, <2>3, <2>4, <2>5, <2>6 DEF Profile!Next
<1>3. ProfileInv /\ [Next]_vars => A
  <2> SUFFICES ASSUME ProfileInv, [Next]_vars, reextract # None, reextract' = None, fresh
               PROVE  profile \subseteq profile'
    BY DEF Profile!ReextractEnds
  <2>1. profile \subseteq reextract BY DEF ProfileInv
  <2>2. Profile!Next BY StepOfEach DEF profileVars
  <2>3. Profile!ReextractWrite \/ Profile!ReextractFails
    BY <2>2 DEF Profile!Next, Profile!GetProfile, Profile!SeedProfile, Profile!UpdateInterestProfile,
       Profile!ReextractRead
  <2> QED BY <2>1, <2>3 DEF Profile!ReextractWrite, Profile!ReextractFails
<1> QED BY <1>1, <1>2, <1>3, PTL DEF Spec, AdditiveIfUndisturbed, Profile!AdditiveIfUndisturbed

-----------------------------------------------------------------------------
(* Among selects what it says.                                              *)

\* a is what is selected of each of the first l elements.
Selects(a, s, R, l) ==
    a = [n \in 0 .. l |-> IF n = 0 THEN <<>>
                          ELSE IF s[n] \in R THEN Append(a[n - 1], s[n]) ELSE a[n - 1]]

LEMMA SelectionExists ==
    ASSUME NEW s, NEW R, NEW l \in Nat
    PROVE  \E a : Selects(a, s, R, l)
<1> DEFINE G(a, k) == Selects(a, s, R, k)
           S == {k \in Nat : \E a : G(a, k)}
           Sel(x, k) == IF s[k] \in R THEN Append(x, s[k]) ELSE x
<1>1. 0 \in S
  <2>1. G([n \in 0 .. 0 |-> <<>>], 0) BY DEF Selects
  <2> QED BY <2>1, Zenon
<1>2. ASSUME NEW k \in Nat, k \in S PROVE k + 1 \in S
  <2>1. PICK a : G(a, k) BY <1>2
  <2> DEFINE b == [n \in 0 .. k + 1 |-> IF n = k + 1 THEN Sel(a[k], n) ELSE a[n]]
  <2>2. \A n \in 0 .. k : a[n] = IF n = 0 THEN <<>> ELSE Sel(a[n - 1], n)
    BY <2>1, Zenon DEF Selects
  <2> HIDE DEF Sel
  <2>3. \A n \in 0 .. k + 1 : b[n] = IF n = 0 THEN <<>> ELSE Sel(b[n - 1], n)
    <3> SUFFICES ASSUME NEW n \in 0 .. k + 1
                 PROVE  b[n] = IF n = 0 THEN <<>> ELSE Sel(b[n - 1], n)
      OBVIOUS
    <3>1. CASE n = k + 1
      <4>1. b[n] = Sel(a[k], n) /\ n # 0 /\ b[n - 1] = a[k] BY <3>1
      <4> QED BY <4>1
    <3>2. CASE n # k + 1
      <4>1. n \in 0 .. k /\ b[n] = a[n] BY <3>2
      <4>2. n # 0 => b[n - 1] = a[n - 1] BY <3>2
      <4> QED BY <2>2, <4>1, <4>2
    <3> QED BY <3>1, <3>2
  <2>4. G(b, k + 1)
    <3> HIDE DEF b
    <3>1. b = [n \in 0 .. k + 1 |-> b[n]] BY DEF b
    <3>2. b = [n \in 0 .. k + 1 |-> IF n = 0 THEN <<>> ELSE Sel(b[n - 1], n)] BY <2>3, <3>1
    <3> QED BY <3>2, Zenon DEF Selects, Sel
  <2> HIDE DEF b, G
  <2> QED BY <2>4
<1> HIDE DEF G, S
<1>3. \A k \in Nat : k \in S BY <1>1, <1>2, Induction
<1> QED BY <1>3, Zenon DEF G, S

LEMMA SelectionSteps ==
    ASSUME NEW s, NEW R, Len(s) \in Nat
    PROVE  \E a : /\ a[0] = <<>> /\ Among(s, R) = a[Len(s)]
                  /\ \A n \in 1 .. Len(s) :
                        a[n] = IF s[n] \in R THEN Append(a[n - 1], s[n]) ELSE a[n - 1]
<1>1. \E a : Selects(a, s, R, Len(s)) BY SelectionExists
<1> DEFINE among[n \in 0 .. Len(s)] ==
               IF n = 0 THEN <<>>
               ELSE IF s[n] \in R THEN Append(among[n - 1], s[n]) ELSE among[n - 1]
<1>2. among = [n \in 0 .. Len(s) |->
                  IF n = 0 THEN <<>>
                  ELSE IF s[n] \in R THEN Append(among[n - 1], s[n]) ELSE among[n - 1]]
  BY <1>1, Zenon DEF Selects
<1>3. Among(s, R) = among[Len(s)] BY Zenon DEF Among
<1> HIDE DEF among
<1>4. 0 \in 0 .. Len(s) /\ \A n \in 1 .. Len(s) : n \in 0 .. Len(s) /\ n # 0 OBVIOUS
<1>5. among[0] = <<>> BY <1>2, <1>4
<1>6. \A n \in 1 .. Len(s) :
         among[n] = IF s[n] \in R THEN Append(among[n - 1], s[n]) ELSE among[n - 1]
  BY <1>2, <1>4
<1> QED BY <1>3, <1>5, <1>6

\* No element is in s twice.
Distinct(s) == \A i, j \in DOMAIN s : s[i] = s[j] => i = j
Elements(s) == {s[i] : i \in DOMAIN s}

LEMMA AppendDistinct ==
    ASSUME NEW T, NEW s \in Seq(T), NEW e \in T
    PROVE  /\ Append(s, e) \in Seq(T) /\ Elements(Append(s, e)) = Elements(s) \cup {e}
           /\ Distinct(s) /\ e \notin Elements(s) => Distinct(Append(s, e))
<1>1. /\ Append(s, e) \in Seq(T) /\ DOMAIN Append(s, e) = 1 .. Len(s) + 1
      /\ DOMAIN s = 1 .. Len(s) /\ Len(s) \in Nat
      /\ Append(s, e)[Len(s) + 1] = e
      /\ \A k \in DOMAIN s : Append(s, e)[k] = s[k]
      /\ \A k \in DOMAIN Append(s, e) : k \in DOMAIN s \/ k = Len(s) + 1
      /\ DOMAIN s \subseteq DOMAIN Append(s, e) /\ Len(s) + 1 \in DOMAIN Append(s, e)
  OBVIOUS
<1> DEFINE r == Append(s, e)
           l == Len(s) + 1
<1>2. /\ r[l] = e /\ l \in DOMAIN r /\ DOMAIN s \subseteq DOMAIN r
      /\ \A k \in DOMAIN s : r[k] = s[k]
      /\ \A k \in DOMAIN r : k \in DOMAIN s \/ k = l
  BY <1>1
<1> HIDE DEF r, l
<1>3. Elements(r) = Elements(s) \cup {e} BY <1>2 DEF Elements
<1>4. Distinct(s) /\ e \notin Elements(s) => Distinct(r)
  <2> SUFFICES ASSUME Distinct(s), e \notin Elements(s), NEW i \in DOMAIN r, NEW j \in DOMAIN r, r[i] = r[j]
               PROVE  i = j
    BY DEF Distinct
  <2>1. \A k \in DOMAIN s : s[k] # e BY DEF Elements
  <2> QED BY <1>2, <2>1 DEF Distinct
<1> QED BY <1>1, <1>3, <1>4 DEF r

LEMMA AmongIs ==
    ASSUME NEW T, NEW s \in Seq(T), NEW R
    PROVE  /\ Among(s, R) \in Seq(T) /\ Elements(Among(s, R)) = Elements(s) \cap R
           /\ Distinct(s) => Distinct(Among(s, R))
<1>1. Len(s) \in Nat /\ DOMAIN s = 1 .. Len(s) /\ \A n \in 1 .. Len(s) : s[n] \in T OBVIOUS
<1>2. PICK a : /\ a[0] = <<>> /\ Among(s, R) = a[Len(s)]
               /\ \A n \in 1 .. Len(s) :
                     a[n] = IF s[n] \in R THEN Append(a[n - 1], s[n]) ELSE a[n - 1]
  BY <1>1, SelectionSteps
<1> DEFINE Good(k) == /\ a[k] \in Seq(T) /\ Elements(a[k]) = {s[i] : i \in 1 .. k} \cap R
                      /\ Distinct(s) => Distinct(a[k])
           S == {k \in Nat : k <= Len(s) => Good(k)}
<1>3. 0 \in S
  <2>1. DOMAIN a[0] = {} /\ a[0] \in Seq(T) /\ 1 .. 0 = {} BY <1>2
  <2>2. Good(0) BY <2>1 DEF Elements, Distinct
  <2> QED BY <2>2
<1>4. ASSUME NEW k \in Nat, k \in S PROVE k + 1 \in S
  <2> SUFFICES ASSUME k + 1 <= Len(s) PROVE Good(k + 1) OBVIOUS
  <2>1. Good(k) BY <1>1, <1>4
  <2> DEFINE n == k + 1
  <2>2. n \in 1 .. Len(s) /\ n - 1 = k /\ 1 .. n = (1 .. k) \cup {n} /\ n \notin 1 .. k
        /\ \A i \in 1 .. k : i \in 1 .. Len(s)
    BY <1>1
  <2>3. a[n] = IF s[n] \in R THEN Append(a[k], s[n]) ELSE a[k] BY <1>2, <2>2
  <2>4. {s[i] : i \in 1 .. n} = {s[i] : i \in 1 .. k} \cup {s[n]} BY <2>2
  <2>5. s[n] \in T BY <1>1, <2>2
  <2> HIDE DEF n
  <2>6. CASE s[n] \in R
    <3>1. a[n] = Append(a[k], s[n]) BY <2>3, <2>6
    <3>2. Distinct(s) => s[n] \notin Elements(a[k]) BY <1>1, <2>1, <2>2 DEF Distinct
    <3>3. /\ a[n] \in Seq(T) /\ Elements(a[n]) = Elements(a[k]) \cup {s[n]}
          /\ Distinct(a[k]) /\ s[n] \notin Elements(a[k]) => Distinct(a[n])
      BY <2>1, <2>5, <3>1, AppendDistinct
    <3>4. Good(n) BY <2>1, <2>4, <2>6, <3>2, <3>3
    <3> QED BY <3>4 DEF n
  <2>7. CASE s[n] \notin R
    <3>1. a[n] = a[k] BY <2>3, <2>7
    <3>2. Good(n) BY <2>1, <2>4, <2>7, <3>1
    <3> QED BY <3>2 DEF n
  <2> QED BY <2>6, <2>7
<1> HIDE DEF S
<1>5. \A k \in Nat : k \in S BY <1>3, <1>4, Induction
<1>6. Len(s) \in S BY <1>1, <1>5
<1>7. Good(Len(s)) BY <1>1, <1>6 DEF S
<1>8. Elements(s) = {s[i] : i \in 1 .. Len(s)} BY <1>1 DEF Elements
<1> QED BY <1>2, <1>7, <1>8

-----------------------------------------------------------------------------
(* Catchup.                                                                 *)

\* What is true of a schedule row: dispatched once too often only for a pass
\* that failed, and not yet since then when it is overdue.
CatchupInv ==
    /\ CatchupPass!TypeOK /\ IsFiniteSet(created)
    /\ \A r \in CatchupPass!AllRows :
          /\ enqueued[r] <= 1 + failures
          /\ r \notin scheduled \/ r \in Elements(late) => enqueued[r] <= failures

LEMMA CatchupNumbers == MaxFailures \in Nat /\ MaxDispatches \in Nat
BY ServicesAssumption

LEMMA CatchupTypes ==
    CatchupPass!TypeOK <=>
        /\ created \subseteq Projects /\ scheduled \subseteq CatchupPass!AllRows
        /\ late \in Seq(CatchupPass!AllRows) /\ Distinct(late) /\ Elements(late) \subseteq scheduled
        /\ configured \in BOOLEAN
        /\ enqueued \in [CatchupPass!AllRows -> 0 .. MaxFailures + 1]
        /\ failures \in 0 .. MaxFailures
BY DEF CatchupPass!TypeOK, CatchupPass!IsInjective, CatchupPass!ToSet, Distinct, Elements

LEMMA CatchupTypesNext ==
    ASSUME created' \subseteq Projects, scheduled' \subseteq CatchupPass!AllRows,
           late' \in Seq(CatchupPass!AllRows), Distinct(late'), Elements(late') \subseteq scheduled',
           configured' \in BOOLEAN, enqueued' \in [CatchupPass!AllRows -> 0 .. MaxFailures + 1],
           failures' \in 0 .. MaxFailures
    PROVE  CatchupPass!TypeOK'
BY DEF CatchupPass!TypeOK, CatchupPass!IsInjective, CatchupPass!ToSet, Distinct, Elements

LEMMA CatchupInitially == CatchupPass!Init => CatchupInv
<1> SUFFICES ASSUME CatchupPass!Init PROVE CatchupInv OBVIOUS
<1>1. /\ created = {} /\ scheduled = {} /\ late = <<>> /\ configured = FALSE
      /\ enqueued = [r \in CatchupPass!AllRows |-> 0] /\ failures = 0
  BY DEF CatchupPass!Init
<1>2. late \in Seq(CatchupPass!AllRows) /\ DOMAIN late = {} BY <1>1
<1>3. Distinct(late) /\ Elements(late) = {} BY <1>2 DEF Distinct, Elements
<1>4. CatchupPass!TypeOK
  <2>1. enqueued \in [CatchupPass!AllRows -> 0 .. MaxFailures + 1] /\ failures \in 0 .. MaxFailures
    BY <1>1, CatchupNumbers
  <2>2. created \subseteq Projects /\ scheduled \subseteq CatchupPass!AllRows /\ configured \in BOOLEAN
    BY <1>1
  <2> QED BY <1>2, <1>3, <2>1, <2>2, CatchupTypes
<1>5. IsFiniteSet(created) BY <1>1, FS_EmptySet
<1> QED BY <1>1, <1>4, <1>5 DEF CatchupInv

\* Two sequences without repetition that share no element.
LEMMA ConcatDistinct ==
    ASSUME NEW T, NEW s \in Seq(T), NEW u \in Seq(T)
    PROVE  /\ s \o u \in Seq(T) /\ Elements(s \o u) = Elements(s) \cup Elements(u)
           /\ Distinct(s) /\ Distinct(u) /\ Elements(s) \cap Elements(u) = {} => Distinct(s \o u)
<1> DEFINE r == s \o u
           l == Len(s)
           m == Len(u)
<1>1. /\ l \in Nat /\ m \in Nat /\ DOMAIN s = 1 .. l /\ DOMAIN u = 1 .. m
      /\ r \in Seq(T) /\ DOMAIN r = 1 .. l + m
      /\ \A i \in 1 .. l : r[i] = s[i]
      /\ \A i \in 1 .. m : r[l + i] = u[i]
  <2>1. /\ r \in Seq(T) /\ Len(r) = l + m
        /\ \A i \in 1 .. l + m : r[i] = IF i <= l THEN s[i] ELSE u[i - l]
    BY ConcatProperties
  <2>2. l \in Nat /\ m \in Nat /\ DOMAIN s = 1 .. l /\ DOMAIN u = 1 .. m /\ DOMAIN r = 1 .. Len(r)
    BY <2>1
  <2> HIDE DEF r, l, m
  <2>3. \A i \in 1 .. l : i \in 1 .. l + m /\ i <= l BY <2>2
  <2>4. \A i \in 1 .. m : l + i \in 1 .. l + m /\ ~(l + i <= l) /\ l + i - l = i BY <2>2
  <2> QED BY <2>1, <2>2, <2>3, <2>4
<1> HIDE DEF r, l, m
<1>2. \A i \in DOMAIN r : i \in 1 .. l \/ (i - l \in 1 .. m /\ l + (i - l) = i) BY <1>1
<1>3. \A i \in DOMAIN r : (i \in 1 .. l /\ r[i] = s[i]) \/ (i - l \in 1 .. m /\ r[i] = u[i - l])
  BY <1>1, <1>2
<1>4. Elements(r) = Elements(s) \cup Elements(u)
  <2>1. Elements(r) \subseteq Elements(s) \cup Elements(u) BY <1>1, <1>3 DEF Elements
  <2>2. \A i \in 1 .. l : i \in DOMAIN r BY <1>1
  <2>3. \A i \in 1 .. m : l + i \in DOMAIN r BY <1>1
  <2>4. Elements(s) \subseteq Elements(r) BY <1>1, <2>2 DEF Elements
  <2>5. Elements(u) \subseteq Elements(r) BY <1>1, <2>3 DEF Elements
  <2> QED BY <2>1, <2>4, <2>5
<1>5. ASSUME Distinct(s), Distinct(u), Elements(s) \cap Elements(u) = {} PROVE Distinct(r)
  <2> SUFFICES ASSUME NEW i \in DOMAIN r, NEW j \in DOMAIN r, r[i] = r[j] PROVE i = j
    BY DEF Distinct
  <2>1. \A k \in 1 .. l, o \in 1 .. m : s[k] # u[o] BY <1>1, <1>5 DEF Elements
  <2>2. CASE i \in 1 .. l /\ r[i] = s[i]
    <3>1. j \in 1 .. l /\ r[j] = s[j] BY <1>3, <2>1, <2>2
    <3> QED BY <1>1, <1>5, <2>2, <3>1 DEF Distinct
  <2>3. CASE i - l \in 1 .. m /\ r[i] = u[i - l]
    <3>1. j - l \in 1 .. m /\ r[j] = u[j - l] BY <1>3, <2>1, <2>3
    <3>2. i - l = j - l BY <1>1, <1>5, <2>3, <3>1 DEF Distinct
    <3> QED BY <1>1, <3>2
  <2> QED BY <1>3, <2>2, <2>3
<1> QED BY <1>1, <1>4, <1>5 DEF r

LEMMA OverdueIs ==
    ASSUME CatchupInv, NEW overdue \in CatchupPass!Overdue
    PROVE  /\ overdue \in Seq(CatchupPass!AllRows) /\ Distinct(overdue)
           /\ Elements(overdue) \subseteq Elements(late) \cup CatchupPass!New
<1> DEFINE N == CatchupPass!New
<1>1. created \subseteq Projects /\ IsFiniteSet(created) /\ scheduled \subseteq CatchupPass!AllRows
      /\ late \in Seq(CatchupPass!AllRows) /\ Distinct(late) /\ Elements(late) \subseteq scheduled
  BY CatchupTypes DEF CatchupInv
<1>2. N \subseteq CatchupPass!AllRows /\ N \cap scheduled = {}
  BY <1>1 DEF CatchupPass!New, CatchupPass!AllRows, CatchupPass!RowsOf
<1>3. IsFiniteSet(N) /\ Cardinality(N) \in Nat
  <2>1. IsFiniteSet(CatchupPass!ScheduleKinds)
    <3>1. CatchupPass!ScheduleKinds = ({} \cup {"feed_poll"}) \cup {"interest_profile_reextract"}
      BY DEF CatchupPass!ScheduleKinds
    <3>2. IsFiniteSet({} \cup {"feed_poll"}) BY FS_EmptySet, FS_AddElement
    <3> QED BY <3>1, <3>2, FS_AddElement
  <2>2. IsFiniteSet(CatchupPass!RowsOf(created)) BY <1>1, <2>1, FS_Product DEF CatchupPass!RowsOf
  <2>3. IsFiniteSet(N) BY <2>2, FS_Difference DEF CatchupPass!New
  <2> QED BY <2>3, FS_CardinalityType
<1>4. PICK n \in CatchupPass!SetToSeqs(N) : overdue = late \o n BY DEF CatchupPass!Overdue
<1>5. n \in [1 .. Cardinality(N) -> N]
      /\ \A i, j \in 1 .. Cardinality(N) : i # j => n[i] # n[j]
  <2> HIDE DEF N
  <2>1. n \in CatchupPass!SetToSeqs(N) BY <1>4
  <2>2. n \in {f \in [1 .. Cardinality(N) -> N] :
                  \A i, j \in 1 .. Cardinality(N) : i # j => f[i] # f[j]}
    <3>1. CatchupPass!Cardinality(N) = Cardinality(N) BY Zenon DEF CatchupPass!Cardinality, Cardinality
    <3> QED BY <2>1, <3>1 DEF CatchupPass!SetToSeqs
  <2> QED BY <2>2
<1> HIDE DEF N
<1>6. n \in Seq(CatchupPass!AllRows) /\ Elements(n) \subseteq N /\ Distinct(n)
  <2>1. n \in [1 .. Cardinality(N) -> CatchupPass!AllRows] BY <1>2, <1>5
  <2>2. n \in Seq(CatchupPass!AllRows) BY <1>3, <2>1, SeqDef
  <2>3. DOMAIN n = 1 .. Cardinality(N) BY <1>5
  <2> QED BY <1>5, <2>2, <2>3 DEF Elements, Distinct
<1>7. Elements(late) \cap Elements(n) = {} BY <1>1, <1>2, <1>6
<1>8. /\ late \o n \in Seq(CatchupPass!AllRows) /\ Elements(late \o n) = Elements(late) \cup Elements(n)
      /\ Distinct(late \o n)
  BY <1>1, <1>6, <1>7, ConcatDistinct
<1> QED BY <1>4, <1>6, <1>8 DEF N

LEMMA FirstOfIs ==
    ASSUME NEW T, NEW s \in Seq(T), NEW n \in Nat
    PROVE  /\ CatchupPass!FirstOf(s, n) \in Seq(T)
           /\ Elements(CatchupPass!FirstOf(s, n)) \subseteq Elements(s)
<1> DEFINE l == IF Len(s) < n THEN Len(s) ELSE n
           r == SubSeq(s, 1, l)
<1>1. Len(s) \in Nat /\ DOMAIN s = 1 .. Len(s) /\ l \in Nat /\ l <= Len(s)
      /\ \A i \in 1 .. Len(s) : s[i] \in T
  OBVIOUS
<1> HIDE DEF l
<1>2. \A i \in 1 .. l : i \in 1 .. Len(s) /\ s[i] \in T BY <1>1
<1>3. r \in Seq(T) /\ Len(r) = l /\ \A i \in 1 .. l : r[i] = s[1 + i - 1]
  <2>1. /\ r \in Seq(T) /\ Len(r) = IF 1 <= l THEN l - 1 + 1 ELSE 0
        /\ \A i \in 1 .. l - 1 + 1 : r[i] = s[1 + i - 1]
    BY <1>1, <1>2, SubSeqProperties
  <2>2. l - 1 + 1 = l BY <1>1
  <2> QED BY <1>1, <2>1, <2>2
<1>4. DOMAIN r = 1 .. l /\ \A i \in 1 .. l : 1 + i - 1 = i
  <2> HIDE DEF r
  <2> QED BY <1>1, <1>3
<1>5. Elements(r) \subseteq Elements(s)
  <2> HIDE DEF r
  <2> QED BY <1>1, <1>2, <1>3, <1>4 DEF Elements
<1>6. CatchupPass!FirstOf(s, n) = r BY DEF CatchupPass!FirstOf, l
<1> QED BY <1>3, <1>5, <1>6

LEMMA DispatchesAre ==
    ASSUME CatchupInv, NEW overdue \in CatchupPass!Overdue
    PROVE  /\ CatchupPass!Dispatches(overdue) \in Seq(CatchupPass!AllRows)
           /\ Elements(CatchupPass!Dispatches(overdue)) \subseteq Elements(overdue)
<1> DEFINE s == Among(overdue, CatchupPass!Runnable)
<1>1. CatchupPass!Dispatches(overdue) = CatchupPass!FirstOf(s, MaxDispatches)
  BY Zenon DEF CatchupPass!Dispatches, CatchupPass!Among, Among
<1>2. s \in Seq(CatchupPass!AllRows) /\ Elements(s) \subseteq Elements(overdue) BY OverdueIs, AmongIs
<1> HIDE DEF s
<1> QED BY <1>1, <1>2, FirstOfIs, CatchupNumbers

\* One more for some rows of those that are overdue or new.
LEMMA Enqueues ==
    ASSUME CatchupInv, NEW jobs, jobs \subseteq Elements(late) \cup CatchupPass!New,
           CatchupPass!Enqueue(jobs)
    PROVE  /\ enqueued' \in [CatchupPass!AllRows -> Nat]
           /\ \A r \in CatchupPass!AllRows :
                 /\ enqueued'[r] <= 1 + failures
                 /\ r \notin jobs => enqueued'[r] = enqueued[r]
<1>1. /\ enqueued \in [CatchupPass!AllRows -> 0 .. MaxFailures + 1] /\ failures \in Nat
      /\ \A r \in CatchupPass!AllRows : enqueued[r] <= 1 + failures /\ enqueued[r] \in Nat
      /\ \A r \in CatchupPass!AllRows :
            r \notin scheduled \/ r \in Elements(late) => enqueued[r] <= failures
  BY CatchupTypes, CatchupNumbers DEF CatchupInv
<1>2. \A r \in jobs : r \notin scheduled \/ r \in Elements(late) BY DEF CatchupPass!New
<1>3. enqueued' = [r \in CatchupPass!AllRows |-> IF r \in jobs THEN enqueued[r] + 1 ELSE enqueued[r]]
  BY DEF CatchupPass!Enqueue
<1> QED BY <1>1, <1>2, <1>3

LEMMA CatchupPasses ==
    ASSUME CatchupInv, CatchupPass!Pass
    PROVE  CatchupInv'
<1>1. PICK overdue \in CatchupPass!Overdue :
         LET jobs == CatchupPass!ToSet(CatchupPass!Dispatches(overdue)) IN
         /\ CatchupPass!Enqueue(jobs)
         /\ late' = CatchupPass!Among(overdue, CatchupPass!AllRows \ jobs)
         /\ scheduled' = scheduled \cup CatchupPass!New
         /\ UNCHANGED <<created, configured, failures>>
  BY Zenon DEF CatchupPass!Pass
<1> DEFINE jobs == Elements(CatchupPass!Dispatches(overdue))
<1>2. jobs = CatchupPass!ToSet(CatchupPass!Dispatches(overdue)) BY DEF Elements, CatchupPass!ToSet
<1>3. late' = Among(overdue, CatchupPass!AllRows \ jobs)
  BY <1>1, <1>2, Zenon DEF CatchupPass!Among, Among
<1>4. CatchupPass!Enqueue(jobs) BY <1>1, <1>2
<1>5. scheduled' = scheduled \cup CatchupPass!New /\ UNCHANGED <<created, configured, failures>>
  BY <1>1
<1>6. /\ overdue \in Seq(CatchupPass!AllRows) /\ Distinct(overdue)
      /\ Elements(overdue) \subseteq Elements(late) \cup CatchupPass!New
  BY OverdueIs
<1>7. jobs \subseteq Elements(overdue) BY DispatchesAre
<1> HIDE DEF jobs
<1>8. /\ late' \in Seq(CatchupPass!AllRows) /\ Distinct(late')
      /\ Elements(late') = Elements(overdue) \cap (CatchupPass!AllRows \ jobs)
  BY <1>3, <1>6, AmongIs
<1>9. /\ enqueued' \in [CatchupPass!AllRows -> Nat]
      /\ \A r \in CatchupPass!AllRows :
            /\ enqueued'[r] <= 1 + failures
            /\ r \notin jobs => enqueued'[r] = enqueued[r]
  BY <1>4, <1>6, <1>7, Enqueues
<1>10. /\ created \subseteq Projects /\ scheduled \subseteq CatchupPass!AllRows
       /\ Elements(late) \subseteq scheduled /\ configured \in BOOLEAN
       /\ failures \in 0 .. MaxFailures /\ IsFiniteSet(created)
       /\ \A r \in CatchupPass!AllRows :
            r \notin scheduled \/ r \in Elements(late) => enqueued[r] <= failures
  BY CatchupTypes DEF CatchupInv
<1>11. CatchupPass!New \subseteq CatchupPass!AllRows /\ CatchupPass!New \cap scheduled = {}
  BY <1>10 DEF CatchupPass!New, CatchupPass!AllRows, CatchupPass!RowsOf
<1>12. enqueued' \in [CatchupPass!AllRows -> 0 .. MaxFailures + 1]
  BY <1>9, <1>10, CatchupNumbers
<1>13. CatchupPass!TypeOK'
  BY <1>5, <1>6, <1>8, <1>10, <1>11, <1>12, CatchupTypesNext
<1>14. ASSUME NEW r \in CatchupPass!AllRows, r \notin scheduled' \/ r \in Elements(late')
       PROVE  enqueued'[r] <= failures
  <2>1. r \notin scheduled \/ r \in Elements(late) BY <1>5, <1>6, <1>8, <1>11, <1>14
  <2>2. r \notin jobs BY <1>5, <1>6, <1>7, <1>8, <1>10, <1>14
  <2> QED BY <1>9, <1>10, <2>1, <2>2
<1> QED BY <1>5, <1>9, <1>10, <1>13, <1>14 DEF CatchupInv

LEMMA CatchupFails ==
    ASSUME CatchupInv, CatchupPass!PassFails
    PROVE  CatchupInv'
<1>1. /\ failures < MaxFailures /\ failures' = failures + 1
      /\ UNCHANGED <<created, scheduled, late, configured>>
  BY DEF CatchupPass!PassFails
<1>2. PICK overdue \in CatchupPass!Overdue :
         \E n \in 0 .. Len(CatchupPass!Dispatches(overdue)) :
            CatchupPass!Enqueue(CatchupPass!ToSet(CatchupPass!FirstOf(CatchupPass!Dispatches(overdue), n)))
  BY Zenon DEF CatchupPass!PassFails
<1> DEFINE s == CatchupPass!Dispatches(overdue)
<1>3. s \in Seq(CatchupPass!AllRows) /\ Elements(s) \subseteq Elements(overdue) BY DispatchesAre
<1>4. Elements(overdue) \subseteq Elements(late) \cup CatchupPass!New BY OverdueIs
<1>5. PICK n \in 0 .. Len(s) : CatchupPass!Enqueue(CatchupPass!ToSet(CatchupPass!FirstOf(s, n)))
  BY <1>2
<1> HIDE DEF s
<1>6. n \in Nat BY <1>3
<1> DEFINE jobs == Elements(CatchupPass!FirstOf(s, n))
<1>7. jobs \subseteq Elements(late) \cup CatchupPass!New BY <1>3, <1>4, <1>6, FirstOfIs
<1>8. CatchupPass!Enqueue(jobs) BY <1>5 DEF Elements, CatchupPass!ToSet
<1> HIDE DEF jobs
<1>9. /\ enqueued' \in [CatchupPass!AllRows -> Nat]
      /\ \A r \in CatchupPass!AllRows : enqueued'[r] <= 1 + failures
  BY <1>7, <1>8, Enqueues
<1>10. /\ created \subseteq Projects /\ scheduled \subseteq CatchupPass!AllRows
       /\ late \in Seq(CatchupPass!AllRows) /\ Distinct(late)
       /\ Elements(late) \subseteq scheduled /\ configured \in BOOLEAN
       /\ failures \in 0 .. MaxFailures /\ IsFiniteSet(created)
  BY CatchupTypes DEF CatchupInv
<1>11. failures' \in 0 .. MaxFailures /\ enqueued' \in [CatchupPass!AllRows -> 0 .. MaxFailures + 1]
  BY <1>1, <1>9, <1>10, CatchupNumbers
<1>12. CatchupPass!TypeOK' BY <1>1, <1>10, <1>11, CatchupTypesNext
<1>13. \A r \in CatchupPass!AllRows : enqueued'[r] <= failures' /\ enqueued'[r] <= 1 + failures'
  BY <1>1, <1>9, <1>10
<1> QED BY <1>1, <1>10, <1>12, <1>13 DEF CatchupInv

LEMMA CatchupFallsDue ==
    ASSUME CatchupInv, NEW r \in CatchupPass!AllRows, CatchupPass!FallDue(r)
    PROVE  CatchupInv'
<1>1. /\ r \in scheduled /\ r \notin Elements(late)
      /\ late' = Append(late, r) /\ enqueued' = [enqueued EXCEPT ![r] = 0]
      /\ UNCHANGED <<created, scheduled, configured, failures>>
  BY DEF CatchupPass!FallDue, CatchupPass!ToSet, Elements
<1>2. /\ created \subseteq Projects /\ scheduled \subseteq CatchupPass!AllRows
      /\ late \in Seq(CatchupPass!AllRows) /\ Distinct(late)
      /\ Elements(late) \subseteq scheduled /\ configured \in BOOLEAN
      /\ enqueued \in [CatchupPass!AllRows -> 0 .. MaxFailures + 1]
      /\ failures \in 0 .. MaxFailures /\ failures \in Nat /\ IsFiniteSet(created)
      /\ \A o \in CatchupPass!AllRows :
            /\ enqueued[o] <= 1 + failures
            /\ o \notin scheduled \/ o \in Elements(late) => enqueued[o] <= failures
  BY CatchupTypes, CatchupNumbers DEF CatchupInv
<1>3. /\ late' \in Seq(CatchupPass!AllRows) /\ Distinct(late')
      /\ Elements(late') = Elements(late) \cup {r}
  BY <1>1, <1>2, AppendDistinct
<1>4. /\ enqueued' \in [CatchupPass!AllRows -> 0 .. MaxFailures + 1]
      /\ enqueued'[r] = 0 /\ \A o \in CatchupPass!AllRows : o # r => enqueued'[o] = enqueued[o]
  BY <1>1, <1>2, CatchupNumbers
<1>5. CatchupPass!TypeOK' BY <1>1, <1>2, <1>3, <1>4, CatchupTypesNext
<1>6. \A o \in CatchupPass!AllRows :
         /\ enqueued'[o] <= 1 + failures
         /\ o \notin scheduled \/ o \in Elements(late') => enqueued'[o] <= failures
  BY <1>2, <1>3, <1>4
<1> QED BY <1>1, <1>2, <1>5, <1>6 DEF CatchupInv

LEMMA CatchupStep == CatchupInv /\ (CatchupPass!Next \/ UNCHANGED catchupVars) => CatchupInv'
<1> SUFFICES ASSUME CatchupInv, CatchupPass!Next \/ UNCHANGED catchupVars PROVE CatchupInv' OBVIOUS
<1>1. /\ created \subseteq Projects /\ scheduled \subseteq CatchupPass!AllRows
      /\ late \in Seq(CatchupPass!AllRows) /\ Distinct(late)
      /\ Elements(late) \subseteq scheduled /\ configured \in BOOLEAN
      /\ enqueued \in [CatchupPass!AllRows -> 0 .. MaxFailures + 1]
      /\ failures \in 0 .. MaxFailures /\ IsFiniteSet(created)
  BY CatchupTypes DEF CatchupInv
<1>2. ASSUME UNCHANGED <<scheduled, late, enqueued, failures>>, created' \subseteq Projects,
             IsFiniteSet(created'), configured' \in BOOLEAN
      PROVE  CatchupInv'
  <2>1. CatchupPass!TypeOK' BY <1>1, <1>2, CatchupTypesNext
  <2> QED BY <1>2, <2>1 DEF CatchupInv
<1>3. CASE UNCHANGED catchupVars BY <1>1, <1>2, <1>3 DEF catchupVars
<1>4. CASE CatchupPass!Configure BY <1>1, <1>2, <1>4 DEF CatchupPass!Configure
<1>5. ASSUME NEW p \in Projects, CatchupPass!CreateProject(p) PROVE CatchupInv'
  <2>1. created' = created \cup {p} /\ UNCHANGED <<scheduled, late, configured, enqueued, failures>>
    BY <1>5 DEF CatchupPass!CreateProject
  <2>2. IsFiniteSet(created') BY <1>1, <2>1, FS_AddElement
  <2> QED BY <1>1, <1>2, <2>1, <2>2
<1> QED BY <1>3, <1>4, <1>5, CatchupPasses, CatchupFails, CatchupFallsDue DEF CatchupPass!Next

\* A row is dispatched once each time it falls due, and once more for each
\* pass that failed before it could commit.
THEOREM RepeatsAreFailures == Spec => []RepeatsNeedFailure
<1>1. Init => CatchupInv BY CatchupInitially DEF Init
<1>2. CatchupInv /\ [Next]_vars => CatchupInv' BY StepOfEach, CatchupStep
<1>3. CatchupInv => RepeatsNeedFailure
  BY DEF CatchupInv, RepeatsNeedFailure, CatchupPass!RepeatsNeedFailure
<1> QED BY <1>1, <1>2, <1>3, PTL DEF Spec

-----------------------------------------------------------------------------
(* SearchCache.                                                             *)

\* s is how p begins; g is how p goes on after its first n elements.
Opens(s, p)      == Len(s) <= Len(p) /\ \A i \in 1 .. Len(s) : s[i] = p[i]
Follows(g, p, n) == n + Len(g) <= Len(p) /\ \A i \in 1 .. Len(g) : g[i] = p[n + i]

View    == [result : Nat \cup {None}, shown : Seq(Papers), mode : Cache!Modes]
Request == [pc : {"idle", "reveal", "widen", "fetch", "land"}, widen : BOOLEAN,
            result : Nat \cup {None}, offset : Nat, cached : Seq(Papers),
            got : Seq(Papers), hasMore : BOOLEAN]

SearchTyped ==
    /\ pool \in Seq(Seq(Papers)) /\ Len(pool) <= MaxResults
    /\ \A r \in DOMAIN pool : Distinct(pool[r])
    /\ tab \in [Tabs -> View] /\ more \in [Tabs -> Request]
    /\ load \in [Tabs -> (DOMAIN pool) \cup {None}]
    /\ search \in [Tabs -> (DOMAIN pool) \cup {0, None}]
    /\ mixed \subseteq Tabs /\ lost \subseteq Cache!Results
    /\ \A t \in Tabs : /\ tab[t].result \in (DOMAIN pool) \cup {None}
                       /\ more[t].result \in (DOMAIN pool) \cup {None}

\* A view shows its pool's rows and nothing else has been put among them.
Shows(t)  == tab[t].result # None /\ t \notin mixed /\ tab[t].result \notin lost
Asking(t) == more[t].pc # "idle"

\* What a view waits for is not what it shows, nor what it asks more of.
Awaits(t) ==
    /\ tab[t].result = None => tab[t].shown = <<>> /\ ~Asking(t)
    /\ load[t] # None => /\ tab[t].result # load[t] /\ search[t] # load[t]
                         /\ Asking(t) => more[t].result # load[t]
    /\ search[t] \in DOMAIN pool => /\ tab[t].result # search[t]
                                    /\ Asking(t) => more[t].result # search[t]

\* What a view shows begins its pool, and an answer to it goes on from there.
Continues(t) ==
    /\ Asking(t) => more[t].result # None
    /\ Shows(t) => Opens(tab[t].shown, pool[tab[t].result])
    /\ Shows(t) /\ Asking(t) /\ more[t].result = tab[t].result =>
          /\ more[t].offset = Len(tab[t].shown)
          /\ more[t].pc = "land" => Follows(more[t].got, pool[tab[t].result], more[t].offset)

SearchInv ==
    /\ SearchTyped
    /\ \A t \in Tabs : Distinct(more[t].cached) /\ Awaits(t) /\ Continues(t)

LEMMA SearchNumbers == PageSize \in Nat /\ MaxResults \in Nat /\ None \notin Nat
BY ServicesAssumption, DraftsAssumption

LEMMA SearchTypes ==
    ASSUME SearchTyped
    PROVE  Cache!TypeOK
<1>1. tab \in [Tabs -> View] /\ more \in [Tabs -> Request] BY DEF SearchTyped
<1>2. \A t \in Tabs : tab[t].mode \in Cache!Modes /\ tab[t].shown \in Seq(Papers)
  <2> DEFINE SP == Seq(Papers)
  <2> HIDE DEF SP
  <2>1. tab \in [Tabs -> [result : Nat \cup {None}, shown : SP, mode : Cache!Modes]]
    BY <1>1 DEF View, SP
  <2>2. \A t \in Tabs : tab[t].mode \in Cache!Modes /\ tab[t].shown \in SP BY <2>1
  <2> QED BY <2>2 DEF SP
<1>3. \A t \in Tabs : more[t].pc \in {"idle", "reveal", "widen", "fetch", "land"}
  <2> DEFINE SP == Seq(Papers)
  <2> HIDE DEF SP
  <2>1. more \in [Tabs -> [pc : {"idle", "reveal", "widen", "fetch", "land"}, widen : BOOLEAN,
            result : Nat \cup {None}, offset : Nat, cached : SP,
            got : SP, hasMore : BOOLEAN]]
    BY <1>1 DEF Request, SP
  <2> QED BY <2>1
<1>4. \A r \in DOMAIN pool : Cache!IsInjective(pool[r]) BY DEF SearchTyped, Distinct, Cache!IsInjective
<1>5. \A t \in Tabs : load[t] \in (DOMAIN pool) \cup {None} /\ search[t] \in (DOMAIN pool) \cup {0, None}
  BY DEF SearchTyped
<1> HIDE DEF View, Request
<1> QED BY <1>2, <1>3, <1>4, <1>5 DEF Cache!TypeOK, SearchTyped

\* Pages of sequences.
LEMMA PageIs ==
    ASSUME NEW p \in Seq(Papers), NEW n \in Nat
    PROVE  /\ Cache!Page(p, n) \in Seq(Papers)
           /\ n <= Len(p) => Follows(Cache!Page(p, n), p, n)
           /\ Opens(Cache!Page(p, 0), p)
<1> DEFINE upto(m) == IF Len(p) < m + PageSize THEN Len(p) ELSE m + PageSize
<1>1. Len(p) \in Nat /\ DOMAIN p = 1 .. Len(p) /\ \A i \in 1 .. Len(p) : p[i] \in Papers OBVIOUS
<1>2. \A m \in Nat : /\ upto(m) \in Nat /\ upto(m) <= Len(p)
                     /\ \A i \in m + 1 .. upto(m) : p[i] \in Papers
                     /\ m + 1 \in Int /\ upto(m) \in Int
  BY <1>1, SearchNumbers
<1>3. \A m \in Nat : Cache!Page(p, m) = SubSeq(p, m + 1, upto(m)) BY DEF Cache!Page
<1>4. ASSUME NEW m \in Nat
      PROVE  /\ Cache!Page(p, m) \in Seq(Papers)
             /\ Len(Cache!Page(p, m)) = IF m + 1 <= upto(m) THEN upto(m) - (m + 1) + 1 ELSE 0
             /\ \A i \in 1 .. upto(m) - (m + 1) + 1 : Cache!Page(p, m)[i] = p[m + 1 + i - 1]
  <2> DEFINE lo == m + 1
             hi == upto(m)
  <2>1. lo \in Int /\ hi \in Int /\ \A i \in lo .. hi : p[i] \in Papers BY <1>2
  <2>2. Cache!Page(p, m) = SubSeq(p, lo, hi) BY <1>3
  <2> HIDE DEF lo, hi
  <2>3. /\ SubSeq(p, lo, hi) \in Seq(Papers)
        /\ Len(SubSeq(p, lo, hi)) = IF lo <= hi THEN hi - lo + 1 ELSE 0
        /\ \A i \in 1 .. hi - lo + 1 : SubSeq(p, lo, hi)[i] = p[lo + i - 1]
    BY <2>1, SubSeqProperties
  <2> QED BY <2>2, <2>3 DEF lo, hi
<1>5. ASSUME NEW m \in Nat, m <= Len(p) PROVE Follows(Cache!Page(p, m), p, m)
  <2> DEFINE g == Cache!Page(p, m)
             hi == upto(m)
  <2>1. /\ Len(g) = IF m + 1 <= hi THEN hi - (m + 1) + 1 ELSE 0
        /\ \A i \in 1 .. hi - (m + 1) + 1 : g[i] = p[m + 1 + i - 1]
        /\ hi \in Nat /\ hi <= Len(p)
    BY <1>2, <1>4
  <2> HIDE DEF g, hi
  <2>2. m + Len(g) <= Len(p) BY <1>1, <1>5, <2>1
  <2>3. ASSUME NEW i \in 1 .. Len(g) PROVE g[i] = p[m + i]
    <3>1. i \in 1 .. hi - (m + 1) + 1 /\ m + 1 + i - 1 = m + i BY <1>1, <2>1
    <3> QED BY <2>1, <3>1
  <2> QED BY <2>2, <2>3 DEF Follows, g
<1>6. Opens(Cache!Page(p, 0), p)
  <2> DEFINE g == Cache!Page(p, 0)
  <2>1. Follows(g, p, 0) /\ g \in Seq(Papers) BY <1>1, <1>4, <1>5
  <2> HIDE DEF g
  <2>2. Len(g) \in Nat /\ 0 + Len(g) = Len(g) /\ \A i \in 1 .. Len(g) : 0 + i = i BY <2>1
  <2> QED BY <2>1, <2>2 DEF Follows, Opens, g
<1> QED BY <1>4, <1>5, <1>6

LEMMA OpensOnwards ==
    ASSUME NEW p \in Seq(Papers), NEW q \in Seq(Papers), Opens(p, q), NEW s \in Seq(Papers)
    PROVE  /\ Opens(s, p) => Opens(s, q)
           /\ \A n \in Nat : Follows(s, p, n) => Follows(s, q, n)
<1> DEFINE k == Len(s)
           l == Len(p)
           m == Len(q)
<1>1. k \in Nat /\ l \in Nat /\ m \in Nat OBVIOUS
<1> HIDE DEF k, l, m
<1>2. l <= m /\ \A i \in 1 .. l : p[i] = q[i] BY DEF Opens, l, m
<1>3. ASSUME Opens(s, p) PROVE Opens(s, q)
  <2>1. k <= l /\ \A i \in 1 .. k : s[i] = p[i] BY <1>3 DEF Opens, k, l
  <2>2. k <= m /\ \A i \in 1 .. k : i \in 1 .. l BY <1>1, <1>2, <2>1
  <2>3. k <= m /\ \A i \in 1 .. k : s[i] = q[i] BY <1>2, <2>1, <2>2
  <2> QED BY <2>3 DEF Opens, k, m
<1>4. ASSUME NEW n \in Nat, Follows(s, p, n) PROVE Follows(s, q, n)
  <2>1. n + k <= l /\ \A i \in 1 .. k : s[i] = p[n + i] BY <1>4 DEF Follows, k, l
  <2>2. n + k <= m /\ \A i \in 1 .. k : n + i \in 1 .. l BY <1>1, <1>2, <2>1
  <2>3. n + k <= m /\ \A i \in 1 .. k : s[i] = q[n + i] BY <1>2, <2>1, <2>2
  <2> QED BY <2>3 DEF Follows, k, m
<1> QED BY <1>3, <1>4

LEMMA OpensFurther ==
    ASSUME NEW p \in Seq(Papers), NEW s \in Seq(Papers), NEW g \in Seq(Papers),
           Opens(s, p), Follows(g, p, Len(s))
    PROVE  Opens(s \o g, p)
<1> DEFINE k == Len(s)
           l == Len(g)
           r == s \o g
<1>1. /\ k \in Nat /\ l \in Nat /\ r \in Seq(Papers) /\ Len(r) = k + l
      /\ \A i \in 1 .. k + l : r[i] = IF i <= k THEN s[i] ELSE g[i - k]
  BY ConcatProperties
<1>2. /\ \A i \in 1 .. k : s[i] = p[i]
      /\ k + l <= Len(p) /\ \A i \in 1 .. l : g[i] = p[k + i]
  BY DEF Opens, Follows
<1> HIDE DEF k, l, r
<1>3. ASSUME NEW i \in 1 .. k + l PROVE r[i] = p[i]
  <2>1. CASE i <= k
    <3>1. i \in 1 .. k BY <1>1, <2>1
    <3> QED BY <1>1, <1>2, <2>1, <3>1
  <2>2. CASE ~(i <= k)
    <3>1. i - k \in 1 .. l /\ k + (i - k) = i BY <1>1, <2>2
    <3> QED BY <1>1, <1>2, <2>2, <3>1
  <2> QED BY <2>1, <2>2
<1>4. Opens(r, p) BY <1>1, <1>2, <1>3 DEF Opens
<1> QED BY <1>4 DEF r

LEMMA OpensItself ==
    ASSUME NEW p \in Seq(Papers)
    PROVE  Opens(p, p) /\ Opens(<<>>, p)
BY DEF Opens

LEMMA OpensConcat ==
    ASSUME NEW p \in Seq(Papers), NEW x \in Seq(Papers)
    PROVE  p \o x \in Seq(Papers) /\ Opens(p, p \o x)
<1> DEFINE r == p \o x
           k == Len(p)
           l == Len(x)
<1>1. /\ k \in Nat /\ l \in Nat /\ r \in Seq(Papers) /\ Len(r) = k + l
      /\ \A i \in 1 .. k + l : r[i] = IF i <= k THEN p[i] ELSE x[i - k]
  BY ConcatProperties
<1> HIDE DEF r, l
<1>2. k <= k + l /\ \A i \in 1 .. k : i \in 1 .. k + l /\ i <= k BY <1>1
<1>3. Opens(p, r) BY <1>1, <1>2 DEF Opens
<1> QED BY <1>1, <1>3 DEF r

LEMMA OpensIsPrefix ==
    ASSUME NEW s \in Seq(Papers), NEW p \in Seq(Papers), Opens(s, p)
    PROVE  Cache!IsPrefix(s, p)
<1> DEFINE k == Len(s)
           a == SubSeq(s, 1, k)
           b == SubSeq(p, 1, k)
<1>1. /\ k \in Nat /\ k <= Len(p) /\ Len(p) \in Nat
      /\ \A i \in 1 .. k : s[i] = p[i] /\ s[i] \in Papers
  BY DEF Opens
<1> HIDE DEF k
<1>2. 1 \in Int /\ k \in Int /\ \A i \in 1 .. k : s[i] \in Papers /\ p[i] \in Papers BY <1>1
<1>3. /\ a \in Seq(Papers) /\ Len(a) = IF 1 <= k THEN k - 1 + 1 ELSE 0
      /\ \A i \in 1 .. k - 1 + 1 : a[i] = s[1 + i - 1]
  BY <1>2, SubSeqProperties
<1>4. /\ b \in Seq(Papers) /\ Len(b) = IF 1 <= k THEN k - 1 + 1 ELSE 0
      /\ \A i \in 1 .. k - 1 + 1 : b[i] = p[1 + i - 1]
  BY <1>2, SubSeqProperties
<1> HIDE DEF a, b
<1>5. k - 1 + 1 = k /\ (IF 1 <= k THEN k - 1 + 1 ELSE 0) = k /\ \A i \in 1 .. k : 1 + i - 1 = i BY <1>1
<1>6. Len(a) = k /\ Len(b) = k /\ \A i \in 1 .. k : a[i] = b[i] BY <1>1, <1>3, <1>4, <1>5
<1>7. a = b
  <2>1. Len(a) = Len(b) /\ \A i \in 1 .. Len(a) : a[i] = b[i] BY <1>6
  <2> QED BY <1>3, <1>4, <2>1, SeqEqual
<1> QED BY <1>1, <1>7 DEF Cache!IsPrefix, a, b, k

\* A ranking, and what a widen makes of it.
LEMMA RankedIs ==
    ASSUME NEW ranked \in Cache!Lists
    PROVE  ranked \in Seq(Papers) /\ Distinct(ranked)
<1>1. PICK n \in 0 .. Cache!Cardinality(Papers) : ranked \in [1 .. n -> Papers] BY DEF Cache!Lists
<1>2. n \in Nat BY <1>1
<1>3. Distinct(ranked) BY DEF Cache!Lists, Cache!IsInjective, Distinct
<1> QED BY <1>1, <1>2, <1>3

LEMMA MergedIs ==
    ASSUME NEW cached \in Seq(Papers), Distinct(cached), NEW ranked \in Cache!Lists
    PROVE  /\ Cache!Merged(cached, ranked) \in Seq(Papers)
           /\ Distinct(Cache!Merged(cached, ranked))
           /\ Opens(cached, Cache!Merged(cached, ranked))
<1> DEFINE R == Papers \ Cache!ToSet(cached)
           x == Among(ranked, R)
<1>1. ranked \in Seq(Papers) /\ Distinct(ranked) BY RankedIs
<1>2. Cache!Merged(cached, ranked) = cached \o x
  <2>1. Cache!Among(ranked, R) = x BY Zenon DEF Cache!Among, Among
  <2> HIDE DEF x
  <2> QED BY <2>1 DEF Cache!Merged
<1>3. Cache!ToSet(cached) = Elements(cached) BY DEF Cache!ToSet, Elements
<1>4. R \cap Elements(cached) = {} BY <1>3
<1> HIDE DEF R
<1>5. x \in Seq(Papers) /\ Elements(x) = Elements(ranked) \cap R /\ Distinct(x)
  BY <1>1, AmongIs
<1> HIDE DEF x
<1>6. Elements(cached) \cap Elements(x) = {} BY <1>4, <1>5
<1>7. cached \o x \in Seq(Papers) /\ Distinct(cached \o x) BY <1>5, <1>6, ConcatDistinct
<1>8. Opens(cached, cached \o x) BY <1>5, OpensConcat
<1> QED BY <1>2, <1>7, <1>8

\* What holds of a pool.
LEMMA PoolIs ==
    ASSUME SearchTyped
    PROVE  /\ Len(pool) \in Nat /\ DOMAIN pool = 1 .. Len(pool)
           /\ 0 \notin DOMAIN pool /\ None \notin DOMAIN pool
           /\ \A r \in DOMAIN pool : pool[r] \in Seq(Papers) /\ Distinct(pool[r]) /\ r # None /\ r # 0
<1> DEFINE SP == Seq(Papers)
<1>1. pool \in Seq(SP) /\ \A r \in DOMAIN pool : Distinct(pool[r]) BY DEF SearchTyped
<1> HIDE DEF SP
<1>2. /\ Len(pool) \in Nat /\ DOMAIN pool = 1 .. Len(pool)
      /\ \A r \in DOMAIN pool : pool[r] \in SP
  BY <1>1
<1>3. 0 \notin DOMAIN pool /\ None \notin DOMAIN pool BY <1>2, SearchNumbers
<1> QED BY <1>1, <1>2, <1>3 DEF SP

LEMMA PoolIsNext ==
    ASSUME SearchTyped'
    PROVE  /\ Len(pool') \in Nat /\ DOMAIN pool' = 1 .. Len(pool')
           /\ 0 \notin DOMAIN pool' /\ None \notin DOMAIN pool'
           /\ \A r \in DOMAIN pool' : pool'[r] \in Seq(Papers)
<1> DEFINE SP == Seq(Papers)
<1>1. pool' \in Seq(SP) BY DEF SearchTyped
<1> HIDE DEF SP
<1>2. /\ Len(pool') \in Nat /\ DOMAIN pool' = 1 .. Len(pool')
      /\ \A r \in DOMAIN pool' : pool'[r] \in SP
  BY <1>1
<1>3. 0 \notin DOMAIN pool' /\ None \notin DOMAIN pool' BY <1>2, SearchNumbers
<1> QED BY <1>2, <1>3 DEF SP

LEMMA ViewIs ==
    ASSUME SearchTyped, NEW t \in Tabs
    PROVE  /\ tab[t] \in View /\ tab[t].shown \in Seq(Papers)
           /\ tab[t].result \in (DOMAIN pool) \cup {None} /\ tab[t].mode \in Cache!Modes
           /\ more[t] \in Request /\ more[t].result \in (DOMAIN pool) \cup {None}
           /\ more[t].offset \in Nat /\ more[t].cached \in Seq(Papers) /\ more[t].got \in Seq(Papers)
           /\ load[t] \in (DOMAIN pool) \cup {None} /\ search[t] \in (DOMAIN pool) \cup {0, None}
<1> DEFINE SP == Seq(Papers)
<1>1. tab[t] \in View /\ more[t] \in Request BY DEF SearchTyped
<1> HIDE DEF SP
<1>2. tab[t] \in [result : Nat \cup {None}, shown : SP, mode : Cache!Modes] BY <1>1 DEF View, SP
<1>3. more[t] \in [pc : {"idle", "reveal", "widen", "fetch", "land"}, widen : BOOLEAN,
            result : Nat \cup {None}, offset : Nat, cached : SP,
            got : SP, hasMore : BOOLEAN]
  BY <1>1 DEF Request, SP
<1>4. tab[t].shown \in SP /\ tab[t].mode \in Cache!Modes BY <1>2
<1>5. more[t].offset \in Nat /\ more[t].cached \in SP /\ more[t].got \in SP BY <1>3
<1> QED BY <1>1, <1>4, <1>5 DEF SP, SearchTyped

LEMMA SearchInitially == Cache!Init => SearchInv
<1> SUFFICES ASSUME Cache!Init PROVE SearchInv OBVIOUS
<1>1. /\ pool = <<>> /\ tab = [t \in Tabs |-> Cache!Empty] /\ load = [t \in Tabs |-> None]
      /\ search = [t \in Tabs |-> None] /\ more = [t \in Tabs |-> Cache!Idle]
      /\ mixed = {} /\ lost = {}
  BY DEF Cache!Init
<1>2. DOMAIN pool = {} /\ Len(pool) = 0 /\ pool \in Seq(Seq(Papers)) BY <1>1
<1> DEFINE SP == Seq(Papers)
           nil == <<>>
<1>3. nil \in SP /\ Distinct(nil) BY DEF Distinct
<1> HIDE DEF SP, nil
<1>4. Cache!Empty \in [result : Nat \cup {None}, shown : SP, mode : Cache!Modes]
      /\ Cache!Empty.result = None /\ Cache!Empty.shown = nil
  BY <1>3 DEF Cache!Empty, Cache!Modes, nil
<1>5. Cache!Idle \in [pc : {"idle", "reveal", "widen", "fetch", "land"}, widen : BOOLEAN,
            result : Nat \cup {None}, offset : Nat, cached : SP, got : SP, hasMore : BOOLEAN]
      /\ Cache!Idle.result = None /\ Cache!Idle.pc = "idle" /\ Cache!Idle.cached = nil
  BY <1>3 DEF Cache!Idle, nil
<1>6. tab \in [Tabs -> View] /\ more \in [Tabs -> Request]
  BY <1>1, <1>4, <1>5 DEF View, Request, SP
<1>7. \A t \in Tabs : /\ tab[t].result = None /\ tab[t].shown = nil /\ more[t].result = None
                      /\ more[t].pc = "idle" /\ more[t].cached = nil
                      /\ load[t] = None /\ search[t] = None
  BY <1>1, <1>4, <1>5
<1> HIDE DEF View, Request
<1>8. SearchTyped BY <1>1, <1>2, <1>6, <1>7, SearchNumbers DEF SearchTyped
<1>9. \A t \in Tabs : Distinct(more[t].cached) /\ Awaits(t) /\ Continues(t)
  BY <1>2, <1>3, <1>7, PoolIs, <1>8 DEF Awaits, Continues, Shows, Asking, nil
<1> QED BY <1>8, <1>9 DEF SearchInv

\* A view nothing happens to but that its pool grows, or others do.
LEMMA ViewKept ==
    ASSUME SearchInv, SearchTyped', NEW t \in Tabs,
           tab'[t] = tab[t], load'[t] = load[t], search'[t] = search[t], more'[t] = more[t],
           DOMAIN pool \subseteq DOMAIN pool',
           Shows(t)' => Shows(t) /\ Opens(pool[tab[t].result], pool'[tab[t].result])
    PROVE  Distinct(more'[t].cached) /\ Awaits(t)' /\ Continues(t)'
<1>1. SearchTyped /\ Distinct(more[t].cached) /\ Awaits(t) /\ Continues(t) BY DEF SearchInv
<1>2. /\ search[t] \in (DOMAIN pool) \cup {0, None} /\ tab[t].result \in (DOMAIN pool) \cup {None}
      /\ more[t].offset \in Nat /\ more[t].got \in Seq(Papers) /\ tab[t].shown \in Seq(Papers)
  BY <1>1, ViewIs
<1>3. 0 \notin DOMAIN pool' /\ None \notin DOMAIN pool'
      /\ \A r \in DOMAIN pool' : pool'[r] \in Seq(Papers)
  BY PoolIsNext
<1>4. Awaits(t)' BY <1>1, <1>2, <1>3 DEF Awaits, Asking
<1>5. Continues(t)'
  <2>1. Asking(t)' => more'[t].result # None BY <1>1 DEF Continues, Asking
  <2>2. SUFFICES ASSUME Shows(t)'
        PROVE  /\ Opens(tab[t].shown, pool'[tab[t].result])
               /\ Asking(t)' /\ more[t].result = tab[t].result =>
                     /\ more[t].offset = Len(tab[t].shown)
                     /\ more[t].pc = "land" => Follows(more[t].got, pool'[tab[t].result], more[t].offset)
    BY <2>1 DEF Continues
  <2> DEFINE p == pool[tab[t].result]
             q == pool'[tab[t].result]
  <2>3. Shows(t) /\ Opens(p, q) BY <2>2
  <2>4. p \in Seq(Papers) /\ q \in Seq(Papers) BY <1>1, <1>2, <1>3, <2>3, PoolIs DEF Shows
  <2>5. /\ Opens(tab[t].shown, p)
        /\ Asking(t) /\ more[t].result = tab[t].result =>
              /\ more[t].offset = Len(tab[t].shown)
              /\ more[t].pc = "land" => Follows(more[t].got, p, more[t].offset)
    BY <1>1, <2>3 DEF Continues
  <2> HIDE DEF p, q
  <2>6. Opens(tab[t].shown, q) BY <1>2, <2>3, <2>4, <2>5, OpensOnwards
  <2>7. Follows(more[t].got, p, more[t].offset) => Follows(more[t].got, q, more[t].offset)
    BY <1>2, <2>3, <2>4, OpensOnwards
  <2>8. Asking(t)' <=> Asking(t) BY DEF Asking
  <2> QED BY <2>5, <2>6, <2>7, <2>8 DEF q
<1> QED BY <1>1, <1>4, <1>5

\* A step of one view that leaves the pools alone.
LEMMA OneView ==
    ASSUME SearchInv, SearchTyped', NEW t \in Tabs, pool' = pool, lost' = lost,
           mixed' \cup {t} = mixed \cup {t},
           \A o \in Tabs \ {t} : /\ tab'[o] = tab[o] /\ load'[o] = load[o]
                                 /\ search'[o] = search[o] /\ more'[o] = more[o],
           Distinct(more'[t].cached), Awaits(t)', Continues(t)'
    PROVE  SearchInv'
<1>1. ASSUME NEW o \in Tabs \ {t}
      PROVE  Distinct(more'[o].cached) /\ Awaits(o)' /\ Continues(o)'
  <2>1. Shows(o)' => Shows(o) BY DEF Shows
  <2>2. Shows(o) => Opens(pool[tab[o].result], pool'[tab[o].result])
    <3>1. Shows(o) => pool[tab[o].result] \in Seq(Papers)
      BY PoolIs, ViewIs DEF SearchInv, Shows
    <3> QED BY <3>1, OpensItself
  <2> QED BY <2>1, <2>2, ViewKept
<1> QED BY <1>1 DEF SearchInv

\* What the view asks for is not what it was opened on.
LEMMA SearchSearches ==
    ASSUME SearchInv, NEW t \in Tabs, NEW v \in {0, None},
           search' = [search EXCEPT ![t] = v], UNCHANGED <<pool, tab, load, more, mixed, lost>>
    PROVE  SearchInv'
<1>1. SearchTyped /\ Distinct(more[t].cached) /\ Awaits(t) /\ Continues(t) BY DEF SearchInv
<1>2. SearchTyped' BY <1>1 DEF SearchTyped
<1>3. /\ search'[t] = v /\ v \notin DOMAIN pool /\ load[t] \in (DOMAIN pool) \cup {None}
      /\ \A o \in Tabs \ {t} : search'[o] = search[o]
  BY <1>1, PoolIs DEF SearchTyped
<1>4. Awaits(t)' BY <1>1, <1>3 DEF Awaits, Asking
<1>5. Continues(t)' BY <1>1 DEF Continues, Shows, Asking
<1> QED BY <1>1, <1>2, <1>3, <1>4, <1>5, OneView

LEMMA SearchOpens ==
    ASSUME SearchInv, NEW t \in Tabs, NEW r \in DOMAIN pool, Cache!Open(t, r)
    PROVE  SearchInv'
<1>1. SearchTyped /\ Distinct(more[t].cached) /\ Awaits(t) /\ Continues(t) BY DEF SearchInv
<1>2. /\ tab[t] = Cache!Empty /\ search[t] = None /\ load' = [load EXCEPT ![t] = r]
      /\ UNCHANGED <<pool, tab, search, more, mixed, lost>>
  BY DEF Cache!Open
<1>3. SearchTyped' BY <1>1, <1>2 DEF SearchTyped
<1>4. load'[t] = r /\ r # None /\ tab[t].result = None /\ ~Asking(t) /\ None \notin DOMAIN pool
      /\ \A o \in Tabs \ {t} : load'[o] = load[o]
  BY <1>1, <1>2, PoolIs DEF SearchTyped, Cache!Empty, Awaits
<1>5. Awaits(t)' BY <1>1, <1>2, <1>4 DEF Awaits, Asking
<1>6. Continues(t)' BY <1>1, <1>2 DEF Continues, Shows, Asking
<1> QED BY <1>1, <1>2, <1>3, <1>4, <1>5, <1>6, OneView

\* A fresh result set comes to the view it was minted for.
LEMMA ResultLands ==
    ASSUME SearchInv, NEW t \in Tabs, NEW r \in DOMAIN pool, Cache!applyFreshResult(t, r),
           UNCHANGED <<pool, more, lost>>,
           load' \in [Tabs -> (DOMAIN pool) \cup {None}],
           search' \in [Tabs -> (DOMAIN pool) \cup {0, None}],
           \A o \in Tabs \ {t} : load'[o] = load[o] /\ search'[o] = search[o],
           load'[t] # None => load'[t] # r /\ load'[t] = load[t],
           search'[t] \in DOMAIN pool => search'[t] # r /\ search'[t] = search[t],
           load'[t] # None => search'[t] # load'[t],
           Asking(t) => more[t].result # r
    PROVE  SearchInv'
<1>1. SearchTyped /\ Distinct(more[t].cached) /\ Awaits(t) /\ Continues(t) BY DEF SearchInv
<1> DEFINE SP == Seq(Papers)
           page == Cache!Page(pool[r], 0)
           mode == Cache!NextMode(Cache!HasMore(pool[r], 0))
           v == [result |-> r, shown |-> page, mode |-> mode]
<1>2. pool[r] \in SP /\ r \in Nat /\ r # None BY <1>1, PoolIs
<1>3. page \in SP /\ Opens(page, pool[r]) BY <1>2, PageIs
<1>4. mode \in Cache!Modes BY DEF Cache!NextMode, Cache!Modes
<1>5. tab' = [tab EXCEPT ![t] = v] /\ mixed' = mixed \ {t} BY DEF Cache!applyFreshResult
<1> HIDE DEF page, mode, SP
<1>6. v \in [result : Nat \cup {None}, shown : SP, mode : Cache!Modes] BY <1>2, <1>3, <1>4
<1>7. v \in View /\ v.result = r /\ v.shown = page BY <1>6 DEF View, SP
<1> HIDE DEF v
<1>8. /\ tab' \in [Tabs -> View] /\ tab'[t] = v
      /\ \A o \in Tabs \ {t} : tab'[o] = tab[o]
  BY <1>1, <1>5, <1>7 DEF SearchTyped
<1>9. SearchTyped'
  <2>1. \A o \in Tabs : /\ tab'[o].result \in (DOMAIN pool) \cup {None}
                        /\ more[o].result \in (DOMAIN pool) \cup {None}
    BY <1>1, <1>7, <1>8 DEF SearchTyped
  <2>2. mixed' \subseteq Tabs BY <1>1, <1>5 DEF SearchTyped
  <2> HIDE DEF View, Request
  <2> QED BY <1>1, <1>8, <2>1, <2>2 DEF SearchTyped
<1>10. Awaits(t)' BY <1>1, <1>2, <1>7, <1>8 DEF Awaits, Asking
<1>11. Continues(t)' BY <1>1, <1>3, <1>7, <1>8 DEF Continues, Shows, Asking
<1>12. mixed' \cup {t} = mixed \cup {t} BY <1>5
<1> QED BY <1>1, <1>8, <1>9, <1>10, <1>11, <1>12, OneView

LEMMA SearchResultLands ==
    ASSUME SearchInv, NEW t \in Tabs, Cache!SearchLands(t) \/ Cache!LoadLands(t)
    PROVE  SearchInv'
<1>1. SearchTyped /\ Awaits(t) BY DEF SearchInv
<1>2. /\ load[t] \in (DOMAIN pool) \cup {None} /\ search[t] \in (DOMAIN pool) \cup {0, None}
      /\ load \in [Tabs -> (DOMAIN pool) \cup {None}]
      /\ search \in [Tabs -> (DOMAIN pool) \cup {0, None}]
  BY <1>1 DEF SearchTyped
<1>3. CASE Cache!SearchLands(t)
  <2>1. /\ search[t] \in DOMAIN pool /\ Cache!applyFreshResult(t, search[t])
        /\ search' = [search EXCEPT ![t] = None] /\ UNCHANGED <<pool, load, more, lost>>
    BY <1>3 DEF Cache!SearchLands
  <2>2. /\ search' \in [Tabs -> (DOMAIN pool) \cup {0, None}] /\ search'[t] = None
        /\ \A o \in Tabs \ {t} : search'[o] = search[o]
    BY <1>2, <2>1
  <2>3. None \notin DOMAIN pool BY <1>1, PoolIs
  <2>4. load[t] # None => load[t] # search[t] BY <1>1 DEF Awaits
  <2>5. Asking(t) => more[t].result # search[t] BY <1>1, <2>1 DEF Awaits
  <2> DEFINE r == search[t]
  <2>6. r \in DOMAIN pool /\ Cache!applyFreshResult(t, r) BY <2>1
  <2>7. load[t] # None => load[t] # r BY <2>4
  <2>8. Asking(t) => more[t].result # r BY <2>5
  <2>9. load[t] # None => search'[t] # load[t] BY <2>2
  <2> HIDE DEF r
  <2> QED BY <1>2, <2>1, <2>2, <2>3, <2>6, <2>7, <2>8, <2>9, ResultLands
<1>4. CASE Cache!LoadLands(t)
  <2> DEFINE r == load[t]
  <2>1. /\ r # None /\ Cache!applyFreshResult(t, r)
        /\ load' = [load EXCEPT ![t] = None] /\ UNCHANGED <<pool, search, more, lost>>
    BY <1>4 DEF Cache!LoadLands
  <2>2. r \in DOMAIN pool BY <1>2, <2>1
  <2>3. search[t] # r /\ (Asking(t) => more[t].result # r) BY <1>1, <2>1 DEF Awaits
  <2>4. /\ load' \in [Tabs -> (DOMAIN pool) \cup {None}] /\ load'[t] = None
        /\ \A o \in Tabs \ {t} : load'[o] = load[o]
    BY <1>2, <2>1
  <2> HIDE DEF r
  <2> QED BY <1>2, <2>1, <2>2, <2>3, <2>4, ResultLands
<1> QED BY <1>3, <1>4

\* A request moves on: to more of what the view shows, or as it was asked.
LEMMA RequestMoves ==
    ASSUME SearchInv, NEW t \in Tabs, more' \in [Tabs -> Request],
           \A o \in Tabs \ {t} : more'[o] = more[o],
           UNCHANGED <<pool, tab, load, search, mixed, lost>>,
           more'[t].result \in (DOMAIN pool) \cup {None}, Distinct(more'[t].cached),
           more'[t].pc # "idle" =>
               /\ more'[t].result # None
               /\ \/ more'[t].result = tab[t].result
                  \/ Asking(t) /\ more'[t].result = more[t].result,
           Shows(t) /\ more'[t].pc # "idle" /\ more'[t].result = tab[t].result =>
               /\ more'[t].offset = Len(tab[t].shown)
               /\ more'[t].pc = "land" => Follows(more'[t].got, pool[tab[t].result], more'[t].offset)
    PROVE  SearchInv'
<1>1. SearchTyped /\ Awaits(t) /\ Continues(t) BY DEF SearchInv
<1>2. SearchTyped'
  <2>1. \A o \in Tabs : more'[o].result \in (DOMAIN pool) \cup {None} BY <1>1 DEF SearchTyped
  <2> HIDE DEF View, Request
  <2> QED BY <1>1, <2>1 DEF SearchTyped
<1>3. Awaits(t)' BY <1>1 DEF Awaits, Asking
<1>4. Continues(t)' BY <1>1 DEF Continues, Shows, Asking
<1> QED BY <1>1, <1>2, <1>3, <1>4, OneView

LEMMA IdleIs ==
    /\ Cache!Idle \in Request /\ Cache!Idle.pc = "idle" /\ Cache!Idle.result = None
    /\ Distinct(Cache!Idle.cached)
<1> DEFINE SP == Seq(Papers)
           nil == <<>>
<1>1. nil \in SP /\ Distinct(nil) BY DEF Distinct
<1>2. Cache!Idle = [pc |-> "idle", widen |-> FALSE, result |-> None, offset |-> 0,
                    cached |-> nil, got |-> nil, hasMore |-> FALSE]
  BY DEF Cache!Idle
<1> HIDE DEF SP, nil
<1>3. /\ Cache!Idle \in [pc : {"idle", "reveal", "widen", "fetch", "land"}, widen : BOOLEAN,
            result : Nat \cup {None}, offset : Nat, cached : SP, got : SP, hasMore : BOOLEAN]
      /\ Cache!Idle.pc = "idle" /\ Cache!Idle.result = None /\ Cache!Idle.cached = nil
  BY <1>1, <1>2
<1> QED BY <1>1, <1>3 DEF Request, SP

LEMMA AsksForMore ==
    ASSUME SearchInv, NEW t \in Tabs, Cache!handleSearchMore(t)
    PROVE  SearchInv'
<1>1. SearchTyped /\ Awaits(t) /\ Continues(t) BY DEF SearchInv
<1> DEFINE SP == Seq(Papers)
           n == Len(tab[t].shown)
           i == Cache!Idle
           m == [i EXCEPT !.pc = tab[t].mode, !.result = tab[t].result,
                          !.widen = (tab[t].mode = "widen"), !.offset = n]
<1>2. /\ tab[t].shown # <<>> /\ tab[t].mode # "exhausted"
      /\ UNCHANGED <<pool, tab, load, search, mixed, lost>>
  BY DEF Cache!handleSearchMore
<1>3. more' = [more EXCEPT ![t] = m] BY DEF Cache!handleSearchMore
<1>4. /\ tab[t].result \in (DOMAIN pool) \cup {None} /\ tab[t].mode \in {"reveal", "widen"}
      /\ n \in Nat
  BY <1>1, <1>2, ViewIs DEF Cache!Modes
<1>5. tab[t].result # None BY <1>1, <1>2 DEF Awaits
<1>6. tab[t].result \in Nat BY <1>1, <1>4, <1>5, PoolIs
<1>7. i \in Request /\ Distinct(i.cached) BY IdleIs
<1> HIDE DEF SP, n, i
<1>8. /\ m \in Request /\ m.result = tab[t].result /\ m.pc = tab[t].mode /\ m.offset = n
      /\ Distinct(m.cached)
  <2>1. i \in [pc : {"idle", "reveal", "widen", "fetch", "land"}, widen : BOOLEAN,
               result : Nat \cup {None}, offset : Nat, cached : SP, got : SP, hasMore : BOOLEAN]
    BY <1>7 DEF Request, SP
  <2>2. /\ m \in [pc : {"idle", "reveal", "widen", "fetch", "land"}, widen : BOOLEAN,
                  result : Nat \cup {None}, offset : Nat, cached : SP, got : SP, hasMore : BOOLEAN]
        /\ m.result = tab[t].result /\ m.pc = tab[t].mode /\ m.offset = n /\ m.cached = i.cached
    BY <1>4, <1>6, <2>1
  <2> QED BY <1>7, <2>2 DEF Request, SP
<1> HIDE DEF m
<1>9. /\ more' \in [Tabs -> Request] /\ more'[t] = m
      /\ \A o \in Tabs \ {t} : more'[o] = more[o]
  BY <1>1, <1>3, <1>8 DEF SearchTyped
<1>10. m.pc # "land" BY <1>4, <1>8
<1>11. more'[t].result \in (DOMAIN pool) \cup {None} /\ Distinct(more'[t].cached)
  BY <1>4, <1>8, <1>9
<1>12. more'[t].result # None /\ more'[t].result = tab[t].result BY <1>5, <1>8, <1>9
<1>13. more'[t].offset = Len(tab[t].shown) /\ more'[t].pc # "land" BY <1>8, <1>9, <1>10 DEF n
<1> QED BY <1>2, <1>9, <1>11, <1>12, <1>13, RequestMoves

\* The request while it is answered.
LEMMA AnswerIs ==
    ASSUME SearchTyped, NEW t \in Tabs, NEW p \in Seq(Papers), Cache!Answer(t, p)
    PROVE  /\ more' \in [Tabs -> Request] /\ \A o \in Tabs \ {t} : more'[o] = more[o]
           /\ more'[t].pc = "land" /\ more'[t].result = more[t].result
           /\ more'[t].offset = more[t].offset /\ more'[t].got = Cache!Page(p, more[t].offset)
           /\ more'[t].cached = <<>> /\ Distinct(more'[t].cached)
<1> DEFINE SP == Seq(Papers)
           nil == <<>>
           got == Cache!Page(p, more[t].offset)
           on == Cache!HasMore(p, more[t].offset)
           R == [pc : {"idle", "reveal", "widen", "fetch", "land"}, widen : BOOLEAN,
                 result : Nat \cup {None}, offset : Nat, cached : SP, got : SP, hasMore : BOOLEAN]
<1>1. more[t].offset \in Nat BY ViewIs
<1>2. got \in SP /\ nil \in SP /\ Distinct(nil) /\ on \in BOOLEAN
  <2>1. got \in SP BY <1>1, PageIs
  <2>2. nil \in SP /\ Distinct(nil) BY DEF Distinct
  <2>3. on \in BOOLEAN BY DEF Cache!HasMore
  <2> QED BY <2>1, <2>2, <2>3
<1>3. more' = [more EXCEPT ![t].pc = "land", ![t].cached = nil, ![t].got = got, ![t].hasMore = on]
  BY DEF Cache!Answer
<1>4. more \in [Tabs -> R] BY DEF SearchTyped, Request
<1> HIDE DEF SP, nil, got, on
<1>5. /\ more' \in [Tabs -> R] /\ \A o \in Tabs \ {t} : more'[o] = more[o]
      /\ more'[t].pc = "land" /\ more'[t].result = more[t].result
      /\ more'[t].offset = more[t].offset /\ more'[t].got = got /\ more'[t].cached = nil
  <2> DEFINE m == [more[t] EXCEPT !.pc = "land", !.cached = nil, !.got = got, !.hasMore = on]
  <2>1. more[t] \in R BY <1>4
  <2>2. /\ m \in R /\ m.pc = "land" /\ m.result = more[t].result /\ m.offset = more[t].offset
        /\ m.got = got /\ m.cached = nil
    BY <1>2, <2>1
  <2> HIDE DEF R
  <2>3. more' = [more EXCEPT ![t] = m] BY <1>3, <1>4
  <2> HIDE DEF m
  <2> QED BY <1>4, <2>2, <2>3
<1>6. R = Request BY DEF SP, Request
<1> HIDE DEF R
<1> QED BY <1>2, <1>5, <1>6 DEF nil, got

LEMMA Reveals ==
    ASSUME SearchInv, NEW t \in Tabs, Cache!Reveal(t)
    PROVE  SearchInv'
<1>1. SearchTyped /\ Awaits(t) /\ Continues(t) BY DEF SearchInv
<1> DEFINE r == more[t].result
           p == pool[r]
<1>2. /\ more[t].pc = "reveal" /\ Cache!Answer(t, p)
      /\ UNCHANGED <<pool, tab, load, search, mixed, lost>>
  BY DEF Cache!Reveal
<1>3. Asking(t) /\ r # None BY <1>1, <1>2 DEF Asking, Continues
<1>4. r \in DOMAIN pool /\ p \in Seq(Papers) BY <1>1, <1>3, ViewIs, PoolIs
<1> HIDE DEF p
<1>5. /\ more' \in [Tabs -> Request] /\ \A o \in Tabs \ {t} : more'[o] = more[o]
      /\ more'[t].pc = "land" /\ more'[t].result = r
      /\ more'[t].offset = more[t].offset /\ more'[t].got = Cache!Page(p, more[t].offset)
      /\ Distinct(more'[t].cached)
  BY <1>1, <1>2, <1>4, AnswerIs
<1>6. ASSUME Shows(t), r = tab[t].result
      PROVE  more[t].offset = Len(tab[t].shown) /\ Follows(more'[t].got, p, more[t].offset)
  <2>1. more[t].offset = Len(tab[t].shown) /\ Opens(tab[t].shown, p)
    BY <1>1, <1>3, <1>6 DEF Continues, p
  <2>2. more[t].offset \in Nat /\ more[t].offset <= Len(p) BY <1>1, <2>1, ViewIs DEF Opens
  <2> QED BY <1>4, <1>5, <2>1, <2>2, PageIs
<1>7. Shows(t) /\ more'[t].result = tab[t].result =>
          /\ more'[t].offset = Len(tab[t].shown)
          /\ Follows(more'[t].got, pool[tab[t].result], more'[t].offset)
  BY <1>5, <1>6 DEF p
<1> QED BY <1>2, <1>3, <1>4, <1>5, <1>7, RequestMoves

LEMMA ReadsPool ==
    ASSUME SearchInv, NEW t \in Tabs, Cache!WidenRead(t)
    PROVE  SearchInv'
<1>1. SearchTyped /\ Awaits(t) /\ Continues(t) BY DEF SearchInv
<1> DEFINE SP == Seq(Papers)
           r == more[t].result
           p == pool[r]
           R == [pc : {"idle", "reveal", "widen", "fetch", "land"}, widen : BOOLEAN,
                 result : Nat \cup {None}, offset : Nat, cached : SP, got : SP, hasMore : BOOLEAN]
<1>2. /\ more[t].pc = "widen" /\ more' = [more EXCEPT ![t].pc = "fetch", ![t].cached = p]
      /\ UNCHANGED <<pool, tab, load, search, mixed, lost>>
  BY DEF Cache!WidenRead
<1>3. Asking(t) /\ r # None BY <1>1, <1>2 DEF Asking, Continues
<1>4. r \in DOMAIN pool /\ p \in SP /\ Distinct(p) BY <1>1, <1>3, ViewIs, PoolIs
<1>5. more \in [Tabs -> R] BY <1>1 DEF SearchTyped, Request
<1> HIDE DEF SP, p, r
<1>6. /\ more' \in [Tabs -> R] /\ \A o \in Tabs \ {t} : more'[o] = more[o]
      /\ more'[t].pc = "fetch" /\ more'[t].result = r
      /\ more'[t].offset = more[t].offset /\ more'[t].cached = p
  BY <1>2, <1>4, <1>5 DEF r
<1>7. more' \in [Tabs -> Request] BY <1>6 DEF SP, Request
<1> HIDE DEF R
<1>8. Shows(t) /\ r = tab[t].result => more[t].offset = Len(tab[t].shown)
  BY <1>1, <1>3 DEF Continues, r
<1>9. /\ more'[t].result \in DOMAIN pool /\ more'[t].result # None /\ Distinct(more'[t].cached)
      /\ more'[t].pc # "land" /\ more'[t].result = more[t].result
      /\ Shows(t) /\ more'[t].result = tab[t].result => more'[t].offset = Len(tab[t].shown)
  BY <1>3, <1>4, <1>6, <1>8 DEF r
<1> QED BY <1>2, <1>3, <1>6, <1>7, <1>9, RequestMoves

LEMMA MoreFailsQuietly ==
    ASSUME SearchInv, NEW t \in Tabs, Cache!MoreFails(t)
    PROVE  SearchInv'
<1>1. SearchTyped BY DEF SearchInv
<1>2. more' = [more EXCEPT ![t] = Cache!Idle] /\ UNCHANGED <<pool, tab, load, search, mixed, lost>>
  BY DEF Cache!MoreFails
<1>3. /\ Cache!Idle \in Request /\ Cache!Idle.pc = "idle" /\ Cache!Idle.result = None
      /\ Distinct(Cache!Idle.cached)
  BY IdleIs
<1>4. /\ more' \in [Tabs -> Request] /\ more'[t] = Cache!Idle
      /\ \A o \in Tabs \ {t} : more'[o] = more[o]
  BY <1>1, <1>2, <1>3 DEF SearchTyped
<1> QED BY <1>2, <1>3, <1>4, RequestMoves

\* The page comes to the view: to what it went on from, unless it is mixed.
LEMMA PageLands ==
    ASSUME SearchInv, NEW t \in Tabs, Cache!MoreLands(t)
    PROVE  SearchInv'
<1>1. SearchTyped /\ Awaits(t) /\ Continues(t) BY DEF SearchInv
<1> DEFINE SP == Seq(Papers)
           s == tab[t].shown
           g == more[t].got
           mode == IF more[t].widen /\ g = <<>> THEN "exhausted" ELSE Cache!NextMode(more[t].hasMore)
           V == [result : Nat \cup {None}, shown : SP, mode : Cache!Modes]
<1>2. /\ more[t].pc = "land" /\ tab' = [tab EXCEPT ![t].shown = s \o g, ![t].mode = mode]
      /\ mixed' = IF more[t].result # tab[t].result THEN mixed \cup {t} ELSE mixed
      /\ more' = [more EXCEPT ![t] = Cache!Idle]
      /\ UNCHANGED <<pool, load, search, lost>>
  BY DEF Cache!MoreLands
<1>3. s \in SP /\ g \in SP /\ s \o g \in SP BY <1>1, ViewIs, ConcatProperties
<1>4. mode \in Cache!Modes BY DEF Cache!Modes, Cache!NextMode
<1>5. tab \in [Tabs -> V] BY <1>1 DEF SearchTyped, View
<1> DEFINE sg == s \o g
<1>6. tab' = [tab EXCEPT ![t].shown = sg, ![t].mode = mode] /\ sg \in SP BY <1>2, <1>3
<1> HIDE DEF SP, mode, sg
<1>7. /\ tab' \in [Tabs -> V] /\ \A o \in Tabs \ {t} : tab'[o] = tab[o]
      /\ tab'[t].result = tab[t].result /\ tab'[t].shown = sg
  BY <1>4, <1>5, <1>6
<1>8. V = View BY DEF SP, View
<1> HIDE DEF V
<1>9. /\ Cache!Idle \in Request /\ Cache!Idle.pc = "idle" /\ Cache!Idle.result = None
      /\ Distinct(Cache!Idle.cached)
  BY IdleIs
<1>10. /\ more' \in [Tabs -> Request] /\ more'[t] = Cache!Idle
       /\ \A o \in Tabs \ {t} : more'[o] = more[o]
  BY <1>1, <1>2, <1>9 DEF SearchTyped
<1>11. SearchTyped'
  <2>1. \A o \in Tabs : /\ tab'[o].result \in (DOMAIN pool) \cup {None}
                        /\ more'[o].result \in (DOMAIN pool) \cup {None}
    BY <1>1, <1>7, <1>9, <1>10 DEF SearchTyped
  <2>2. mixed' \subseteq Tabs BY <1>1, <1>2 DEF SearchTyped
  <2> HIDE DEF View, Request
  <2> QED BY <1>1, <1>2, <1>7, <1>8, <1>10, <2>1, <2>2 DEF SearchTyped
<1>12. Asking(t) /\ tab[t].result # None BY <1>1, <1>2 DEF Awaits, Asking
<1>13. Awaits(t)' BY <1>1, <1>2, <1>7, <1>9, <1>10, <1>12 DEF Awaits, Asking
<1>14. Continues(t)'
  <2>1. ~Asking(t)' BY <1>9, <1>10 DEF Asking
  <2>2. ASSUME Shows(t)' PROVE Opens(sg, pool[tab[t].result])
    <3> DEFINE p == pool[tab[t].result]
    <3>1. Shows(t) /\ more[t].result = tab[t].result BY <1>2, <1>7, <2>2 DEF Shows
    <3>2. Opens(s, p) /\ Follows(g, p, Len(s)) BY <1>1, <1>2, <1>12, <3>1 DEF Continues
    <3>3. p \in Seq(Papers) BY <1>1, <1>12, ViewIs, PoolIs
    <3> HIDE DEF p, s, g
    <3>4. Opens(s \o g, p) BY <1>3, <3>2, <3>3, OpensFurther DEF SP
    <3> QED BY <3>4 DEF sg, p
  <2> QED BY <1>2, <1>7, <2>1, <2>2 DEF Continues
<1>15. mixed' \cup {t} = mixed \cup {t} BY <1>2
<1> QED BY <1>1, <1>2, <1>7, <1>9, <1>10, <1>11, <1>13, <1>14, <1>15, OneView

\* A result set more, for a view that waits for one or for nobody.
LEMMA Mints ==
    ASSUME SearchInv, Cache!SearchPapers
    PROVE  SearchInv'
<1>1. SearchTyped BY DEF SearchInv
<1>2. PICK ranked \in Cache!Lists :
          /\ Cache!Mint(ranked)
          /\ \/ UNCHANGED search
             \/ \E t \in Tabs : search[t] = 0 /\ search' = [search EXCEPT ![t] = Len(pool) + 1]
  BY DEF Cache!SearchPapers
<1>3. Len(pool) < MaxResults /\ pool' = Append(pool, ranked) /\ UNCHANGED <<tab, load, more, mixed, lost>>
  BY <1>2 DEF Cache!Mint
<1> DEFINE SP == Seq(Papers)
           l == Len(pool) + 1
<1>4. ranked \in SP /\ Distinct(ranked) BY RankedIs
<1>5. /\ Len(pool) \in Nat /\ DOMAIN pool = 1 .. Len(pool) /\ None \notin DOMAIN pool
      /\ \A r \in DOMAIN pool : pool[r] \in SP /\ Distinct(pool[r])
      /\ pool \in Seq(SP)
  BY <1>1, PoolIs DEF SearchTyped
<1> HIDE DEF SP
<1>6. /\ pool' \in Seq(SP) /\ Len(pool') = l /\ DOMAIN pool' = 1 .. l
      /\ \A r \in DOMAIN pool : pool'[r] = pool[r]
      /\ pool'[l] = ranked
  BY <1>3, <1>4, <1>5
<1>7. /\ DOMAIN pool \subseteq DOMAIN pool' /\ l \in DOMAIN pool' /\ l \notin DOMAIN pool
      /\ \A r \in DOMAIN pool' : r \in DOMAIN pool \/ r = l
      /\ l <= MaxResults /\ l # None
  BY <1>3, <1>5, <1>6, SearchNumbers
<1>8. \A r \in DOMAIN pool' : Distinct(pool'[r]) BY <1>4, <1>5, <1>6, <1>7
<1> HIDE DEF l
<1>9. search' \in [Tabs -> (DOMAIN pool') \cup {0, None}]
  <2>1. search \in [Tabs -> (DOMAIN pool) \cup {0, None}] BY <1>1 DEF SearchTyped
  <2> QED BY <1>2, <1>7, <2>1 DEF l
<1>10. SearchTyped'
  <2>1. load' \in [Tabs -> (DOMAIN pool') \cup {None}] BY <1>1, <1>3, <1>7 DEF SearchTyped
  <2>2. \A t \in Tabs : /\ tab[t].result \in (DOMAIN pool') \cup {None}
                        /\ more[t].result \in (DOMAIN pool') \cup {None}
    BY <1>1, <1>7 DEF SearchTyped
  <2> HIDE DEF View, Request
  <2> QED BY <1>1, <1>3, <1>6, <1>7, <1>8, <1>9, <2>1, <2>2 DEF SearchTyped, SP
<1>11. ASSUME NEW t \in Tabs PROVE Distinct(more'[t].cached) /\ Awaits(t)' /\ Continues(t)'
  <2>1. Shows(t)' => Shows(t) BY <1>3 DEF Shows
  <2>2. ASSUME Shows(t) PROVE Opens(pool[tab[t].result], pool'[tab[t].result])
    <3> DEFINE p == pool[tab[t].result]
    <3>1. tab[t].result \in DOMAIN pool BY <1>1, <2>2, ViewIs DEF Shows
    <3>2. p \in Seq(Papers) /\ pool'[tab[t].result] = p BY <1>5, <1>6, <3>1 DEF SP
    <3> HIDE DEF p
    <3>3. Opens(p, p) BY <3>2, OpensItself
    <3> QED BY <3>2, <3>3 DEF p
  <2>3. CASE search'[t] = search[t] BY <1>3, <1>7, <1>10, <2>1, <2>2, <2>3, ViewKept
  <2>4. CASE search'[t] # search[t]
    <3>1. search'[t] = l
      <4>1. search \in [Tabs -> (DOMAIN pool) \cup {0, None}] BY <1>1 DEF SearchTyped
      <4> QED BY <1>2, <2>4, <4>1 DEF l
    <3>2. /\ load[t] \in (DOMAIN pool) \cup {None} /\ tab[t].result \in (DOMAIN pool) \cup {None}
          /\ more[t].result \in (DOMAIN pool) \cup {None}
          /\ more[t].offset \in Nat /\ more[t].got \in Seq(Papers) /\ tab[t].shown \in Seq(Papers)
      BY <1>1, ViewIs
    <3>3. Distinct(more[t].cached) /\ Awaits(t) /\ Continues(t) BY DEF SearchInv
    <3>4. Awaits(t)' BY <1>3, <1>7, <3>1, <3>2, <3>3 DEF Awaits, Asking
    <3>5. Shows(t) => pool'[tab[t].result] = pool[tab[t].result] BY <1>6, <3>2 DEF Shows
    <3>6. Continues(t)' BY <1>3, <2>1, <3>3, <3>5 DEF Continues, Shows, Asking
    <3> QED BY <1>3, <3>3, <3>4, <3>6
  <2> QED BY <2>3, <2>4
<1> QED BY <1>10, <1>11 DEF SearchInv

\* The pool is written back: over what was read, or over what others wrote.
LEMMA WritesPool ==
    ASSUME SearchInv, NEW t \in Tabs, Cache!WidenWrite(t)
    PROVE  SearchInv'
<1>1. SearchTyped /\ Distinct(more[t].cached) /\ Awaits(t) /\ Continues(t) BY DEF SearchInv
<1> DEFINE SP == Seq(Papers)
           r == more[t].result
           c == more[t].cached
<1>2. PICK ranked \in Cache!Lists :
          /\ pool' = [pool EXCEPT ![r] = Cache!Merged(c, ranked)]
          /\ Cache!Answer(t, Cache!Merged(c, ranked))
  BY DEF Cache!WidenWrite
<1>3. /\ more[t].pc = "fetch" /\ UNCHANGED <<tab, load, search, mixed>>
      /\ lost' = IF pool[r] # c THEN lost \cup {r} ELSE lost
  BY DEF Cache!WidenWrite
<1> DEFINE p == Cache!Merged(c, ranked)
<1>4. p \in SP /\ Distinct(p) /\ Opens(c, p) BY <1>1, ViewIs, MergedIs
<1>5. pool' = [pool EXCEPT ![r] = p] /\ Cache!Answer(t, p) BY <1>2
<1> HIDE DEF p
<1>6. Asking(t) /\ r # None BY <1>1, <1>3 DEF Asking, Continues
<1>7. /\ Len(pool) \in Nat /\ DOMAIN pool = 1 .. Len(pool) /\ r \in DOMAIN pool
      /\ \A k \in DOMAIN pool : pool[k] \in SP /\ Distinct(pool[k])
      /\ pool \in Seq(SP) /\ Len(pool) <= MaxResults
  BY <1>1, <1>6, PoolIs, ViewIs DEF SearchTyped
<1>8. /\ more' \in [Tabs -> Request] /\ \A o \in Tabs \ {t} : more'[o] = more[o]
      /\ more'[t].pc = "land" /\ more'[t].result = more[t].result
      /\ more'[t].offset = more[t].offset /\ more'[t].got = Cache!Page(p, more[t].offset)
      /\ Distinct(more'[t].cached)
  BY <1>1, <1>4, <1>5, AnswerIs
<1> HIDE DEF SP, r, c
<1>9. /\ pool' \in Seq(SP) /\ Len(pool') = Len(pool) /\ DOMAIN pool' = DOMAIN pool
      /\ pool'[r] = p /\ \A k \in DOMAIN pool \ {r} : pool'[k] = pool[k]
  BY <1>4, <1>5, <1>7, ExceptSeq
<1>10. \A k \in DOMAIN pool' : Distinct(pool'[k]) BY <1>4, <1>7, <1>9
<1>11. SearchTyped'
  <2>1. r \in Cache!Results BY <1>7, SearchNumbers DEF Cache!Results
  <2>2. lost' \subseteq Cache!Results BY <1>1, <1>3, <2>1 DEF SearchTyped
  <2>3. \A o \in Tabs : more'[o].result = more[o].result BY <1>8
  <2>4. \A o \in Tabs : /\ tab'[o].result \in (DOMAIN pool') \cup {None}
                        /\ more'[o].result \in (DOMAIN pool') \cup {None}
    BY <1>1, <1>3, <1>9, <2>3 DEF SearchTyped
  <2> HIDE DEF View, Request
  <2> QED BY <1>1, <1>3, <1>7, <1>8, <1>9, <1>10, <2>2, <2>4 DEF SearchTyped, SP
<1>12. ASSUME NEW o \in Tabs, Shows(o)'
       PROVE  /\ Shows(o) /\ Opens(pool[tab[o].result], pool'[tab[o].result])
              /\ tab[o].result = r => Opens(pool[r], p)
  <2> DEFINE k == tab[o].result
  <2>1. k # None /\ o \notin mixed /\ k \notin lost' BY <1>3, <1>12 DEF Shows
  <2>2. Shows(o) BY <1>3, <2>1 DEF Shows
  <2>3. k \in DOMAIN pool BY <1>1, <2>1, ViewIs
  <2>4. CASE k = r
    <3>1. pool[r] = c BY <1>3, <2>1, <2>4
    <3> QED BY <1>4, <1>9, <2>2, <2>4, <3>1
  <2>5. CASE k # r
    <3>1. pool'[k] = pool[k] /\ pool[k] \in Seq(Papers) BY <1>7, <1>9, <2>3, <2>5 DEF SP
    <3>2. Opens(pool[k], pool[k]) BY <3>1, OpensItself
    <3> QED BY <2>2, <2>5, <3>1, <3>2
  <2> QED BY <2>4, <2>5
<1>13. ASSUME NEW o \in Tabs \ {t} PROVE Distinct(more'[o].cached) /\ Awaits(o)' /\ Continues(o)'
  BY <1>3, <1>8, <1>9, <1>11, <1>12, ViewKept
<1>14. Awaits(t)' BY <1>1, <1>3, <1>6, <1>8, <1>9 DEF Awaits, Asking
<1>15. Continues(t)'
  <2>1. more'[t].result # None BY <1>6, <1>8 DEF r
  <2>2. ASSUME Shows(t)' PROVE Opens(tab[t].shown, pool'[tab[t].result])
    <3> DEFINE u == pool[tab[t].result]
               v == pool'[tab[t].result]
    <3>1. tab[t].result \in DOMAIN pool /\ tab[t].shown \in Seq(Papers)
      BY <1>1, <1>12, <2>2, ViewIs DEF Shows
    <3>2. u \in Seq(Papers) /\ v \in Seq(Papers) BY <1>7, <1>11, <1>9, <3>1, PoolIsNext DEF SP
    <3>3. Opens(tab[t].shown, u) /\ Opens(u, v) BY <1>1, <1>12, <2>2 DEF Continues
    <3> HIDE DEF u, v
    <3>4. Opens(tab[t].shown, v) BY <3>1, <3>2, <3>3, OpensOnwards
    <3> QED BY <3>4 DEF v
  <2>3. ASSUME Shows(t)', more[t].result = tab[t].result
        PROVE  /\ more[t].offset = Len(tab[t].shown)
               /\ Follows(more'[t].got, p, more[t].offset)
    <3>1. more[t].offset = Len(tab[t].shown) BY <1>1, <1>6, <1>12, <2>3 DEF Continues
    <3>2. Opens(tab[t].shown, p) BY <1>9, <2>2, <2>3 DEF r
    <3>3. more[t].offset \in Nat /\ more[t].offset <= Len(p) BY <1>1, <3>1, <3>2, ViewIs DEF Opens
    <3>4. p \in Seq(Papers) BY <1>4 DEF SP
    <3> QED BY <1>8, <3>1, <3>3, <3>4, PageIs
  <2> QED BY <1>3, <1>8, <1>9, <2>1, <2>2, <2>3 DEF Continues, r
<1> QED BY <1>8, <1>11, <1>13, <1>14, <1>15 DEF SearchInv

LEMMA SearchStep == SearchInv /\ (Cache!Next \/ UNCHANGED searchVars) => SearchInv'
<1> SUFFICES ASSUME SearchInv, Cache!Next \/ UNCHANGED searchVars PROVE SearchInv' OBVIOUS
<1>1. CASE Cache!SearchPapers BY <1>1, Mints
<1>2. ASSUME NEW t \in Tabs, Cache!Search(t) \/ Cache!SearchFails(t) PROVE SearchInv'
  <2>1. \/ search' = [search EXCEPT ![t] = 0] \/ search' = [search EXCEPT ![t] = None]
    BY <1>2 DEF Cache!Search, Cache!SearchFails
  <2>2. UNCHANGED <<pool, tab, load, more, mixed, lost>>
    BY <1>2 DEF Cache!Search, Cache!SearchFails
  <2> QED BY <2>1, <2>2, SearchSearches
<1>3. ASSUME NEW t \in Tabs, NEW r \in DOMAIN pool, Cache!Open(t, r) PROVE SearchInv'
  BY <1>3, SearchOpens
<1>4. ASSUME NEW t \in Tabs,
             \/ Cache!SearchLands(t) \/ Cache!LoadLands(t) \/ Cache!handleSearchMore(t)
             \/ Cache!Reveal(t) \/ Cache!WidenRead(t) \/ Cache!WidenWrite(t)
             \/ Cache!MoreLands(t) \/ Cache!MoreFails(t)
      PROVE  SearchInv'
  BY <1>4, SearchResultLands, AsksForMore, Reveals, ReadsPool, WritesPool, PageLands, MoreFailsQuietly
<1>5. CASE UNCHANGED searchVars
  BY <1>5 DEF searchVars, SearchInv, SearchTyped, Awaits, Continues, Shows, Asking
<1> QED BY <1>1, <1>2, <1>3, <1>4, <1>5 DEF Cache!Next

\* A view shows its pool's first rows, in order and once each, unless a page
\* of another result was put among them or a widen undid another's.
THEOREM ViewsShowTheirPools == Spec => []ShownIsPrefix
<1>1. Init => SearchInv BY SearchInitially DEF Init
<1>2. SearchInv /\ [Next]_vars => SearchInv' BY StepOfEach, SearchStep
<1>3. SearchInv => ShownIsPrefix
  <2> SUFFICES ASSUME SearchInv, NEW t \in Tabs, tab[t].result # None, t \notin mixed,
                      tab[t].result \notin lost
               PROVE  /\ Cache!IsInjective(pool[tab[t].result])
                      /\ Cache!IsPrefix(tab[t].shown, pool[tab[t].result])
    BY DEF ShownIsPrefix, Cache!ShownIsPrefix
  <2> DEFINE p == pool[tab[t].result]
  <2>1. SearchTyped /\ Opens(tab[t].shown, p) BY DEF SearchInv, Continues, Shows
  <2>2. tab[t].shown \in Seq(Papers) /\ p \in Seq(Papers) /\ Distinct(p) BY <2>1, ViewIs, PoolIs
  <2> HIDE DEF p
  <2>3. Cache!IsPrefix(tab[t].shown, p) BY <2>1, <2>2, OpensIsPrefix
  <2>4. Cache!IsInjective(p) BY <2>2 DEF Distinct, Cache!IsInjective
  <2> QED BY <2>3, <2>4 DEF p
<1> QED BY <1>1, <1>2, <1>3, PTL DEF Spec
=============================================================================

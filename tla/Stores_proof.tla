--------------------------- MODULE Stores_proof ---------------------------
(* What is stored twice agrees, and a tool call leaves nothing running, for *)
(* every value of the constants.                                            *)
EXTENDS Services_proof

-----------------------------------------------------------------------------
(* Highlights: what is about to be committed is in the mirror.              *)

MirrorsInv ==
    /\ mark = [m \in Marks |-> mark[m]]
    /\ ~torn => \A m \in Marks : mark[m] = "flushing" => m \in mirror
    /\ Mirrors!HighlightsMirrored

LEMMA MirrorsStep ==
    ASSUME MirrorsInv, Mirrors!Next \/ UNCHANGED mirrorsVars
    PROVE  MirrorsInv'
<1> USE DEF MirrorsInv, Mirrors!HighlightsMirrored, Mirrors!Go
<1>1. CASE UNCHANGED mirrorsVars BY <1>1 DEF mirrorsVars
<1>2. ASSUME NEW m \in Marks, Mirrors!Anchor(m) PROVE MirrorsInv' BY <1>2 DEF Mirrors!Anchor
<1>3. ASSUME NEW m \in Marks, Mirrors!WriteMirror(m) PROVE MirrorsInv'
  BY <1>3 DEF Mirrors!WriteMirror
<1>4. ASSUME NEW m \in Marks, Mirrors!Refused(m) PROVE MirrorsInv' BY <1>4 DEF Mirrors!Refused
<1>5. ASSUME NEW m \in Marks, Mirrors!WriteFails(m) PROVE MirrorsInv'
  BY <1>5 DEF Mirrors!WriteFails
<1>6. ASSUME NEW m \in Marks, Mirrors!Commit(m) PROVE MirrorsInv' BY <1>6 DEF Mirrors!Commit
<1>7. ASSUME NEW m \in Marks, Mirrors!Abandon(m) PROVE MirrorsInv' BY <1>7 DEF Mirrors!Abandon
<1> QED BY <1>1, <1>2, <1>3, <1>4, <1>5, <1>6, <1>7 DEF Mirrors!Next

LEMMA MirrorsAlways == Spec => []MirrorsInv
<1>1. Init => MirrorsInv
  BY DEF Init, Mirrors!Init, MirrorsInv, Mirrors!HighlightsMirrored
<1>2. MirrorsInv /\ [Next]_vars => MirrorsInv' BY StepOfEach, MirrorsStep
<1> QED BY <1>1, <1>2, PTL DEF Spec

-----------------------------------------------------------------------------
(* Project memory.                                                          *)

\* A job of s is to come: it is queued, or its enqueue is due.
Pending(s) ==
    \/ s \in unqueued
    \/ s = Conversation /\ compaction = "committed"
    \/ \E j \in Jobs : chunking[j].source = s /\ chunking[j].pc = "queued"

\* The last text of s is indexed, or will be.
Coming(s) ==
    \/ Pending(s)
    \/ \E j \in Jobs : Memory!Under(j, s) /\ chunking[j].version = text[s]
    \/ \E c \in chunks[s] : c.version = text[s]

\* A job alone with its source deletes all of its chunks, and reads its last
\* text or another job will.
JobAlone(j) ==
    LET s == chunking[j].source IN
    Memory!Under(j, s) =>
        IF chunking[j].alone
        THEN /\ \A i \in Jobs : Memory!Under(i, s) => i = j
             /\ chunking[j].pc \in {"deleting", "embedding"} => chunking[j].doomed = chunks[s]
             /\ chunking[j].version = text[s] \/ s \in behind \/ Pending(s)
        ELSE s \in overlapped

JobsTyped ==
    /\ chunking \in [Jobs -> Memory!ChunkJobs]
    /\ chunks \in [Memory!Sources -> SUBSET Memory!Chunks]
    /\ text \in [Memory!Sources -> Memory!Versions]
    /\ \A j \in Jobs : chunking[j].pc # "none" => chunking[j].source \in Memory!Sources

MemoryInv ==
    /\ JobsTyped
    /\ \A j \in Jobs : JobAlone(j)
    /\ \A s \in Memory!Sources \ overlapped :
           /\ \A c, d \in chunks[s] : c = d
           /\ s \notin behind /\ text[s] > 0 => Coming(s)

LEMMA MemoryInit == Memory!Init => MemoryInv
<1> SUFFICES ASSUME Memory!Init PROVE MemoryInv OBVIOUS
<1> USE DEF Memory!Init
<1>1. JobsTyped
  BY BoundsAreNumbers DEF JobsTyped, Memory!ChunkJobs, Memory!Chunks, Memory!Versions
<1>2. \A j \in Jobs : JobAlone(j) BY DEF JobAlone, Memory!Under
<1>3. \A s \in Memory!Sources : chunks[s] = {} /\ text[s] = 0 OBVIOUS
<1> QED BY <1>1, <1>2, <1>3 DEF MemoryInv

\* The fields of a job, of one that is queued, and of one that goes on.
LEMMA JobFields ==
    ASSUME JobsTyped
    PROVE  \A j \in Jobs :
               /\ chunking[j].pc \in {"none", "queued", "read", "deleting", "embedding", "done"}
               /\ chunking[j].version \in Nat /\ chunking[j].version \in Memory!Versions
               /\ chunking[j].doomed \in SUBSET Memory!Chunks
               /\ chunking[j].alone \in BOOLEAN
BY BoundsAreNumbers DEF JobsTyped, Memory!ChunkJobs, Memory!Versions

\* Whoever writes a text writes it while its index is up to date, or says that a
\* job is to come, or that none is.
LEMMA TextMoves ==
    ASSUME MemoryInv, UNCHANGED <<chunks, chunking, overlapped>>,
           JobsTyped',
           \A s \in Memory!Sources : text'[s] = text[s] \/ Pending(s)' \/ s \in behind',
           \A s \in Memory!Sources : Pending(s) => Pending(s)' \/ s \in behind',
           behind \subseteq behind'
    PROVE  MemoryInv'
<1>1. \A j \in Jobs : JobAlone(j)' BY DEF MemoryInv, JobsTyped, JobAlone, Memory!Under
<1>2. ASSUME NEW s \in Memory!Sources, s \notin overlapped
      PROVE  s \notin behind' /\ text'[s] > 0 => Coming(s)'
  BY <1>2 DEF MemoryInv, Coming, Memory!Under
<1> QED BY <1>1, <1>2 DEF MemoryInv

\* A job that is queued.
LEMMA JobQueued ==
    ASSUME MemoryInv, NEW s \in Memory!Sources, NEW j \in Jobs, Memory!Enqueued(s, j),
           UNCHANGED <<text, chunks, overlapped, behind>>,
           \A r \in Memory!Sources : Pending(r) => Pending(r)'
    PROVE  MemoryInv'
<1>0. \A i \in Jobs \ {j} : chunking'[i] = chunking[i] BY DEF MemoryInv, JobsTyped, Memory!Enqueued
<1>1. JobsTyped'
  <2>1. chunking' \in [Jobs -> Memory!ChunkJobs]
    <3>1. chunking[j] \in Memory!ChunkJobs BY DEF MemoryInv, JobsTyped
    <3>2. [chunking[j] EXCEPT !.pc = "queued", !.source = s] \in Memory!ChunkJobs
      BY <3>1 DEF Memory!ChunkJobs
    <3>3. chunking' = [chunking EXCEPT ![j] = [chunking[j] EXCEPT !.pc = "queued", !.source = s]]
      BY DEF MemoryInv, JobsTyped, Memory!Enqueued
    <3> QED BY <3>2, <3>3 DEF MemoryInv, JobsTyped
  <2>2. chunking'[j].source = s
    BY DEF MemoryInv, JobsTyped, Memory!Enqueued, Memory!ChunkJobs
  <2>3. \A i \in Jobs : chunking'[i].pc # "none" => chunking'[i].source \in Memory!Sources
    BY <1>0, <2>2 DEF MemoryInv, JobsTyped
  <2> QED BY <2>1, <2>3 DEF MemoryInv, JobsTyped
<1>2. chunking[j].pc = "none" /\ chunking'[j].pc = "queued"
  BY DEF MemoryInv, JobsTyped, Memory!Enqueued, Memory!ChunkJobs
<1>3. \A i \in Jobs, r \in Memory!Sources :
          /\ Memory!Under(i, r)' <=> Memory!Under(i, r)
          /\ Memory!Under(i, r) => chunking'[i] = chunking[i]
  BY <1>0, <1>2 DEF Memory!Under
<1>4. \A i \in Jobs : JobAlone(i)'
  <2> SUFFICES ASSUME NEW i \in Jobs, chunking'[i].pc \in {"read", "deleting", "embedding"}
               PROVE  JobAlone(i)'
    BY DEF JobAlone, Memory!Under
  <2>1. i # j BY <1>2 DEF Memory!Under
  <2>2. chunking'[i] = chunking[i] /\ chunking[i].source \in Memory!Sources
    BY <2>1, <1>0 DEF Memory!Under, MemoryInv, JobsTyped
  <2> QED BY <1>3, <2>2 DEF JobAlone, MemoryInv
<1>5. ASSUME NEW r \in Memory!Sources, r \notin overlapped
      PROVE  r \notin behind' /\ text'[r] > 0 => Coming(r)'
  BY <1>3, <1>5 DEF MemoryInv, Coming
<1> QED BY <1>1, <1>4, <1>5 DEF MemoryInv

LEMMA MemoryTexts ==
    ASSUME MemoryInv, NEW s \in Memory!Sources, Memory!Worded(s),
           UNCHANGED <<chunks, chunking>>
    PROVE  /\ JobsTyped'
           /\ \A r \in Memory!Sources : r # s => text'[r] = text[r]
BY BoundsAreNumbers DEF MemoryInv, JobsTyped, Memory!Worded, Memory!Versions

LEMMA Writing ==
    ASSUME MemoryInv,
           \/ \E s \in Noted : \/ Memory!CreateNote(s)
                               \/ Memory!SaveNote(s)
                               \/ \E j \in Jobs : Memory!EnqueueNote(s, j)
           \/ Memory!Compact \/ Memory!CompactionFails \/ Memory!SummaryLands
           \/ Memory!EnqueueLost
           \/ \E j \in Jobs : Memory!EnqueueSummary(j)
    PROVE  MemoryInv'
<1>0. Noted \subseteq Memory!Sources /\ Conversation \in Memory!Sources /\ JobsTyped
  BY DEF Memory!Sources, MemoryInv
<1>1. ASSUME NEW s \in Noted, Memory!CreateNote(s) PROVE MemoryInv'
  <2>1. Memory!Worded(s) /\ unqueued' = unqueued \cup {s}
        /\ UNCHANGED <<chunks, chunking, compaction, overlapped, behind>>
    BY <1>1 DEF Memory!CreateNote
  <2>2. JobsTyped' /\ \A r \in Memory!Sources : r # s => text'[r] = text[r]
    BY <1>0, <2>1, MemoryTexts
  <2>3. Pending(s)' BY <2>1 DEF Pending
  <2>4. \A r \in Memory!Sources : Pending(r) => Pending(r)' BY <2>1 DEF Pending
  <2> QED BY <2>1, <2>2, <2>3, <2>4, TextMoves
<1>2. ASSUME NEW s \in Noted, Memory!SaveNote(s) PROVE MemoryInv'
  <2>1. Memory!Worded(s) /\ behind' = behind \cup {s}
        /\ UNCHANGED <<chunks, chunking, unqueued, compaction, overlapped>>
    BY <1>2 DEF Memory!SaveNote
  <2>2. JobsTyped' /\ \A r \in Memory!Sources : r # s => text'[r] = text[r]
    BY <1>0, <2>1, MemoryTexts
  <2>3. \A r \in Memory!Sources : Pending(r) => Pending(r)' BY <2>1 DEF Pending
  <2> QED BY <2>1, <2>2, <2>3, TextMoves
<1>3. ASSUME NEW s \in Noted, NEW j \in Jobs, Memory!EnqueueNote(s, j) PROVE MemoryInv'
  <2>1. Memory!Enqueued(s, j) /\ unqueued' = unqueued \ {s}
        /\ UNCHANGED <<text, chunks, compaction, overlapped, behind>>
    BY <1>3 DEF Memory!EnqueueNote
  <2>2. \A i \in Jobs \ {j} : chunking'[i] = chunking[i] BY <1>0, <2>1 DEF JobsTyped, Memory!Enqueued
  <2>3. chunking[j].pc = "none" /\ chunking'[j].pc = "queued" /\ chunking'[j].source = s
    BY <1>0, <2>1 DEF JobsTyped, Memory!Enqueued, Memory!ChunkJobs
  <2>4. \A r \in Memory!Sources : Pending(r) => Pending(r)'
    BY <2>1, <2>2, <2>3 DEF Pending
  <2> QED BY <1>0, <2>1, <2>4, JobQueued
<1>4. CASE Memory!Compact \/ Memory!CompactionFails
  <2>1. UNCHANGED <<text, chunks, chunking, unqueued, overlapped, behind>>
        /\ compaction # "committed"
    BY <1>4 DEF Memory!Compact, Memory!CompactionFails
  <2>2. \A r \in Memory!Sources : Pending(r) => Pending(r)' BY <2>1 DEF Pending
  <2>3. JobsTyped' BY <1>0, <2>1 DEF JobsTyped
  <2> QED BY <2>1, <2>2, <2>3, TextMoves
<1>5. CASE Memory!SummaryLands
  <2>1. Memory!Worded(Conversation) /\ compaction' = "committed"
        /\ UNCHANGED <<chunks, chunking, unqueued, overlapped, behind>>
    BY <1>5 DEF Memory!SummaryLands
  <2>2. JobsTyped' /\ \A r \in Memory!Sources : r # Conversation => text'[r] = text[r]
    BY <1>0, <2>1, MemoryTexts
  <2>3. Pending(Conversation)' BY <2>1 DEF Pending
  <2>4. \A r \in Memory!Sources : Pending(r) => Pending(r)' BY <2>1 DEF Pending
  <2> QED BY <2>1, <2>2, <2>3, <2>4, TextMoves
<1>6. CASE Memory!EnqueueLost
  <2>1. UNCHANGED <<text, chunks, chunking, overlapped>> BY <1>6 DEF Memory!EnqueueLost
  <2>2. behind \subseteq behind' BY <1>6 DEF Memory!EnqueueLost
  <2>3. \A r \in Memory!Sources : Pending(r) => Pending(r)' \/ r \in behind'
    BY <1>6 DEF Memory!EnqueueLost, Pending
  <2>4. JobsTyped' BY <1>0, <2>1 DEF JobsTyped
  <2> QED BY <2>1, <2>2, <2>3, <2>4, TextMoves
<1>7. ASSUME NEW j \in Jobs, Memory!EnqueueSummary(j) PROVE MemoryInv'
  <2>1. Memory!Enqueued(Conversation, j) /\ compaction' = "off"
        /\ UNCHANGED <<text, chunks, unqueued, overlapped, behind>>
    BY <1>7 DEF Memory!EnqueueSummary
  <2>2. \A i \in Jobs \ {j} : chunking'[i] = chunking[i] BY <1>0, <2>1 DEF JobsTyped, Memory!Enqueued
  <2>3. chunking[j].pc = "none" /\ chunking'[j].pc = "queued" /\ chunking'[j].source = Conversation
    BY <1>0, <2>1 DEF JobsTyped, Memory!Enqueued, Memory!ChunkJobs
  <2>4. \A r \in Memory!Sources : Pending(r) => Pending(r)'
    BY <2>1, <2>2, <2>3 DEF Pending
  <2> QED BY <1>0, <2>1, <2>4, JobQueued
<1> QED BY <1>1, <1>2, <1>3, <1>4, <1>5, <1>6, <1>7

\* What a step of j leaves of the other jobs' invariant, where it changes neither
\* the chunks nor the texts.
LEMMA JobStep ==
    ASSUME MemoryInv, NEW j \in Jobs,
           chunking' \in [Jobs -> Memory!ChunkJobs],
           \A i \in Jobs \ {j} : chunking'[i] = chunking[i],
           chunking'[j].source = chunking[j].source,
           chunking'[j].version = chunking[j].version,
           chunking'[j].alone = chunking[j].alone,
           chunking[j].pc \in {"read", "deleting", "embedding"},
           chunking'[j].pc \in {"deleting", "embedding"},
           chunking[j].alone => chunking'[j].doomed = chunks[chunking[j].source],
           UNCHANGED <<text, chunks, unqueued, compaction, overlapped, behind>>
    PROVE  MemoryInv'
<1>1. JobsTyped' BY DEF MemoryInv, JobsTyped
<1>2. \A i \in Jobs, s \in Memory!Sources : Memory!Under(i, s)' <=> Memory!Under(i, s)
  BY DEF Memory!Under
<1>3. \A s \in Memory!Sources : Pending(s) <=> Pending(s)' BY DEF Pending
<1>4. ASSUME NEW i \in Jobs, chunking'[i].pc \in {"read", "deleting", "embedding"}
      PROVE  JobAlone(i)'
  <2>1. chunking[i].source = chunking'[i].source /\ chunking[i].source \in Memory!Sources
        /\ Memory!Under(i, chunking[i].source)
    BY <1>4 DEF MemoryInv, JobsTyped, Memory!Under
  <2>2. JobAlone(i) BY DEF MemoryInv
  <2>3. chunking'[i].alone = chunking[i].alone /\ chunking'[i].version = chunking[i].version
    OBVIOUS
  <2>4. CASE chunking[i].alone
    <3> DEFINE s == chunking[i].source
    <3>1. \A k \in Jobs : Memory!Under(k, s) => k = i BY <2>1, <2>2, <2>4 DEF JobAlone
    <3>2. \A k \in Jobs : chunking'[k].source = s
                 /\ chunking'[k].pc \in {"read", "deleting", "embedding"} => k = i
      BY <1>2, <2>1, <3>1 DEF Memory!Under
    <3>3. chunking'[i].pc \in {"deleting", "embedding"} => chunking'[i].doomed = chunks[s]
      <4>1. CASE i = j BY <2>1, <2>4, <4>1
      <4>2. CASE i # j BY <2>1, <2>2, <2>4, <4>2 DEF JobAlone
      <4> QED BY <4>1, <4>2
    <3>4. chunking[i].version = text[s] \/ s \in behind \/ Pending(s)
      BY <2>1, <2>2, <2>4 DEF JobAlone
    <3>5. Pending(s)' <=> Pending(s) BY <1>3, <2>1
    <3> QED BY <2>1, <2>3, <2>4, <3>2, <3>3, <3>4, <3>5 DEF JobAlone, Memory!Under
  <2>5. CASE ~chunking[i].alone BY <2>1, <2>2, <2>3, <2>5 DEF JobAlone
  <2> QED BY <2>4, <2>5
<1>5. \A i \in Jobs : JobAlone(i)' BY <1>4 DEF JobAlone, Memory!Under
<1>6. ASSUME NEW s \in Memory!Sources, s \notin overlapped
      PROVE  s \notin behind' /\ text'[s] > 0 => Coming(s)'
  BY <1>2, <1>3, <1>6 DEF MemoryInv, Coming
<1> QED BY <1>1, <1>5, <1>6 DEF MemoryInv

LEMMA Deleting ==
    ASSUME MemoryInv, NEW j \in Jobs, Memory!StartDelete(j) \/ Memory!Delete(j)
    PROVE  MemoryInv'
<1>0. chunking \in [Jobs -> Memory!ChunkJobs] /\ chunking[j] \in Memory!ChunkJobs
      /\ chunks \in [Memory!Sources -> SUBSET Memory!Chunks]
  BY DEF MemoryInv, JobsTyped
<1>1. chunking[j].source \in Memory!Sources /\ Memory!Under(j, chunking[j].source)
      /\ JobAlone(j)
  BY DEF MemoryInv, JobsTyped, Memory!StartDelete, Memory!Delete, Memory!Under
<1>2. CASE Memory!StartDelete(j)
  <2> DEFINE new == [chunking[j] EXCEPT !.pc = "deleting", !.doomed = chunks[chunking[j].source]]
  <2>1. new \in Memory!ChunkJobs BY <1>0, <1>1 DEF Memory!ChunkJobs
  <2>2. chunking' = [chunking EXCEPT ![j] = new] BY <1>0, <1>2 DEF Memory!StartDelete
  <2>3. /\ new.source = chunking[j].source /\ new.version = chunking[j].version
        /\ new.alone = chunking[j].alone /\ new.pc = "deleting"
        /\ new.doomed = chunks[chunking[j].source]
    BY <1>0 DEF Memory!ChunkJobs
  <2>4. chunking[j].pc = "read"
        /\ UNCHANGED <<text, chunks, unqueued, compaction, overlapped, behind>>
    BY <1>2 DEF Memory!StartDelete
  <2> HIDE DEF new
  <2>5. chunking' \in [Jobs -> Memory!ChunkJobs] /\ chunking'[j] = new
        /\ \A i \in Jobs \ {j} : chunking'[i] = chunking[i]
    BY <1>0, <2>1, <2>2
  <2> QED BY <2>3, <2>4, <2>5, JobStep
<1>3. CASE Memory!Delete(j)
  <2> DEFINE new == [chunking[j] EXCEPT !.pc = "embedding",
                         !.doomed = chunking[j].doomed \cap chunks[chunking[j].source]]
  <2>1. new \in Memory!ChunkJobs BY <1>0, <1>1 DEF Memory!ChunkJobs
  <2>2. chunking' = [chunking EXCEPT ![j] = new] BY <1>0, <1>3 DEF Memory!Delete
  <2>3. /\ new.source = chunking[j].source /\ new.version = chunking[j].version
        /\ new.alone = chunking[j].alone /\ new.pc = "embedding"
        /\ new.doomed = chunking[j].doomed \cap chunks[chunking[j].source]
    BY <1>0 DEF Memory!ChunkJobs
  <2>4. chunking[j].pc = "deleting"
        /\ UNCHANGED <<text, chunks, unqueued, compaction, overlapped, behind>>
    BY <1>3 DEF Memory!Delete
  <2>5. chunking[j].alone => chunking[j].doomed = chunks[chunking[j].source]
    BY <1>1, <2>4 DEF JobAlone
  <2> HIDE DEF new
  <2>6. chunking' \in [Jobs -> Memory!ChunkJobs] /\ chunking'[j] = new
        /\ \A i \in Jobs \ {j} : chunking'[i] = chunking[i]
    BY <1>0, <2>1, <2>2
  <2>7. new.alone => new.doomed = chunks[chunking[j].source] BY <2>3, <2>5
  <2> QED BY <2>3, <2>4, <2>6, <2>7, JobStep
<1> QED BY <1>2, <1>3

LEMMA Reading ==
    ASSUME MemoryInv, NEW j \in Jobs, Memory!ReadSource(j)
    PROVE  MemoryInv'
<1> DEFINE s == chunking[j].source
           others == {i \in Jobs : Memory!Under(i, s)}
<1>0. JobsTyped /\ chunking \in [Jobs -> Memory!ChunkJobs] BY DEF MemoryInv, JobsTyped
<1>1. /\ chunking[j].pc = "queued"
      /\ overlapped' = IF others = {} THEN overlapped ELSE overlapped \cup {s}
      /\ UNCHANGED <<text, chunks, unqueued, compaction, behind>>
      /\ chunking' = [i \in Jobs |->
             IF i = j THEN [chunking[j] EXCEPT !.pc = "read", !.version = text[s],
                                               !.alone = others = {}]
             ELSE IF i \in others THEN [chunking[i] EXCEPT !.alone = FALSE]
             ELSE chunking[i]]
  BY DEF Memory!ReadSource
<1>2. s \in Memory!Sources /\ j \notin others BY <1>0, <1>1 DEF JobsTyped, Memory!Under
<1> DEFINE none == others = {}
<1>3. [chunking[j] EXCEPT !.pc = "read", !.version = text[s], !.alone = none] \in Memory!ChunkJobs
  <2>1. chunking[j] \in Memory!ChunkJobs /\ text[s] \in Memory!Versions
    BY <1>0, <1>2 DEF JobsTyped
  <2>2. none \in BOOLEAN OBVIOUS
  <2> HIDE DEF none
  <2> QED BY <2>1, <2>2 DEF Memory!ChunkJobs
<1>4. /\ chunking'[j].pc = "read" /\ chunking'[j].source = s
      /\ chunking'[j].version = text[s] /\ chunking'[j].alone = none
  <2>1. chunking'[j] = [chunking[j] EXCEPT !.pc = "read", !.version = text[s], !.alone = none]
    BY <1>1
  <2> HIDE DEF none
  <2> QED BY <1>0, <2>1 DEF Memory!ChunkJobs
<1>5. \A i \in others : /\ chunking'[i].pc = chunking[i].pc /\ chunking'[i].source = s
                        /\ chunking'[i].version = chunking[i].version
                        /\ chunking'[i].alone = FALSE
                        /\ chunking'[i] \in Memory!ChunkJobs
  <2> SUFFICES ASSUME NEW i \in others
               PROVE  /\ chunking'[i].pc = chunking[i].pc /\ chunking'[i].source = s
                      /\ chunking'[i].version = chunking[i].version
                      /\ chunking'[i].alone = FALSE
                      /\ chunking'[i] \in Memory!ChunkJobs
    OBVIOUS
  <2>1. chunking'[i] = [chunking[i] EXCEPT !.alone = FALSE] BY <1>1, <1>2
  <2>2. chunking[i] \in Memory!ChunkJobs /\ chunking[i].source = s BY <1>0 DEF Memory!Under
  <2> QED BY <2>1, <2>2 DEF Memory!ChunkJobs
<1>6. \A i \in Jobs \ {j} : i \notin others => chunking'[i] = chunking[i] BY <1>1
<1> HIDE DEF none
<1>7. JobsTyped'
  <2>1. \A i \in Jobs : chunking'[i] \in Memory!ChunkJobs
    <3>1. chunking'[j] \in Memory!ChunkJobs BY <1>1, <1>3 DEF none
    <3>2. \A i \in Jobs \ {j} : chunking'[i] \in Memory!ChunkJobs BY <1>0, <1>5, <1>6
    <3> QED BY <3>1, <3>2
  <2>2. chunking' = [i \in Jobs |-> chunking'[i]] BY <1>1
  <2>3. \A i \in Jobs : chunking'[i].pc # "none" => chunking'[i].source \in Memory!Sources
    BY <1>0, <1>2, <1>4, <1>5, <1>6 DEF JobsTyped
  <2> QED BY <1>0, <1>1, <2>1, <2>2, <2>3 DEF JobsTyped
<1>8. ASSUME NEW i \in Jobs, NEW r \in Memory!Sources
      PROVE  /\ Memory!Under(i, r)' <=> Memory!Under(i, r) \/ (i = j /\ r = s)
             /\ Memory!Under(i, r) => i # j
  BY <1>1, <1>4, <1>5, <1>6 DEF Memory!Under
<1>9. \A r \in Memory!Sources : r # s /\ Pending(r) => Pending(r)'
  BY <1>1, <1>4, <1>5, <1>6 DEF Pending, Memory!Under
<1>10. ASSUME NEW i \in Jobs PROVE JobAlone(i)'
  <2> SUFFICES ASSUME chunking'[i].pc \in {"read", "deleting", "embedding"}
               PROVE  JobAlone(i)'
    BY DEF JobAlone, Memory!Under
  <2>1. CASE i = j
    <3>1. CASE none
      <4>1. \A k \in Jobs : chunking'[k].source = s
                   /\ chunking'[k].pc \in {"read", "deleting", "embedding"} => k = j
        BY <1>2, <1>8, <3>1 DEF none, Memory!Under
      <4>2. \A k \in Jobs : chunking'[k].source = chunking'[j].source
                   /\ chunking'[k].pc \in {"read", "deleting", "embedding"} => k = j
        BY <1>4, <4>1, Zenon
      <4>3. text'[chunking'[j].source] = chunking'[j].version /\ chunking'[j].alone = TRUE
        BY <1>1, <1>4, <3>1
      <4>4. chunking'[j].pc \notin {"deleting", "embedding"} BY <1>4
      <4> QED BY <2>1, <4>2, <4>3, <4>4, Zenon DEF JobAlone, Memory!Under
    <3>2. CASE ~none
      <4>1. s \in overlapped' BY <1>1, <3>2 DEF none
      <4> QED BY <1>4, <2>1, <3>2, <4>1 DEF JobAlone
    <3> QED BY <3>1, <3>2
  <2>2. CASE i \in others
    <3>1. s \in overlapped' BY <1>1, <2>2
    <3> QED BY <1>5, <2>2, <3>1 DEF JobAlone
  <2>3. CASE i # j /\ i \notin others
    <3> DEFINE r == chunking[i].source
    <3>1. chunking'[i] = chunking[i] /\ r \in Memory!Sources /\ Memory!Under(i, r) /\ r # s
      BY <1>0, <1>6, <2>3 DEF JobsTyped, Memory!Under
    <3>2. JobAlone(i) BY DEF MemoryInv
    <3>3. \A k \in Jobs : chunking'[k].source = r
                 /\ chunking'[k].pc \in {"read", "deleting", "embedding"} => Memory!Under(k, r)
      BY <1>8, <3>1 DEF Memory!Under
    <3>4. CASE chunking[i].alone
      <4>1. /\ \A k \in Jobs : Memory!Under(k, r) => k = i
            /\ chunking[i].pc \in {"deleting", "embedding"} => chunking[i].doomed = chunks[r]
            /\ chunking[i].version = text[r] \/ r \in behind \/ Pending(r)
        BY <3>1, <3>2, <3>4 DEF JobAlone
      <4>2. Pending(r) => Pending(r)' BY <1>9, <3>1
      <4>3. \A k \in Jobs : chunking'[k].source = chunking'[i].source
                   /\ chunking'[k].pc \in {"read", "deleting", "embedding"} => k = i
        BY <3>1, <3>3, <4>1, Zenon
      <4>4. UNCHANGED <<text, chunks>> /\ (r \in behind => r \in behind') BY <1>1
      <4>5. chunking'[i].pc \in {"deleting", "embedding"}
              => chunking'[i].doomed = chunks'[chunking'[i].source]
        BY <3>1, <4>1, <4>4, Zenon
      <4>6. \/ chunking'[i].version = text'[chunking'[i].source]
            \/ chunking'[i].source \in behind'
            \/ Pending(chunking[i].source)'
        BY <3>1, <4>1, <4>2, <4>4, Zenon
      <4>7. chunking'[i].alone BY <3>1, <3>4, Zenon
      <4> QED BY <4>3, <4>5, <4>6, <4>7, Zenon DEF JobAlone, Memory!Under
    <3>5. CASE ~chunking[i].alone
      <4>1. r \in overlapped' BY <1>1, <3>1, <3>2, <3>5 DEF JobAlone
      <4> QED BY <3>1, <3>5, <4>1 DEF JobAlone
    <3> QED BY <3>4, <3>5
  <2> QED BY <2>1, <2>2, <2>3
<1>11. ASSUME NEW r \in Memory!Sources, r \notin overlapped'
       PROVE  /\ \A c, d \in chunks'[r] : c = d
              /\ r \notin behind' /\ text'[r] > 0 => Coming(r)'
  <2>1. r \notin overlapped BY <1>1, <1>11
  <2>2. \A c, d \in chunks'[r] : c = d BY <1>1, <2>1 DEF MemoryInv
  <2>3. ASSUME r \notin behind', text'[r] > 0 PROVE Coming(r)'
    <3>1. CASE r = s BY <1>1, <1>2, <1>4, <3>1 DEF Coming, Memory!Under
    <3>2. CASE r # s
      <4>1. Coming(r) BY <1>1, <2>1, <2>3 DEF MemoryInv
      <4>2. \A i \in Jobs : Memory!Under(i, r) => chunking'[i] = chunking[i]
        BY <1>6, <1>8, <3>2 DEF Memory!Under
      <4>3. CASE Pending(r) BY <1>9, <3>2, <4>3 DEF Coming
      <4>4. CASE \E i \in Jobs : Memory!Under(i, r) /\ chunking[i].version = text[r]
        BY <1>1, <1>8, <4>2, <4>4 DEF Coming
      <4>5. CASE \E c \in chunks[r] : c.version = text[r] BY <1>1, <4>5 DEF Coming
      <4> QED BY <4>1, <4>3, <4>4, <4>5 DEF Coming
    <3> QED BY <3>1, <3>2
  <2> QED BY <2>2, <2>3
<1> QED BY <1>7, <1>10, <1>11 DEF MemoryInv

\* A job of s that ends, and what it leaves in the chunks of s.
LEMMA Ending ==
    ASSUME MemoryInv, NEW j \in Jobs, Memory!Commit(j) \/ Memory!JobFails(j)
    PROVE  MemoryInv'
<1>s. PICK s : s = chunking[j].source OBVIOUS
<1> USE <1>s
<1>0. JobsTyped /\ chunking \in [Jobs -> Memory!ChunkJobs] /\ JobAlone(j)
  BY DEF MemoryInv, JobsTyped
<1>1. Memory!Under(j, s) /\ s \in Memory!Sources
  BY <1>0 DEF Memory!Commit, Memory!JobFails, Memory!Under, JobsTyped
<1>2. chunking' = [chunking EXCEPT ![j] = [chunking[j] EXCEPT !.pc = "done", !.doomed = {}]]
      /\ UNCHANGED <<text, unqueued, compaction>>
  BY <1>0 DEF Memory!Commit, Memory!JobFails
<1>3. [chunking[j] EXCEPT !.pc = "done", !.doomed = {}] \in Memory!ChunkJobs
  BY <1>0 DEF Memory!ChunkJobs
<1>4. /\ chunking' \in [Jobs -> Memory!ChunkJobs]
      /\ chunking'[j].pc = "done" /\ chunking'[j].source = s
      /\ \A i \in Jobs \ {j} : chunking'[i] = chunking[i]
  BY <1>0, <1>2, <1>3 DEF Memory!ChunkJobs
<1>5. \A r \in Memory!Sources \ {s} : chunks'[r] = chunks[r]
      /\ (r \in overlapped' <=> r \in overlapped) /\ (r \in behind' <=> r \in behind)
  BY <1>0, <1>1 DEF Memory!Commit, Memory!JobFails, JobsTyped, Memory!Under
<1>6. \A r \in Memory!Sources : Pending(r) <=> Pending(r)'
  BY <1>1, <1>2, <1>4 DEF Pending, Memory!Under
<1>7. JobsTyped'
  <2>1. chunks' \in [Memory!Sources -> SUBSET Memory!Chunks]
    <3>1. CASE Memory!JobFails(j) BY <1>0, <3>1 DEF Memory!JobFails, JobsTyped
    <3>2. CASE Memory!Commit(j)
      <4>1. [job |-> j, version |-> chunking[j].version] \in Memory!Chunks
        BY <1>0, JobFields DEF Memory!Chunks
      <4>2. chunks' = [chunks EXCEPT ![s] = (chunks[s] \ chunking[j].doomed) \cup
                                   {[job |-> j, version |-> chunking[j].version]}]
        BY <3>2, <1>0, <1>1 DEF Memory!Commit, JobsTyped
      <4>3. (chunks[s] \ chunking[j].doomed) \cup {[job |-> j, version |-> chunking[j].version]}
                \in SUBSET Memory!Chunks
        BY <1>0, <1>1, <4>1 DEF JobsTyped
      <4> QED BY <1>0, <1>1, <4>2, <4>3 DEF JobsTyped
    <3> QED BY <3>1, <3>2
  <2>2. \A i \in Jobs : chunking'[i].pc # "none" => chunking'[i].source \in Memory!Sources
    BY <1>0, <1>1, <1>4 DEF JobsTyped
  <2> QED BY <1>0, <1>2, <1>4, <2>1, <2>2 DEF JobsTyped
<1>8. ASSUME NEW i \in Jobs PROVE JobAlone(i)'
  <2> SUFFICES ASSUME chunking'[i].pc \in {"read", "deleting", "embedding"} PROVE JobAlone(i)'
    BY DEF JobAlone, Memory!Under
  <2>r. PICK r : r = chunking[i].source OBVIOUS
  <2> USE <2>r
  <2>1. i # j /\ chunking'[i] = chunking[i] BY <1>4
  <2>2. r \in Memory!Sources /\ Memory!Under(i, r) /\ JobAlone(i)
    BY <1>0, <2>1 DEF JobsTyped, Memory!Under, MemoryInv
  <2>3. \A k \in Jobs : chunking'[k].source = r
               /\ chunking'[k].pc \in {"read", "deleting", "embedding"} => Memory!Under(k, r)
    BY <1>4 DEF Memory!Under
  <2>4. CASE chunking[i].alone
    <3>1. /\ \A k \in Jobs : Memory!Under(k, r) => k = i
          /\ chunking[i].pc \in {"deleting", "embedding"} => chunking[i].doomed = chunks[r]
          /\ chunking[i].version = text[r] \/ r \in behind \/ Pending(r)
      BY <2>2, <2>4 DEF JobAlone
    <3>2. r # s BY <1>1, <2>1, <3>1
    <3>3. Pending(r) => Pending(r)' BY <1>6, <2>2
    <3> QED BY <1>2, <1>5, <2>1, <2>2, <2>3, <2>4, <3>1, <3>2, <3>3 DEF JobAlone, Memory!Under
  <2>5. CASE ~chunking[i].alone
    <3>1. r \in overlapped BY <2>2, <2>5 DEF JobAlone
    <3>2. CASE r # s BY <1>5, <2>1, <2>2, <2>5, <3>1, <3>2 DEF JobAlone
    <3>3. CASE r = s
      <4>1. ~chunking[j].alone BY <1>0, <1>1, <2>1, <2>2, <3>3 DEF JobAlone
      <4>2. overlapped' = overlapped BY <4>1 DEF Memory!Commit, Memory!JobFails
      <4> QED BY <2>1, <2>5, <3>1, <4>2 DEF JobAlone
    <3> QED BY <3>2, <3>3
  <2> QED BY <2>4, <2>5
<1>9. ASSUME NEW r \in Memory!Sources, r \notin overlapped', r # s
      PROVE  /\ \A c, d \in chunks'[r] : c = d
             /\ r \notin behind' /\ text'[r] > 0 => Coming(r)'
  <2>1. r \notin overlapped BY <1>5, <1>9
  <2>2. \A c, d \in chunks'[r] : c = d BY <1>5, <1>9, <2>1 DEF MemoryInv
  <2>3. ASSUME r \notin behind', text'[r] > 0 PROVE Coming(r)'
    <3>1. Coming(r) BY <1>2, <1>5, <1>9, <2>1, <2>3 DEF MemoryInv
    <3>2. \A i \in Jobs : Memory!Under(i, r) => i # j /\ chunking'[i] = chunking[i]
      BY <1>4, <1>9 DEF Memory!Under
    <3>3. CASE Pending(r) BY <1>6, <3>3 DEF Coming
    <3>4. CASE \E i \in Jobs : Memory!Under(i, r) /\ chunking[i].version = text[r]
      BY <1>2, <3>2, <3>4 DEF Coming, Memory!Under
    <3>5. CASE \E c \in chunks[r] : c.version = text[r] BY <1>2, <1>5, <1>9, <3>5 DEF Coming
    <3> QED BY <3>1, <3>3, <3>4, <3>5 DEF Coming
  <2> QED BY <2>2, <2>3
<1>10. ASSUME s \notin overlapped'
       PROVE  /\ \A c, d \in chunks'[s] : c = d
              /\ s \notin behind' /\ text'[s] > 0 => Coming(s)'
  <2>1. CASE Memory!JobFails(j)
    <3>1. s \in behind' /\ UNCHANGED <<chunks, overlapped>>
      BY <2>1, <1>0, <1>1 DEF Memory!JobFails, Memory!Under, JobsTyped
    <3> QED BY <1>1, <1>10, <3>1 DEF MemoryInv
  <2>2. CASE Memory!Commit(j)
    <3>1. chunking[j].alone
      <4>1. ~chunking[j].alone => overlapped' = overlapped BY <2>2 DEF Memory!Commit
      <4> QED BY <1>0, <1>1, <1>10, <4>1 DEF JobAlone
    <3>2. chunking[j].doomed = chunks[s]
          /\ (chunking[j].version = text[s] \/ s \in behind \/ Pending(s))
      BY <1>0, <1>1, <2>2, <3>1 DEF JobAlone, Memory!Commit
    <3>3. chunks'[s] = {[job |-> j, version |-> chunking[j].version]}
      BY <1>0, <1>1, <2>2, <3>2 DEF Memory!Commit, JobsTyped
    <3>4. CASE chunking[j].version = text[s] BY <1>2, <3>3, <3>4 DEF Coming
    <3>5. CASE chunking[j].version # text[s]
      <4>1. behind' = behind BY <2>2, <3>5 DEF Memory!Commit
      <4>2. s \notin behind' => Pending(s)' BY <1>1, <1>6, <3>2, <3>5, <4>1
      <4> QED BY <3>3, <4>2 DEF Coming
    <3> QED BY <3>4, <3>5
  <2> QED BY <2>1, <2>2
<1> QED BY <1>7, <1>8, <1>9, <1>10 DEF MemoryInv

LEMMA MemoryStill ==
    MemoryInv /\ UNCHANGED memoryVars => MemoryInv'
BY DEF memoryVars, MemoryInv, JobsTyped, JobAlone, Memory!Under, Pending, Coming

LEMMA MemoryAlways == Spec => []MemoryInv
<1>1. Init => MemoryInv BY MemoryInit DEF Init
<1>2. MemoryInv /\ Memory!Next => MemoryInv'
  BY Writing, Reading, Deleting, Ending DEF Memory!Next
<1>3. MemoryInv /\ [Next]_vars => MemoryInv' BY <1>2, StepOfEach, MemoryStill
<1> QED BY <1>1, <1>3, PTL DEF Spec

LEMMA MemoryIndexes == MemoryInv => Memory!IndexFresh
<1> SUFFICES ASSUME MemoryInv, NEW s \in Memory!Sources \ overlapped
             PROVE  /\ \A c, d \in chunks[s] : c = d
                    /\ Memory!Idle(s) /\ s \notin behind /\ text[s] > 0 =>
                           \E c \in chunks[s] : c.version = text[s]
  BY DEF Memory!IndexFresh
<1>1. Memory!Idle(s) => ~Pending(s) BY DEF Memory!Idle, Pending
<1>2. Memory!Idle(s) => ~ \E j \in Jobs : Memory!Under(j, s) BY DEF Memory!Idle, Memory!Under
<1> QED BY <1>1, <1>2 DEF MemoryInv, Coming

-----------------------------------------------------------------------------
(* Tool calls.                                                              *)

Running == {"completing", "calling", "nested"}

\* A task that waits for no level below has none running.
QuietBelow(t) ==
    \A d \in Research!Levels : d > t => agent[d] = "none" /\ task[d] \notin Running

ResearchInv ==
    /\ agent = [d \in Research!Levels |-> agent[d]]
    /\ task = [t \in 0 .. MaxDepth |-> task[t]]
    /\ trace = [d \in Research!Levels |-> trace[d]]
    /\ \A t \in 0 .. MaxDepth : task[t] \in {"none"} \cup Running \cup Research!Ended
    /\ \A t \in 0 .. MaxDepth : task[t] # "nested" => QuietBelow(t)
    /\ \A d \in Research!Levels :
           /\ task[d] \in Running => agent[d] \in {"racing", "unwinding"}
           /\ agent[d] \in {"gathering", "finishing"} => task[d] \in Research!Ended
           /\ agent[d] # "none" => trace[d] \in {"none", "running"}
           /\ trace[d] \in {"complete", "failed"} => task[d] \in Research!Ended
    /\ parent = "idle" => task[0] = "none" /\ trace[1] = "none"
    /\ task[0] \in Research!Ended \/ parent \in {"idle", "waiting", "stopping"}
    /\ task[0] = "result" => trace[1] # "running"
    /\ parent = "returned" => task[0] = "result"

LEMMA ResearchInit == Research!Init => ResearchInv
BY BoundsAreNumbers DEF Research!Init, ResearchInv, QuietBelow, Research!Levels, Research!Ended,
   Running

LEMMA LevelsAreNumbers ==
    /\ MaxDepth \in Nat /\ 0 \in 0 .. MaxDepth /\ 1 \in Research!Levels
    /\ \A d \in Research!Levels : d \in Nat /\ d >= 1 /\ d \in 0 .. MaxDepth /\ d - 1 \in 0 .. MaxDepth
BY BoundsAreNumbers DEF Research!Levels

\* Where a level is at work, every task above it waits for it.
LEMMA AboveNested ==
    ASSUME ResearchInv, NEW d \in Research!Levels, agent[d] # "none" \/ task[d] \in Running
    PROVE  /\ \A t \in 0 .. MaxDepth : t < d => task[t] = "nested"
           /\ task[0] = "nested" /\ task[d - 1] = "nested"
           /\ parent \in {"waiting", "stopping"}
<1>1. \A t \in 0 .. MaxDepth : t < d => task[t] = "nested" BY DEF ResearchInv, QuietBelow
<1>2. task[0] = "nested" /\ task[d - 1] = "nested" BY <1>1, LevelsAreNumbers
<1> QED BY <1>1, <1>2 DEF ResearchInv, Research!Ended

LEMMA LevelLeaves ==
    ASSUME ResearchInv, NEW d \in Research!Levels, agent[d] # "none", task[d] \notin Running,
           NEW how \in Research!Ended, Research!Leave(d, how), parent' = parent,
           NEW r, trace' = [trace EXCEPT ![d] = r],
           r \in {"complete", "failed"} => task[d] \in Research!Ended,
           how = "result" => r # "running"
    PROVE  ResearchInv'
<1> USE LevelsAreNumbers
<1>1. /\ \A t \in 0 .. MaxDepth : t < d => task[t] = "nested"
      /\ task[0] = "nested" /\ task[d - 1] = "nested"
      /\ parent \in {"waiting", "stopping"}
  BY AboveNested
<1>2. /\ agent' = [e \in Research!Levels |-> agent'[e]] /\ agent'[d] = "none"
      /\ \A e \in Research!Levels \ {d} : agent'[e] = agent[e]
  BY DEF ResearchInv, Research!Leave
<1>3. PICK x : /\ x = IF how = "result" THEN Research!AfterCall(d - 1) ELSE how
               /\ task' = [task EXCEPT ![d - 1] = x]
  BY DEF Research!Leave
<1>4. /\ x \in {"completing"} \cup Research!Ended
      /\ d = 1 => x = how
  BY <1>3 DEF Research!AfterCall, Research!Ended
<1>5. /\ task' = [t \in 0 .. MaxDepth |-> task'[t]] /\ task'[d - 1] = x
      /\ \A t \in 0 .. MaxDepth : t # d - 1 => task'[t] = task[t]
  BY <1>3 DEF ResearchInv
<1>6. /\ trace' = [e \in Research!Levels |-> trace'[e]] /\ trace'[d] = r
      /\ \A e \in Research!Levels \ {d} : trace'[e] = trace[e]
  BY DEF ResearchInv
<1>7. \A t \in 0 .. MaxDepth : task'[t] \in {"none"} \cup Running \cup Research!Ended
  BY <1>4, <1>5 DEF ResearchInv, Running
<1>8. ASSUME NEW t \in 0 .. MaxDepth, task'[t] # "nested" PROVE QuietBelow(t)'
  <2> SUFFICES ASSUME NEW e \in Research!Levels, e > t
               PROVE  agent'[e] = "none" /\ task'[e] \notin Running
    BY DEF QuietBelow
  <2>1. t >= d - 1 BY <1>1, <1>5, <1>8
  <2>2. QuietBelow(d) BY DEF ResearchInv, Running
  <2>3. e \in 0 .. MaxDepth /\ e # d - 1 BY <2>1
  <2>4. CASE e = d BY <1>2, <1>5, <2>3, <2>4
  <2>5. CASE e # d BY <1>2, <1>5, <2>1, <2>2, <2>3, <2>5 DEF QuietBelow
  <2> QED BY <2>4, <2>5
<1>9. ASSUME NEW e \in Research!Levels
      PROVE  /\ task'[e] \in Running => agent'[e] \in {"racing", "unwinding"}
             /\ agent'[e] \in {"gathering", "finishing"} => task'[e] \in Research!Ended
             /\ agent'[e] # "none" => trace'[e] \in {"none", "running"}
             /\ trace'[e] \in {"complete", "failed"} => task'[e] \in Research!Ended
  <2>1. CASE e = d
    <3>1. task'[e] = task[e] BY <1>5, <2>1
    <3> QED BY <1>2, <1>6, <2>1, <3>1
  <2>2. CASE e = d - 1
    <3>1. task[e] = "nested" /\ agent'[e] = agent[e] /\ trace'[e] = trace[e] /\ task'[e] = x
      BY <1>1, <1>2, <1>5, <1>6, <2>2
    <3> QED BY <1>4, <3>1 DEF ResearchInv, Running, Research!Ended
  <2>3. CASE e # d /\ e # d - 1 BY <1>2, <1>5, <1>6, <2>3 DEF ResearchInv
  <2> QED BY <2>1, <2>2, <2>3
<1>10. task'[0] = "result" => trace'[1] # "running"
  <2>1. CASE d = 1 BY <1>4, <1>5, <1>6, <2>1
  <2>2. CASE d # 1 BY <1>1, <1>5, <2>2
  <2> QED BY <2>1, <2>2
<1> QED BY <1>1, <1>2, <1>5, <1>6, <1>7, <1>8, <1>9, <1>10 DEF ResearchInv

LEMMA LevelStarts ==
    ASSUME ResearchInv, NEW d \in Research!Levels, agent[d] \in {"looking", "tracing"},
           Research!Race(d), parent' = parent,
           NEW r \in {"none", "running"}, trace' = [trace EXCEPT ![d] = r]
    PROVE  ResearchInv'
<1> USE LevelsAreNumbers
<1>1. /\ \A t \in 0 .. MaxDepth : t < d => task[t] = "nested"
      /\ task[0] = "nested" /\ parent \in {"waiting", "stopping"}
  BY AboveNested
<1>2. /\ agent' = [e \in Research!Levels |-> agent'[e]] /\ agent'[d] = "racing"
      /\ \A e \in Research!Levels \ {d} : agent'[e] = agent[e]
  BY DEF ResearchInv, Research!Race
<1>3. /\ task' = [t \in 0 .. MaxDepth |-> task'[t]] /\ task'[d] = "completing"
      /\ \A t \in 0 .. MaxDepth : t # d => task'[t] = task[t]
  BY DEF ResearchInv, Research!Race
<1>4. /\ trace' = [e \in Research!Levels |-> trace'[e]] /\ trace'[d] = r
      /\ \A e \in Research!Levels \ {d} : trace'[e] = trace[e]
  BY DEF ResearchInv
<1>5. \A t \in 0 .. MaxDepth : task'[t] \in {"none"} \cup Running \cup Research!Ended
  BY <1>3 DEF ResearchInv, Running
<1>6. ASSUME NEW t \in 0 .. MaxDepth, task'[t] # "nested" PROVE QuietBelow(t)'
  <2> SUFFICES ASSUME NEW e \in Research!Levels, e > t
               PROVE  agent'[e] = "none" /\ task'[e] \notin Running
    BY DEF QuietBelow
  <2>1. t >= d BY <1>1, <1>3, <1>6
  <2>2. QuietBelow(d) BY DEF ResearchInv, Running
  <2>3. e \in 0 .. MaxDepth /\ e # d BY <2>1
  <2> QED BY <1>2, <1>3, <2>1, <2>2, <2>3 DEF QuietBelow
<1>7. ASSUME NEW e \in Research!Levels
      PROVE  /\ task'[e] \in Running => agent'[e] \in {"racing", "unwinding"}
             /\ agent'[e] \in {"gathering", "finishing"} => task'[e] \in Research!Ended
             /\ agent'[e] # "none" => trace'[e] \in {"none", "running"}
             /\ trace'[e] \in {"complete", "failed"} => task'[e] \in Research!Ended
  <2>1. CASE e = d BY <1>2, <1>3, <1>4, <2>1
  <2>2. CASE e # d BY <1>2, <1>3, <1>4, <2>2 DEF ResearchInv
  <2> QED BY <2>1, <2>2
<1>8. task'[0] = "nested" BY <1>1, <1>3
<1> QED BY <1>1, <1>2, <1>3, <1>4, <1>5, <1>6, <1>7, <1>8 DEF ResearchInv, Research!Ended

LEMMA TaskGoesOn ==
    ASSUME ResearchInv, NEW d \in Research!Levels, task[d] \in {"completing", "calling"},
           NEW x \in {"completing", "calling"} \cup Research!Ended,
           task' = [task EXCEPT ![d] = x], UNCHANGED <<parent, agent, trace>>
    PROVE  ResearchInv'
<1> USE LevelsAreNumbers
<1>1. /\ \A t \in 0 .. MaxDepth : t < d => task[t] = "nested"
      /\ task[0] = "nested" /\ parent \in {"waiting", "stopping"}
  BY AboveNested DEF Running
<1>2. /\ task' = [t \in 0 .. MaxDepth |-> task'[t]] /\ task'[d] = x
      /\ \A t \in 0 .. MaxDepth : t # d => task'[t] = task[t]
  BY DEF ResearchInv
<1>3. \A t \in 0 .. MaxDepth : task'[t] \in {"none"} \cup Running \cup Research!Ended
  BY <1>2 DEF ResearchInv, Running
<1>4. ASSUME NEW t \in 0 .. MaxDepth, task'[t] # "nested" PROVE QuietBelow(t)'
  <2> SUFFICES ASSUME NEW e \in Research!Levels, e > t
               PROVE  agent'[e] = "none" /\ task'[e] \notin Running
    BY DEF QuietBelow
  <2>1. t >= d BY <1>1, <1>2, <1>4
  <2>2. QuietBelow(d) BY DEF ResearchInv
  <2> QED BY <1>2, <2>1, <2>2 DEF QuietBelow
<1>5. ASSUME NEW e \in Research!Levels
      PROVE  /\ task'[e] \in Running => agent'[e] \in {"racing", "unwinding"}
             /\ agent'[e] \in {"gathering", "finishing"} => task'[e] \in Research!Ended
             /\ agent'[e] # "none" => trace'[e] \in {"none", "running"}
             /\ trace'[e] \in {"complete", "failed"} => task'[e] \in Research!Ended
  <2>1. CASE e = d BY <1>2, <2>1 DEF ResearchInv, Running, Research!Ended
  <2>2. CASE e # d BY <1>2, <2>2 DEF ResearchInv
  <2> QED BY <2>1, <2>2
<1>6. task'[0] = "nested" BY <1>1, <1>2
<1> QED BY <1>1, <1>2, <1>3, <1>4, <1>5, <1>6 DEF ResearchInv, Research!Ended

LEMMA LevelGoesOn ==
    ASSUME ResearchInv, NEW d \in Research!Levels, agent[d] # "none",
           NEW x, x # "none", agent' = [agent EXCEPT ![d] = x],
           task[d] \in Running => x \in {"racing", "unwinding"},
           x \in {"gathering", "finishing"} => task[d] \in Research!Ended,
           UNCHANGED <<parent, task, trace>>
    PROVE  ResearchInv'
<1> USE LevelsAreNumbers
<1>1. \A t \in 0 .. MaxDepth : t < d => task[t] = "nested" BY AboveNested
<1>2. /\ agent' = [e \in Research!Levels |-> agent'[e]] /\ agent'[d] = x
      /\ \A e \in Research!Levels \ {d} : agent'[e] = agent[e]
  BY DEF ResearchInv
<1>3. ASSUME NEW t \in 0 .. MaxDepth, task'[t] # "nested" PROVE QuietBelow(t)'
  <2> SUFFICES ASSUME NEW e \in Research!Levels, e > t
               PROVE  agent'[e] = "none" /\ task'[e] \notin Running
    BY DEF QuietBelow
  <2>1. t >= d BY <1>1, <1>3
  <2>2. QuietBelow(t) BY <1>3 DEF ResearchInv
  <2> QED BY <1>2, <2>1, <2>2 DEF QuietBelow
<1>4. ASSUME NEW e \in Research!Levels
      PROVE  /\ task'[e] \in Running => agent'[e] \in {"racing", "unwinding"}
             /\ agent'[e] \in {"gathering", "finishing"} => task'[e] \in Research!Ended
             /\ agent'[e] # "none" => trace'[e] \in {"none", "running"}
             /\ trace'[e] \in {"complete", "failed"} => task'[e] \in Research!Ended
  <2>1. CASE e = d BY <1>2, <2>1 DEF ResearchInv
  <2>2. CASE e # d BY <1>2, <2>2 DEF ResearchInv
  <2> QED BY <2>1, <2>2
<1> QED BY <1>2, <1>3, <1>4 DEF ResearchInv

LEMMA TurnSteps ==
    ASSUME ResearchInv, Research!Dispatch \/ Research!Stop \/ Research!Return
    PROVE  ResearchInv'
<1> USE LevelsAreNumbers
<1>1. CASE Research!Stop \/ Research!Return
  <2>1. UNCHANGED <<agent, task, trace>> /\ parent' # "idle"
        /\ (parent' = "returned" => task[0] = "result")
        /\ (task[0] \in Research!Ended \/ parent' = "stopping")
    BY <1>1 DEF Research!Stop, Research!Return, Research!Ended
  <2> QED BY <2>1 DEF ResearchInv, QuietBelow
<1>2. CASE Research!Dispatch
  <2>1. /\ parent = "idle" /\ parent' = "waiting" /\ trace' = trace
        /\ task' = [task EXCEPT ![0] = "nested"] /\ agent' = [agent EXCEPT ![1] = "looking"]
    BY <1>2 DEF Research!Dispatch
  <2>2. task[0] = "none" /\ trace[1] = "none" /\ QuietBelow(0) BY <2>1 DEF ResearchInv
  <2>3. /\ agent' = [e \in Research!Levels |-> agent'[e]] /\ agent'[1] = "looking"
        /\ \A e \in Research!Levels \ {1} : agent'[e] = agent[e]
    BY <2>1 DEF ResearchInv
  <2>4. /\ task' = [t \in 0 .. MaxDepth |-> task'[t]] /\ task'[0] = "nested"
        /\ \A t \in 0 .. MaxDepth : t # 0 => task'[t] = task[t]
    BY <2>1 DEF ResearchInv
  <2>5. \A t \in 0 .. MaxDepth : task'[t] \in {"none"} \cup Running \cup Research!Ended
    BY <2>4 DEF ResearchInv, Running
  <2>6. ASSUME NEW t \in 0 .. MaxDepth, task'[t] # "nested" PROVE QuietBelow(t)'
    <3> SUFFICES ASSUME NEW e \in Research!Levels, e > t
                 PROVE  agent'[e] = "none" /\ task'[e] \notin Running
      BY DEF QuietBelow
    <3>1. t > 0 BY <2>4, <2>6
    <3> QED BY <2>2, <2>3, <2>4, <3>1 DEF QuietBelow
  <2>7. ASSUME NEW e \in Research!Levels
        PROVE  /\ task'[e] \in Running => agent'[e] \in {"racing", "unwinding"}
               /\ agent'[e] \in {"gathering", "finishing"} => task'[e] \in Research!Ended
               /\ agent'[e] # "none" => trace'[e] \in {"none", "running"}
               /\ trace'[e] \in {"complete", "failed"} => task'[e] \in Research!Ended
    <3>1. task'[e] = task[e] /\ task[e] \notin Running BY <2>2, <2>4 DEF QuietBelow
    <3>2. CASE e = 1 BY <2>1, <2>2, <2>3, <3>1, <3>2
    <3>3. CASE e # 1 BY <2>1, <2>3, <3>1, <3>3 DEF ResearchInv
    <3> QED BY <3>2, <3>3
  <2> QED BY <2>1, <2>2, <2>3, <2>4, <2>5, <2>6, <2>7 DEF ResearchInv
<1> QED BY <1>1, <1>2

LEMMA NestStep ==
    ASSUME ResearchInv, NEW d \in Research!Levels, Research!Nest(d)
    PROVE  ResearchInv'
<1> USE LevelsAreNumbers
<1>0. d + 1 \in Research!Levels /\ d # d + 1 /\ d + 1 # 1 BY DEF Research!Nest, Research!Levels
<1>1. /\ \A t \in 0 .. MaxDepth : t < d => task[t] = "nested"
      /\ task[0] = "nested" /\ parent \in {"waiting", "stopping"} /\ parent' = parent
      /\ task[d] = "calling"
  BY AboveNested DEF Running, Research!Nest
<1>2. /\ agent' = [e \in Research!Levels |-> agent'[e]] /\ agent'[d + 1] = "looking"
      /\ \A e \in Research!Levels \ {d + 1} : agent'[e] = agent[e]
  BY <1>0 DEF ResearchInv, Research!Nest
<1>3. /\ task' = [t \in 0 .. MaxDepth |-> task'[t]] /\ task'[d] = "nested"
      /\ \A t \in 0 .. MaxDepth : t # d => task'[t] = task[t]
  BY DEF ResearchInv, Research!Nest
<1>4. /\ trace' = [e \in Research!Levels |-> trace'[e]] /\ trace'[d + 1] = "none"
      /\ \A e \in Research!Levels \ {d + 1} : trace'[e] = trace[e]
  BY <1>0 DEF ResearchInv, Research!Nest
<1>5. \A t \in 0 .. MaxDepth : task'[t] \in {"none"} \cup Running \cup Research!Ended
  BY <1>3 DEF ResearchInv, Running
<1>6. QuietBelow(d) BY <1>1 DEF ResearchInv
<1>7. ASSUME NEW t \in 0 .. MaxDepth, task'[t] # "nested" PROVE QuietBelow(t)'
  <2> SUFFICES ASSUME NEW e \in Research!Levels, e > t
               PROVE  agent'[e] = "none" /\ task'[e] \notin Running
    BY DEF QuietBelow
  <2>1. t > d BY <1>1, <1>3, <1>7
  <2> QED BY <1>2, <1>3, <1>6, <2>1 DEF QuietBelow
<1>8. ASSUME NEW e \in Research!Levels
      PROVE  /\ task'[e] \in Running => agent'[e] \in {"racing", "unwinding"}
             /\ agent'[e] \in {"gathering", "finishing"} => task'[e] \in Research!Ended
             /\ agent'[e] # "none" => trace'[e] \in {"none", "running"}
             /\ trace'[e] \in {"complete", "failed"} => task'[e] \in Research!Ended
  <2>1. CASE e = d BY <1>0, <1>1, <1>2, <1>3, <1>4, <2>1 DEF ResearchInv, Running, Research!Ended
  <2>2. CASE e = d + 1
    <3>1. task'[e] = task[e] /\ task[e] \notin Running BY <1>0, <1>3, <1>6, <2>2 DEF QuietBelow
    <3> QED BY <1>2, <1>4, <2>2, <3>1
  <2>3. CASE e # d /\ e # d + 1 BY <1>2, <1>3, <1>4, <2>3 DEF ResearchInv
  <2> QED BY <2>1, <2>2, <2>3
<1>9. task'[0] = "nested" BY <1>1, <1>3
<1> QED BY <1>1, <1>2, <1>3, <1>4, <1>5, <1>7, <1>8, <1>9 DEF ResearchInv, Research!Ended

LEMMA LevelSteps ==
    ASSUME ResearchInv, NEW d \in Research!Levels,
           \/ Research!Look(d) \/ Research!Start(d) \/ Research!Complete(d) \/ Research!Call(d)
           \/ Research!Done(d) \/ Research!Gathered(d) \/ Research!Finish(d)
           \/ Research!CancelLoop(d) \/ Research!CancelSession(d) \/ Research!CancelRace(d)
           \/ Research!Unwound(d)
    PROVE  ResearchInv'
<1>0. /\ task[d] \in Running => agent[d] \in {"racing", "unwinding"}
      /\ agent[d] \in {"gathering", "finishing"} => task[d] \in Research!Ended
      /\ agent[d] # "none" => trace[d] \in {"none", "running"}
      /\ trace = [trace EXCEPT ![d] = trace[d]]
      /\ \A x \in Research!Ended : x \notin Running
      /\ {"result", "exception", "cancelled"} \subseteq Research!Ended
  BY DEF ResearchInv, Research!Ended, Running
<1>1. CASE Research!Look(d)
  <2>1. agent[d] = "looking" /\ parent' = parent /\ trace' = trace BY <1>1 DEF Research!Look
  <2>2. CASE agent' = [agent EXCEPT ![d] = "tracing"] /\ UNCHANGED task
    BY <1>0, <2>1, <2>2, LevelGoesOn
  <2>3. CASE Research!Race(d) BY <1>0, <2>1, <2>3, LevelStarts
  <2>4. CASE Research!Leave(d, "exception") BY <1>0, <2>1, <2>4, LevelLeaves
  <2> QED BY <1>1, <2>2, <2>3, <2>4 DEF Research!Look
<1>2. CASE Research!Start(d)
  <2>1. agent[d] = "tracing" /\ parent' = parent BY <1>2 DEF Research!Start
  <2>2. CASE trace' = [trace EXCEPT ![d] = "running"] /\ Research!Race(d)
    BY <2>1, <2>2, LevelStarts
  <2>3. CASE Research!Leave(d, "exception") /\ trace' = trace BY <1>0, <2>1, <2>3, LevelLeaves
  <2> QED BY <1>2, <2>2, <2>3 DEF Research!Start
<1>3. CASE Research!Complete(d)
  BY <1>3, TaskGoesOn DEF Research!Complete, Research!Ended
<1>4. CASE Research!Call(d)
  BY <1>4, TaskGoesOn DEF Research!Call, Research!AfterCall, Research!Ended
<1>5. CASE Research!Done(d)
  BY <1>0, <1>5, LevelGoesOn DEF Research!Done
<1>6. CASE Research!Gathered(d)
  <2>1. agent[d] = "gathering" /\ parent' = parent /\ trace' = trace BY <1>6 DEF Research!Gathered
  <2>2. CASE trace[d] = "none"
    <3>1. Research!Leave(d, "result") BY <1>6, <2>2 DEF Research!Gathered
    <3> QED BY <1>0, <2>1, <2>2, <3>1, LevelLeaves
  <2>3. CASE trace[d] # "none"
    <3>1. agent' = [agent EXCEPT ![d] = "finishing"] /\ UNCHANGED task
      BY <1>6, <2>3 DEF Research!Gathered
    <3> QED BY <1>0, <2>1, <3>1, LevelGoesOn
  <2> QED BY <2>2, <2>3
<1>7. CASE Research!Finish(d)
  <2>1. agent[d] = "finishing" /\ parent' = parent BY <1>7 DEF Research!Finish
  <2>2. ASSUME NEW r, r = IF task[d] = "result" THEN "complete" ELSE "failed",
               trace' = [trace EXCEPT ![d] = r], Research!Leave(d, "result")
        PROVE  ResearchInv'
    <3>1. r # "running" BY <2>2
    <3> QED BY <1>0, <2>1, <2>2, <3>1, LevelLeaves
  <2>3. CASE Research!Leave(d, "exception") /\ trace' = trace BY <1>0, <2>1, <2>3, LevelLeaves
  <2> QED BY <1>7, <2>2, <2>3 DEF Research!Finish
<1>8. CASE Research!CancelLoop(d)
  BY <1>0, <1>8, TaskGoesOn DEF Research!CancelLoop
<1>9. CASE Research!CancelSession(d)
  <2>1. /\ Research!Leave(d, "cancelled") /\ parent' = parent
        /\ agent[d] \in {"looking", "tracing", "finishing"}
    BY <1>9 DEF Research!CancelSession
  <2>2. PICK r : /\ trace' = [trace EXCEPT ![d] = r]
                 /\ r \in {"complete", "failed"} => task[d] \in Research!Ended
    BY <1>0, <1>9 DEF Research!CancelSession
  <2> QED BY <1>0, <2>1, <2>2, LevelLeaves
<1>10. CASE Research!CancelRace(d)
  BY <1>0, <1>10, LevelGoesOn DEF Research!CancelRace
<1>11. CASE Research!Unwound(d)
  <2>1. Research!Leave(d, "cancelled") /\ parent' = parent /\ trace' = trace
        /\ agent[d] = "unwinding" /\ task[d] \in Research!Ended
    BY <1>11 DEF Research!Unwound
  <2> QED BY <1>0, <2>1, LevelLeaves
<1> QED BY <1>1, <1>2, <1>3, <1>4, <1>5, <1>6, <1>7, <1>8, <1>9, <1>10, <1>11

LEMMA ResearchStill == ResearchInv /\ UNCHANGED researchVars => ResearchInv'
BY DEF researchVars, ResearchInv, QuietBelow

LEMMA ResearchAlways == Spec => []ResearchInv
<1>1. Init => ResearchInv BY ResearchInit DEF Init
<1>2. ResearchInv /\ Research!Next => ResearchInv'
  BY TurnSteps, NestStep, LevelSteps DEF Research!Next
<1>3. ResearchInv /\ [Next]_vars => ResearchInv' BY <1>2, StepOfEach, ResearchStill
<1> QED BY <1>1, <1>3, PTL DEF Spec

LEMMA ResearchJoins == ResearchInv => Research!Joined
<1> SUFFICES ASSUME ResearchInv PROVE Research!Joined OBVIOUS
<1> USE LevelsAreNumbers
<1>1. ASSUME parent \in {"idle", "returned", "interrupted", "raised"},
             NEW d \in Research!Levels
      PROVE  agent[d] = "none" /\ task[d] \in Research!Ended \cup {"none"}
  <2>1. task[0] # "nested" BY <1>1 DEF ResearchInv, Research!Ended
  <2>2. QuietBelow(0) BY <2>1 DEF ResearchInv
  <2>3. d \in 0 .. MaxDepth /\ d > 0 OBVIOUS
  <2>4. agent[d] = "none" /\ task[d] \notin Running BY <2>2, <2>3, Zenon DEF QuietBelow
  <2>5. task[d] \in {"none"} \cup Running \cup Research!Ended BY <2>3, Zenon DEF ResearchInv
  <2> QED BY <2>4, <2>5, Zenon
<1>2. ASSUME NEW d \in Research!Levels, trace[d] \in {"complete", "failed"}
      PROVE  agent[d] = "none" /\ task[d] \in Research!Ended
  BY <1>2 DEF ResearchInv
<1>3. parent = "returned" => trace[1] # "running" BY DEF ResearchInv
<1> QED BY <1>1, <1>2, <1>3 DEF Research!Joined

-----------------------------------------------------------------------------
(* Notes.                                                                   *)

\* The committed rows: one per path, of a request that has ended.
RowsStand ==
    /\ \A n \in Writers : notes[n] # None => write[n].pc = "done"
    /\ \A n, m \in Writers : notes[n] # None /\ notes[m] # None /\ notes[n].path = notes[m].path
                                => n = m

\* A call that creates has no row yet; one that edits has the path of its row.
CallOf(w) ==
    LET c == write[w] IN
    /\ c.pc \in {"idle", "probing"} => c.base = None
    /\ c.pc \in {"probing"} \cup NoteFiles!Holding =>
           /\ c.path # 0 /\ c.new \in NoteFiles!Texts
           /\ IF c.base = None
              THEN c.note = w
              ELSE c.note \in Writers /\ notes[c.note] # None /\ c.path = notes[c.note].path

\* An INSERT that has not ended keeps every other one from its path.
InsertedOnce ==
    \A w \in Writers : write[w].pc = "flushed" /\ write[w].base = None =>
        /\ NoteFiles!Free(write[w].path)
        /\ \A v \in Writers : write[v].pc = "flushed" /\ write[v].base = None
                                 /\ write[v].path = write[w].path => v = w

Written(c) == [id |-> c.note, title |-> c.new.title, body |-> c.new.body]

\* A call that is alone with its path knows its row, and its file once written.
CallAlone(w) ==
    LET c == write[w] IN
    c.pc \in NoteFiles!Holding =>
        IF c.alone
        THEN /\ NoteFiles!Others(w, c.path) = {}
             /\ IF c.base = None
                THEN NoteFiles!Free(c.path)
                ELSE c.base = [title |-> notes[c.note].title, body |-> notes[c.note].body]
             /\ c.pc # "writing" => c.path \in DOMAIN files /\ files[c.path] = Written(c)
        ELSE c.path \in loose

NotesInv ==
    /\ write \in [Writers -> NoteFiles!WriteRecords]
    /\ notes \in [Writers -> NoteFiles!Rows \cup {None}]
    /\ RowsStand
    /\ \A w \in Writers : CallOf(w)
    /\ InsertedOnce
    /\ \A w \in Writers : CallAlone(w)
    /\ NoteFiles!NotesAgree

LEMMA NotesInit == Init => NotesInv
<1> SUFFICES ASSUME Init PROVE NotesInv OBVIOUS
<1> USE DEF Init, NoteFiles!Init
<1>1. write \in [Writers -> NoteFiles!WriteRecords] BY DEF NoteFiles!WriteRecords
<1>2. notes \in [Writers -> NoteFiles!Rows \cup {None}] OBVIOUS
<1>3. \A w \in Writers : notes[w] = None /\ write[w].pc = "idle" /\ write[w].base = None OBVIOUS
<1> QED
  BY <1>1, <1>2, <1>3
     DEF NotesInv, RowsStand, CallOf, InsertedOnce, CallAlone, NoteFiles!Holding,
         NoteFiles!NotesAgree

LEMMA NoRowIsNone ==
    /\ \A x \in NoteFiles!Rows : x # None
    /\ \A x \in NoteFiles!Texts : x # None
<1>1. NoteFiles!Rows \subseteq [path : Nat, title : Titles, body : Bodies]
  BY DEF NoteFiles!Rows, NoteFiles!Paths
<1> QED BY <1>1, NotesAssumption DEF NoteFiles!Texts

CallSteps == {"idle", "probing", "writing", "flushing", "flushed", "done"}

\* What a call knows of itself.
LEMMA CallFields ==
    ASSUME NotesInv, NEW w \in Writers
    PROVE  /\ write[w] \in NoteFiles!WriteRecords /\ write[w].path \in Nat
           /\ write[w].alone \in BOOLEAN
           /\ write[w].pc \in CallSteps
           /\ write[w].base \in NoteFiles!Texts \cup {None}
           /\ notes[w] # None => notes[w] \in NoteFiles!Rows
           /\ CallOf(w) /\ CallAlone(w)
<1>1. /\ write \in [Writers -> NoteFiles!WriteRecords]
      /\ notes \in [Writers -> NoteFiles!Rows \cup {None}]
      /\ CallOf(w) /\ CallAlone(w)
  BY Zenon DEF NotesInv
<1>2. write[w] \in NoteFiles!WriteRecords BY <1>1, Zenon
<1>3. notes[w] # None => notes[w] \in NoteFiles!Rows
  <2>1. notes[w] \in NoteFiles!Rows \cup {None} BY <1>1, Zenon
  <2> QED BY <2>1, Zenon
<1>4. /\ write[w].path \in Nat /\ write[w].alone \in BOOLEAN /\ write[w].pc \in CallSteps
      /\ write[w].base \in NoteFiles!Texts \cup {None}
  BY <1>2, Zenon DEF NoteFiles!WriteRecords, CallSteps
<1> QED BY <1>1, <1>2, <1>3, <1>4, Zenon

\* d is the record c at another step.
IsAt(d, c, x) ==
    /\ d \in NoteFiles!WriteRecords /\ d.pc = x
    /\ d.note = c.note /\ d.path = c.path /\ d.base = c.base
    /\ d.new = c.new /\ d.alone = c.alone

LEMMA CallAt ==
    ASSUME NEW c \in NoteFiles!WriteRecords, NEW x \in CallSteps
    PROVE  IsAt([c EXCEPT !.pc = x], c, x)
<1> DEFINE Noted0 == Writers \cup {None}
           Text0 == NoteFiles!Texts \cup {None}
<1>1. /\ c \in [pc : CallSteps, note : Noted0, path : Nat, base : Text0,
                new : Text0, alone : BOOLEAN]
  BY Zenon DEF NoteFiles!WriteRecords, CallSteps
<1> HIDE DEF Noted0, Text0
<1> DEFINE d == [c EXCEPT !.pc = x]
<1>2. /\ d \in [pc : CallSteps, note : Noted0, path : Nat, base : Text0,
                new : Text0, alone : BOOLEAN]
      /\ d.pc = x /\ d.note = c.note /\ d.path = c.path /\ d.base = c.base
      /\ d.new = c.new /\ d.alone = c.alone
  BY <1>1
<1>3. d \in NoteFiles!WriteRecords BY <1>2, Zenon DEF NoteFiles!WriteRecords, CallSteps, Noted0, Text0
<1> QED BY <1>2, <1>3, Zenon DEF IsAt

Gone(w, x) ==
    /\ write' \in [Writers -> NoteFiles!WriteRecords]
    /\ write'[w].pc = x /\ write'[w].note = write[w].note
    /\ write'[w].path = write[w].path /\ write'[w].base = write[w].base
    /\ write'[w].new = write[w].new /\ write'[w].alone = write[w].alone
    /\ \A v \in Writers \ {w} : write'[v] = write[v]

LEMMA CallGoes ==
    ASSUME NotesInv, NEW w \in Writers, NEW x \in CallSteps, NoteFiles!Go(w, x)
    PROVE  Gone(w, x)
<1>1. write \in [Writers -> NoteFiles!WriteRecords] /\ write[w] \in NoteFiles!WriteRecords
  BY Zenon DEF NotesInv
<1> DEFINE d == [write[w] EXCEPT !.pc = x]
<1>2. write' = [write EXCEPT ![w] = d] BY <1>1 DEF NoteFiles!Go
<1>3. IsAt(d, write[w], x) BY <1>1, CallAt, Zenon
<1> HIDE DEF d
<1>4. d \in NoteFiles!WriteRecords BY <1>3, Zenon DEF IsAt
<1>5. write' \in [Writers -> NoteFiles!WriteRecords] /\ write'[w] = d
      /\ \A v \in Writers \ {w} : write'[v] = write[v]
  BY <1>1, <1>2, <1>4
<1> QED BY <1>3, <1>5, Zenon DEF Gone, IsAt

\* A call that goes on with its path in hand.
LEMMA CallContinues ==
    ASSUME NotesInv, NEW w \in Writers, NEW x \in {"flushing", "flushed"},
           write[w].pc \in {"writing", "flushing"}, NoteFiles!Go(w, x),
           UNCHANGED <<notes, loose>>,
           x = "flushed" => write[w].pc = "flushing" /\ files' = files,
           x = "flushing" => NoteFiles!Stored(write[w].path, Written(write[w])),
           x = "flushed" /\ write[w].base = None =>
               /\ NoteFiles!Free(write[w].path)
               /\ \A v \in Writers \ {w} : write[v].pc = "flushed" /\ write[v].base = None
                      => write[v].path # write[w].path
    PROVE  NotesInv'
<1> DEFINE p == write[w].path
<1>1. /\ write' \in [Writers -> NoteFiles!WriteRecords]
      /\ write'[w].pc = x /\ write'[w].note = write[w].note
      /\ write'[w].path = p /\ write'[w].base = write[w].base
      /\ write'[w].new = write[w].new /\ write'[w].alone = write[w].alone
      /\ \A v \in Writers \ {w} : write'[v] = write[v]
  <2>1. x \in CallSteps BY DEF CallSteps
  <2>2. Gone(w, x) BY <2>1, CallGoes, Zenon
  <2> QED BY <2>2, Zenon DEF Gone
<1>2. RowsStand' BY <1>1 DEF NotesInv, RowsStand
<1>3. \A v \in Writers : CallOf(v)' BY <1>1 DEF NotesInv, CallOf, NoteFiles!Holding
<1>4. InsertedOnce' BY <1>1 DEF NotesInv, InsertedOnce, NoteFiles!Free
<1>5. /\ \A q \in DOMAIN files : q \in DOMAIN files' /\ (q # p => files'[q] = files[q])
      /\ x = "flushing" => p \in DOMAIN files' /\ files'[p] = Written(write[w])
  BY DEF NoteFiles!Stored
<1>6. ASSUME NEW v \in Writers, NEW q
      PROVE  NoteFiles!Others(v, q)' = NoteFiles!Others(v, q)
  BY <1>1 DEF NoteFiles!Others, NoteFiles!Holding
<1>7. ASSUME NEW v \in Writers PROVE CallAlone(v)'
  <2>1. CASE v = w
    <3>1. CASE write[w].alone
      <4>1. /\ NoteFiles!Others(w, p) = {}
            /\ IF write[w].base = None
               THEN NoteFiles!Free(p)
               ELSE write[w].base = [title |-> notes[write[w].note].title,
                                     body |-> notes[write[w].note].body]
            /\ write[w].pc # "writing" => p \in DOMAIN files /\ files[p] = Written(write[w])
        BY <3>1, CallFields DEF CallAlone, NoteFiles!Holding
      <4>2. p \in DOMAIN files' /\ files'[p] = Written(write[w]) BY <1>5, <4>1
      <4>3. NoteFiles!Others(w, p)' = {}
        <5>1. {u \in Writers \ {w} : write[u].pc \in NoteFiles!Holding /\ write[u].path = p} = {}
          BY <4>1 DEF NoteFiles!Others
        <5>2. {u \in Writers \ {w} : write'[u].pc \in NoteFiles!Holding /\ write'[u].path = p} = {}
          BY <1>1, <5>1
        <5> QED BY <1>1, <5>2 DEF NoteFiles!Others, NoteFiles!Holding
      <4> QED BY <1>1, <2>1, <3>1, <4>1, <4>2, <4>3, ZenonT(40)
                 DEF CallAlone, Written, NoteFiles!Free, NoteFiles!Others, NoteFiles!Holding
    <3>2. CASE ~write[w].alone
      <4>1. p \in loose BY <3>2, CallFields DEF CallAlone, NoteFiles!Holding
      <4> QED BY <1>1, <2>1, <3>2, <4>1 DEF CallAlone
    <3> QED BY <3>1, <3>2
  <2>2. CASE v # w
    <3>1. write'[v] = write[v] BY <1>1, <2>2
    <3>2. CASE write[v].pc \in NoteFiles!Holding /\ write[v].alone
      <4>1. write[v].path # p
        BY <2>2, <3>2, CallFields DEF CallAlone, NoteFiles!Others, NoteFiles!Holding
      <4> QED BY SMTT(20), <1>5, <1>6, <3>1, <3>2, <4>1, CallFields DEF CallAlone, Written, NoteFiles!Free
    <3>3. CASE ~(write[v].pc \in NoteFiles!Holding /\ write[v].alone)
      BY <3>1, <3>3, CallFields DEF CallAlone
    <3> QED BY <3>2, <3>3
  <2> QED BY <2>1, <2>2
<1>8. NoteFiles!NotesAgree'
  <2> SUFFICES ASSUME NEW n \in Writers, notes[n] # None,
                      \A v \in Writers : write'[v].path = notes[n].path
                          => write'[v].pc \notin {"flushing", "flushed"},
                      notes[n].path \notin loose
               PROVE  /\ notes[n].path \in DOMAIN files'
                      /\ files'[notes[n].path] =
                             [id |-> n, title |-> notes[n].title, body |-> notes[n].body]
    BY DEF NoteFiles!NotesAgree, NoteFiles!Settled
  <2>1. notes[n].path # p BY <1>1
  <2>2. NoteFiles!Settled(notes[n].path) BY <1>1, <2>1 DEF NoteFiles!Settled
  <2> QED BY <1>5, <2>1, <2>2 DEF NotesInv, NoteFiles!NotesAgree
<1> QED BY <1>1, <1>2, <1>3, <1>4, <1>7, <1>8 DEF NotesInv

\* A call that ends without a row: what it left in the file is of a path that
\* has no row yet, or of a loose one.
LEMMA CallGivesUp ==
    ASSUME NotesInv, NEW w \in Writers, write[w].pc \in NoteFiles!Holding,
           NoteFiles!Go(w, "done"), notes' = notes, loose \subseteq loose',
           write[w].base # None \/ ~write[w].alone => write[w].path \in loose',
           files' = files \/ NoteFiles!Stored(write[w].path, Torn)
    PROVE  NotesInv'
<1> DEFINE p == write[w].path
<1>1. /\ write' \in [Writers -> NoteFiles!WriteRecords] /\ write'[w].pc = "done" /\ write'[w].path = p
      /\ \A v \in Writers \ {w} : write'[v] = write[v]
  <2>1. "done" \in CallSteps BY DEF CallSteps
  <2>2. Gone(w, "done") BY <2>1, CallGoes, Zenon
  <2> QED BY <2>2, Zenon DEF Gone
<1>2. RowsStand' BY <1>1 DEF NotesInv, RowsStand
<1>3. \A v \in Writers : CallOf(v)' BY <1>1 DEF NotesInv, CallOf, NoteFiles!Holding
<1>4. InsertedOnce' BY <1>1 DEF NotesInv, InsertedOnce, NoteFiles!Free
<1>5. \A q \in DOMAIN files : q \in DOMAIN files' /\ (q # p => files'[q] = files[q])
  BY DEF NoteFiles!Stored
<1>6. ASSUME NEW v \in Writers PROVE CallAlone(v)'
  <2>1. CASE v = w BY <1>1, <2>1 DEF CallAlone, NoteFiles!Holding
  <2>2. CASE v # w
    <3>1. write'[v] = write[v] BY <1>1, <2>2
    <3>2. CASE write[v].pc \in NoteFiles!Holding /\ write[v].alone
      <4>1. write[v].path # p /\ NoteFiles!Others(v, write[v].path) = {}
        BY <2>2, <3>2, CallFields DEF CallAlone, NoteFiles!Others
      <4>2. NoteFiles!Others(v, write[v].path)' = {}
        BY <1>1, <3>1, <4>1 DEF NoteFiles!Others, NoteFiles!Holding
      <4> QED BY <1>5, <3>1, <3>2, <4>1, <4>2, CallFields DEF CallAlone, Written, NoteFiles!Free
    <3>3. CASE ~(write[v].pc \in NoteFiles!Holding /\ write[v].alone)
      BY <3>1, <3>3, CallFields DEF CallAlone
    <3> QED BY <3>2, <3>3
  <2> QED BY <2>1, <2>2
<1>7. NoteFiles!NotesAgree'
  <2> SUFFICES ASSUME NEW n \in Writers, notes[n] # None,
                      \A v \in Writers : write'[v].path = notes[n].path
                          => write'[v].pc \notin {"flushing", "flushed"},
                      notes[n].path \notin loose'
               PROVE  /\ notes[n].path \in DOMAIN files'
                      /\ files'[notes[n].path] =
                             [id |-> n, title |-> notes[n].title, body |-> notes[n].body]
    BY DEF NoteFiles!NotesAgree, NoteFiles!Settled
  <2>1. notes[n].path # p
    <3>1. SUFFICES ASSUME notes[n].path = p PROVE FALSE OBVIOUS
    <3>2. write[w].base = None /\ write[w].alone BY <3>1
    <3> QED BY <3>1, <3>2, CallFields DEF CallAlone, NoteFiles!Free
  <2>2. NoteFiles!Settled(notes[n].path) BY <1>1, <2>1 DEF NoteFiles!Settled
  <2> QED BY <1>5, <2>1, <2>2 DEF NotesInv, NoteFiles!NotesAgree
<1> QED BY <1>1, <1>2, <1>3, <1>4, <1>6, <1>7 DEF NotesInv

\* A call that takes a path in hand.
LEMMA PathTakes ==
    ASSUME NotesInv, NEW w \in Writers, NEW c \in NoteFiles!WriteRecords, NoteFiles!Takes(w, c),
           write[w].pc \in {"idle", "probing"}, c.path # 0, c.new \in NoteFiles!Texts,
           IF c.base = None
           THEN c.note = w /\ NoteFiles!Free(c.path)
           ELSE /\ c.note \in Writers /\ notes[c.note] # None /\ c.path = notes[c.note].path
                /\ c.base = [title |-> notes[c.note].title, body |-> notes[c.note].body]
    PROVE  NotesInv'
<1> DEFINE p == c.path
           others == NoteFiles!Others(w, p)
           none == others = {}
<1>1. /\ write' = [v \in Writers |->
                      IF v = w THEN [c EXCEPT !.pc = "writing", !.alone = none]
                      ELSE IF v \in others THEN [write[v] EXCEPT !.alone = FALSE]
                      ELSE write[v]]
      /\ loose' = IF none THEN loose ELSE loose \cup {p}
      /\ UNCHANGED <<notes, files>>
  BY DEF NoteFiles!Takes
<1>2. [c EXCEPT !.pc = "writing", !.alone = none] \in NoteFiles!WriteRecords
  <2>1. none \in BOOLEAN OBVIOUS
  <2> HIDE DEF none
  <2> QED BY <2>1 DEF NoteFiles!WriteRecords
<1>3. /\ write'[w].pc = "writing" /\ write'[w].note = c.note /\ write'[w].path = p
      /\ write'[w].base = c.base /\ write'[w].new = c.new /\ write'[w].alone = none
  <2>1. write'[w] = [c EXCEPT !.pc = "writing", !.alone = none] BY <1>1
  <2> HIDE DEF none
  <2> QED BY <2>1 DEF NoteFiles!WriteRecords
<1>4. ASSUME NEW v \in others
      PROVE  /\ write'[v].pc = write[v].pc /\ write'[v].note = write[v].note
             /\ write'[v].path = write[v].path /\ write'[v].base = write[v].base
             /\ write'[v].new = write[v].new /\ write'[v].alone = FALSE
             /\ write'[v] \in NoteFiles!WriteRecords
  <2>1. v \in Writers \ {w} BY DEF NoteFiles!Others
  <2>2. write'[v] = [write[v] EXCEPT !.alone = FALSE] BY <1>1, <2>1
  <2> QED BY <2>1, <2>2, CallFields DEF NoteFiles!WriteRecords
<1>5. \A v \in Writers \ {w} : v \notin others => write'[v] = write[v] BY <1>1
<1>6. \A v \in Writers \ {w} :
          /\ write'[v].pc = write[v].pc /\ write'[v].note = write[v].note
          /\ write'[v].path = write[v].path /\ write'[v].base = write[v].base
          /\ write'[v].new = write[v].new
  BY <1>4, <1>5
<1>7. write' \in [Writers -> NoteFiles!WriteRecords]
  <2>1. ASSUME NEW v \in Writers PROVE write'[v] \in NoteFiles!WriteRecords
    <3>1. CASE v = w BY <1>1, <1>2, <3>1
    <3>2. CASE v # w BY <1>4, <1>5, <3>2, CallFields
    <3> QED BY <3>1, <3>2
  <2>2. write' = [v \in Writers |-> write'[v]] BY <1>1
  <2> QED BY <2>1, <2>2
<1>8. \A v \in others : v \in Writers \ {w} /\ write[v].pc \in NoteFiles!Holding
                        /\ write[v].path = p
  BY DEF NoteFiles!Others
<1>9. \A v \in Writers \ {w} : write[v].pc \in NoteFiles!Holding /\ write[v].path = p
                        => v \in others
  BY DEF NoteFiles!Others
<1> HIDE DEF none, others
<1>10. RowsStand' BY <1>1, <1>3, <1>6 DEF NotesInv, RowsStand
<1>11. ASSUME NEW v \in Writers PROVE CallOf(v)'
  <2>1. CASE v = w BY <1>1, <1>3, <2>1 DEF CallOf, NoteFiles!Holding
  <2>2. CASE v # w BY <1>1, <1>6, <2>2, CallFields DEF CallOf
  <2> QED BY <2>1, <2>2
<1>12. InsertedOnce'
  <2> SUFFICES ASSUME NEW v \in Writers, write'[v].pc = "flushed", write'[v].base = None
               PROVE  /\ \A m \in Writers : notes'[m] # None => notes'[m].path # write'[v].path
                      /\ \A u \in Writers : write'[u].pc = "flushed" /\ write'[u].base = None
                             /\ write'[u].path = write'[v].path => u = v
    BY DEF InsertedOnce, NoteFiles!Free
  <2>1. v # w BY <1>3
  <2>2. write[v].pc = "flushed" /\ write[v].base = None /\ write'[v].path = write[v].path
    BY <1>6, <2>1
  <2>3. /\ NoteFiles!Free(write[v].path)
        /\ \A u \in Writers : write[u].pc = "flushed" /\ write[u].base = None
               /\ write[u].path = write[v].path => u = v
    BY <2>2 DEF NotesInv, InsertedOnce
  <2>4. \A u \in Writers : write'[u].pc = "flushed" => u # w BY <1>3
  <2> QED BY <1>1, <1>6, <2>2, <2>3, <2>4 DEF NoteFiles!Free
<1>13. ASSUME NEW v \in Writers PROVE CallAlone(v)'
  <2>1. CASE v = w
    <3>1. CASE none
      <4>1. \A u \in Writers \ {w} : ~(write'[u].pc \in NoteFiles!Holding
                                       /\ write'[u].path = write'[w].path)
        BY <1>3, <1>6, <1>9, <3>1 DEF none
      <4>2. c.base = None => NoteFiles!Free(p) OBVIOUS
      <4>3. c.base # None => c.base = [title |-> notes[c.note].title, body |-> notes[c.note].body]
        OBVIOUS
      <4>4. NoteFiles!Others(w, write[w].path)' = {} BY <4>1, Zenon DEF NoteFiles!Others
      <4>5. NoteFiles!Free(p)' <=> NoteFiles!Free(p) BY <1>1, Zenon DEF NoteFiles!Free
      <4> QED BY <1>1, <1>3, <2>1, <3>1, <4>2, <4>3, <4>4, <4>5 DEF CallAlone
    <3>2. CASE ~none
      <4>1. p \in loose' BY <1>1, <3>2
      <4> QED BY <1>3, <2>1, <3>2, <4>1 DEF CallAlone
    <3> QED BY <3>1, <3>2
  <2>2. CASE v \in others
    <3>1. ~none BY <2>2 DEF none
    <3>2. p \in loose' BY <1>1, <3>1
    <3> QED BY <1>4, <1>8, <2>2, <3>2 DEF CallAlone
  <2>3. CASE v # w /\ v \notin others
    <3>1. write'[v] = write[v] BY <1>5, <2>3
    <3>2. CASE write[v].pc \in NoteFiles!Holding /\ write[v].alone
      <4>1. write[v].path # p /\ NoteFiles!Others(v, write[v].path) = {}
        BY <1>9, <2>3, <3>2, CallFields DEF CallAlone
      <4>2. \A u \in Writers \ {v} : write'[u].pc \in NoteFiles!Holding
                => write'[u].path # write[v].path
        BY <1>3, <1>6, <4>1 DEF NoteFiles!Others
      <4>3. NoteFiles!Others(v, write[v].path)' = {}
        BY <3>1, <4>2, Zenon DEF NoteFiles!Others
      <4>4. /\ IF write[v].base = None
               THEN NoteFiles!Free(write[v].path)
               ELSE write[v].base = [title |-> notes[write[v].note].title,
                                     body |-> notes[write[v].note].body]
            /\ write[v].pc # "writing" => /\ write[v].path \in DOMAIN files
                                          /\ files[write[v].path] = Written(write[v])
        BY <3>2, CallFields, Zenon DEF CallAlone
      <4>5. UNCHANGED <<notes, files>> BY <1>1
      <4> QED BY <3>1, <3>2, <4>3, <4>4, <4>5 DEF CallAlone, Written, NoteFiles!Free
    <3>3. CASE ~(write[v].pc \in NoteFiles!Holding /\ write[v].alone)
      <4>1. loose \subseteq loose' BY <1>1
      <4> QED BY <3>1, <3>3, <4>1, CallFields DEF CallAlone
    <3> QED BY <3>2, <3>3
  <2> QED BY <2>1, <2>2, <2>3
<1>14. NoteFiles!NotesAgree'
  <2> SUFFICES ASSUME NEW n \in Writers, notes[n] # None,
                      \A v \in Writers : write'[v].path = notes[n].path
                          => write'[v].pc \notin {"flushing", "flushed"},
                      notes[n].path \notin loose'
               PROVE  /\ notes[n].path \in DOMAIN files
                      /\ files[notes[n].path] =
                             [id |-> n, title |-> notes[n].title, body |-> notes[n].body]
    BY <1>1 DEF NoteFiles!NotesAgree, NoteFiles!Settled
  <2>1. NoteFiles!Settled(notes[n].path) BY <1>6 DEF NoteFiles!Settled
  <2>2. notes[n].path \notin loose BY <1>1
  <2> QED BY <2>1, <2>2 DEF NotesInv, NoteFiles!NotesAgree
<1> QED BY <1>1, <1>7, <1>10, <1>11, <1>12, <1>13, <1>14 DEF NotesInv

\* A call that has no path in hand yet.
LEMMA CallSeeks ==
    ASSUME NotesInv, NEW w \in Writers, NEW c \in NoteFiles!WriteRecords,
           write[w].pc \in {"idle", "probing"}, write' = [write EXCEPT ![w] = c],
           c.pc = "probing", c.base = None, c.note = w, c.path # 0, c.new \in NoteFiles!Texts,
           UNCHANGED <<notes, files, loose>>
    PROVE  NotesInv'
<1>1. /\ write' \in [Writers -> NoteFiles!WriteRecords] /\ write'[w] = c
      /\ \A v \in Writers \ {w} : write'[v] = write[v]
  BY DEF NotesInv
<1>2. RowsStand' BY <1>1 DEF NotesInv, RowsStand
<1>3. \A v \in Writers : CallOf(v)' BY <1>1 DEF NotesInv, CallOf, NoteFiles!Holding
<1>4. InsertedOnce' BY <1>1 DEF NotesInv, InsertedOnce, NoteFiles!Free
<1>5. \A v \in Writers, q \in Nat : NoteFiles!Others(v, q)' = NoteFiles!Others(v, q)
  BY <1>1 DEF NoteFiles!Others, NoteFiles!Holding
<1>6. ASSUME NEW v \in Writers PROVE CallAlone(v)'
  <2>1. CASE v = w BY <1>1, <2>1 DEF CallAlone, NoteFiles!Holding
  <2>2. CASE v # w
    <3>1. write'[v] = write[v] /\ write[v].path \in Nat BY <1>1, <2>2, CallFields
    <3> QED BY <1>5, <3>1, CallFields DEF CallAlone, Written, NoteFiles!Free
  <2> QED BY <2>1, <2>2
<1>7. NoteFiles!NotesAgree'
  <2>1. \A n \in Writers : NoteFiles!Settled(notes[n].path)' => NoteFiles!Settled(notes[n].path)
    BY <1>1 DEF NoteFiles!Settled
  <2> QED BY <2>1 DEF NotesInv, NoteFiles!NotesAgree
<1> QED BY <1>1, <1>2, <1>3, <1>4, <1>6, <1>7 DEF NotesInv

LEMMA CallCommits ==
    ASSUME NotesInv, NEW w \in Writers, NoteFiles!Commit(w)
    PROVE  NotesInv'
<1>c. PICK c : c = write[w] OBVIOUS
<1> USE <1>c
<1>0. /\ c \in NoteFiles!WriteRecords /\ c.pc = "flushed" /\ CallOf(w) /\ CallAlone(w) /\ files' = files
      /\ loose' = (IF c.alone THEN loose \ {c.path} ELSE loose) /\ NoteFiles!Go(w, "done")
  BY CallFields DEF NoteFiles!Commit
<1>1. /\ write' \in [Writers -> NoteFiles!WriteRecords] /\ write'[w].pc = "done"
      /\ write'[w].path = c.path /\ \A v \in Writers \ {w} : write'[v] = write[v]
  <2>1. "done" \in CallSteps BY DEF CallSteps
  <2>2. Gone(w, "done") BY <1>0, <2>1, CallGoes, Zenon
  <2> QED BY <2>2, Zenon DEF Gone
<1>n. PICK n : n = c.note OBVIOUS
<1> USE <1>n
<1>2. /\ c.path # 0 /\ c.path \in Nat /\ c.new \in NoteFiles!Texts /\ n \in Writers
      /\ IF c.base = None THEN n = w ELSE notes[n] # None /\ c.path = notes[n].path
      /\ c.base \in NoteFiles!Texts \cup {None}
  BY <1>0, CallFields DEF CallOf, NoteFiles!Holding
<1>3. PICK r :
          /\ notes' = [notes EXCEPT ![n] = r]
          /\ r = [path  |-> c.path,
                  title |-> IF NoteFiles!Kept(c, "title") THEN notes[n].title ELSE c.new.title,
                  body  |-> IF NoteFiles!Kept(c, "body") THEN notes[n].body ELSE c.new.body]
  BY <1>2 DEF NoteFiles!Commit, NotesInv
<1>4. r \in NoteFiles!Rows /\ r # None /\ r.path = c.path
  <2>1. c.path \in NoteFiles!Paths BY <1>2 DEF NoteFiles!Paths
  <2>2. c.new.title \in Titles /\ c.new.body \in Bodies BY <1>2 DEF NoteFiles!Texts
  <2>3. c.base # None => notes[n] \in NoteFiles!Rows BY <1>2, CallFields
  <2>4. (NoteFiles!Kept(c, "title") => notes[n].title \in Titles)
        /\ (NoteFiles!Kept(c, "body") => notes[n].body \in Bodies)
    BY <2>3 DEF NoteFiles!Kept, NoteFiles!Rows
  <2>5. r \in NoteFiles!Rows BY <1>3, <2>1, <2>2, <2>4 DEF NoteFiles!Rows
  <2> QED BY <1>3, <2>5, NoRowIsNone
<1>5. /\ notes' \in [Writers -> NoteFiles!Rows \cup {None}] /\ notes'[n] = r
      /\ \A m \in Writers \ {n} : notes'[m] = notes[m]
  BY <1>2, <1>3, <1>4 DEF NotesInv
<1>6. \A m \in Writers : notes[m] # None => write[m].pc = "done" BY DEF NotesInv, RowsStand
<1>7. c.base = None => notes[n] = None BY <1>0, <1>2, <1>6
<1>8. c.base = None => NoteFiles!Free(c.path) BY <1>0 DEF NotesInv, InsertedOnce
\* No other row has the path.
<1>9. \A m \in Writers \ {n} : notes[m] # None => notes[m].path # c.path
  <2>1. CASE c.base = None BY <1>8, <2>1 DEF NoteFiles!Free
  <2>2. CASE c.base # None BY <1>2, <2>2 DEF NotesInv, RowsStand
  <2> QED BY <2>1, <2>2
<1>10. RowsStand'
  <2>1. \A m \in Writers : notes'[m] # None => write'[m].pc = "done"
    <3>1. ASSUME NEW m \in Writers, notes'[m] # None, m # n PROVE write'[m].pc = "done"
      BY <1>1, <1>5, <1>6, <3>1
    <3>2. write'[n].pc = "done" BY <1>1, <1>2, <1>6
    <3> QED BY <3>1, <3>2
  <2>2. ASSUME NEW m \in Writers, NEW k \in Writers, notes'[m] # None, notes'[k] # None,
               notes'[m].path = notes'[k].path
        PROVE  m = k
    <3>1. CASE m = n BY <1>4, <1>5, <1>9, <2>2, <3>1
    <3>2. CASE k = n BY <1>4, <1>5, <1>9, <2>2, <3>2
    <3>3. CASE m # n /\ k # n BY <1>5, <2>2, <3>3 DEF NotesInv, RowsStand
    <3> QED BY <3>1, <3>2, <3>3
  <2> QED BY <2>1, <2>2 DEF RowsStand
<1>11. ASSUME NEW v \in Writers PROVE CallOf(v)'
  <2>1. CASE v = w BY <1>1, <2>1 DEF CallOf, NoteFiles!Holding
  <2>2. CASE v # w
    <3>1. write'[v] = write[v] /\ CallOf(v) BY <1>1, <2>2, CallFields
    <3>2. ASSUME NEW m \in Writers, notes[m] # None
          PROVE  notes'[m] # None /\ notes'[m].path = notes[m].path
      <4>1. CASE m = n BY <1>2, <1>4, <1>5, <1>7, <3>2, <4>1
      <4>2. CASE m # n BY <1>5, <3>2, <4>2
      <4> QED BY <4>1, <4>2
    <3> QED BY <3>1, <3>2 DEF CallOf
  <2> QED BY <2>1, <2>2
\* A path that was free stays so for everyone but w.
<1>12. ASSUME NEW q, NoteFiles!Free(q), q # c.path PROVE NoteFiles!Free(q)'
  <2> SUFFICES ASSUME NEW m \in Writers, notes'[m] # None PROVE notes'[m].path # q
    BY DEF NoteFiles!Free
  <2>1. CASE m = n BY <1>4, <1>5, <1>12, <2>1
  <2>2. CASE m # n BY <1>5, <1>12, <2>2 DEF NoteFiles!Free
  <2> QED BY <2>1, <2>2
<1>13. InsertedOnce'
  <2> SUFFICES ASSUME NEW v \in Writers, write'[v].pc = "flushed", write'[v].base = None
               PROVE  /\ NoteFiles!Free(write[v].path)' /\ write'[v].path = write[v].path
                      /\ \A u \in Writers : write'[u].pc = "flushed" /\ write'[u].base = None
                             /\ write'[u].path = write'[v].path => u = v
    BY DEF InsertedOnce, NoteFiles!Free
  <2>1. v # w /\ write'[v] = write[v] BY <1>1
  <2>2. /\ NoteFiles!Free(write[v].path)
        /\ \A u \in Writers : write[u].pc = "flushed" /\ write[u].base = None
               /\ write[u].path = write[v].path => u = v
    BY <2>1 DEF NotesInv, InsertedOnce
  <2>3. write[v].path # c.path
    <3>1. CASE c.base = None BY <1>0, <2>1, <2>2, <3>1
    <3>2. CASE c.base # None BY <1>2, <2>2, <3>2 DEF NoteFiles!Free
    <3> QED BY <3>1, <3>2
  <2>4. \A u \in Writers : write'[u].pc = "flushed" => write'[u] = write[u] BY <1>1
  <2>5. NoteFiles!Free(write[v].path)'
    <3>1. PICK q : q = write[v].path OBVIOUS
    <3>2. NoteFiles!Free(q)' BY <1>12, <2>2, <2>3, <3>1
    <3>3. \A m \in Writers : notes'[m] # None => notes'[m].path # q
      BY <3>2 DEF NoteFiles!Free
    <3> QED BY <2>1, <3>1, <3>3 DEF NoteFiles!Free
  <2> QED BY <2>1, <2>2, <2>4, <2>5
<1>14. ASSUME NEW v \in Writers PROVE CallAlone(v)'
  <2>1. CASE v = w BY <1>1, <2>1 DEF CallAlone, NoteFiles!Holding
  <2>2. CASE v # w
    <3>1. write'[v] = write[v] /\ CallAlone(v) /\ CallOf(v) BY <1>1, <2>2, CallFields
    <3>q. PICK q : q = write[v].path OBVIOUS
    <3>2. CASE write[v].pc \in NoteFiles!Holding /\ write[v].alone
      <4>1. q # c.path /\ NoteFiles!Others(v, q) = {}
        BY <1>0, <2>2, <3>1, <3>2, <3>q DEF CallAlone, NoteFiles!Others, NoteFiles!Holding
      <4>2. \A u \in Writers \ {v} : write'[u].pc \in NoteFiles!Holding => write'[u].path # q
        BY <1>1, <4>1 DEF NoteFiles!Others, NoteFiles!Holding
      <4>3. \A u \in Writers \ {v} : ~(write'[u].pc \in NoteFiles!Holding
                                       /\ write'[u].path = write'[v].path)
        BY <3>1, <3>q, <4>2
      <4>4. write[v].base = None => NoteFiles!Free(q)'
        BY <1>12, <3>1, <3>2, <3>q, <4>1 DEF CallAlone
      <4>5. write[v].base # None => notes'[write[v].note] = notes[write[v].note]
        BY <1>2, <1>5, <1>7, <3>1, <3>2, <3>q, <4>1 DEF CallOf
      <4>6. write[v].base # None =>
                write[v].base = [title |-> notes[write[v].note].title,
                                 body |-> notes[write[v].note].body]
        BY <3>1, <3>2 DEF CallAlone
      <4>7. write[v].pc # "writing" => q \in DOMAIN files /\ files[q] = Written(write[v])
        BY <3>1, <3>2, <3>q DEF CallAlone
      <4>8. \A m \in Writers : write[v].base = None /\ notes'[m] # None => notes'[m].path # q
        BY <4>4 DEF NoteFiles!Free
      <4> QED
        BY <1>0, <3>1, <3>2, <3>q, <4>3, <4>5, <4>6, <4>7, <4>8
           DEF CallAlone, Written, NoteFiles!Free, NoteFiles!Others, NoteFiles!Holding
    <3>3. CASE write[v].pc \in NoteFiles!Holding /\ ~write[v].alone
      <4>1. q \in loose BY <3>1, <3>3, <3>q DEF CallAlone
      <4>2. c.alone => q # c.path
        BY <1>0, <2>2, <3>3, <3>q DEF CallAlone, NoteFiles!Others, NoteFiles!Holding
      <4>3. q \in loose' BY <1>0, <4>1, <4>2
      <4> QED BY <3>1, <3>3, <3>q, <4>3 DEF CallAlone
    <3>4. CASE write[v].pc \notin NoteFiles!Holding
      BY <3>1, <3>4 DEF CallAlone
    <3> QED BY <3>2, <3>3, <3>4
  <2> QED BY <2>1, <2>2
<1>15. NoteFiles!NotesAgree'
  <2> SUFFICES ASSUME NEW m \in Writers, notes'[m] # None,
                      \A v \in Writers : write'[v].path = notes'[m].path
                          => write'[v].pc \notin {"flushing", "flushed"},
                      notes'[m].path \notin loose'
               PROVE  /\ notes'[m].path \in DOMAIN files
                      /\ files[notes'[m].path] =
                             [id |-> m, title |-> notes'[m].title, body |-> notes'[m].body]
    BY <1>0 DEF NoteFiles!NotesAgree, NoteFiles!Settled
  <2>1. CASE m = n
    <3>1. c.path \notin loose' BY <1>4, <1>5, <2>1
    <3>2. c.alone
      <4>1. ~c.alone => c.path \in loose /\ loose' = loose
        BY <1>0 DEF CallAlone, NoteFiles!Holding
      <4> QED BY <3>1, <4>1
    <3>3. /\ c.path \in DOMAIN files /\ files[c.path] = Written(c)
          /\ c.base # None => c.base = [title |-> notes[n].title, body |-> notes[n].body]
      BY <1>0, <3>2 DEF CallAlone, NoteFiles!Holding
    <3>4. c.base # None => c.base.title = notes[n].title /\ c.base.body = notes[n].body
      BY <3>3
    <3>5. r.title = c.new.title /\ r.body = c.new.body
      <4>1. NoteFiles!Kept(c, "title") => notes[n].title = c.new.title
        BY <1>2, <3>4 DEF NoteFiles!Kept, NoteFiles!Texts
      <4>2. NoteFiles!Kept(c, "body") => notes[n].body = c.new.body
        BY <1>2, <3>4 DEF NoteFiles!Kept, NoteFiles!Texts
      <4> QED BY <1>3, <4>1, <4>2
    <3> QED BY <1>4, <1>5, <2>1, <3>3, <3>5 DEF Written
  <2>2. CASE m # n
    <3>1. notes'[m] = notes[m] /\ notes[m] # None /\ notes[m].path # c.path
      BY <1>5, <1>9, <2>2
    <3>2. NoteFiles!Settled(notes[m].path) BY <1>1, <3>1 DEF NoteFiles!Settled
    <3>3. notes[m].path \notin loose BY <1>0, <3>1
    <3> QED BY <3>1, <3>2, <3>3 DEF NotesInv, NoteFiles!NotesAgree
  <2> QED BY <2>1, <2>2
<1> QED BY <1>1, <1>5, <1>10, <1>11, <1>13, <1>14, <1>15 DEF NotesInv

LEMMA NotesStep ==
    ASSUME NotesInv, NoteFiles!Next
    PROVE  NotesInv'
<1>1. ASSUME NEW w \in Writers, NEW t \in NoteFiles!Texts, NoteFiles!Create(w, t)
      PROVE  NotesInv'
  <2>0. /\ write[w] \in NoteFiles!WriteRecords /\ write[w].pc = "idle" /\ write[w].base = None
        /\ UNCHANGED <<notes, files, loose>>
    BY <1>1, CallFields DEF NoteFiles!Create, CallOf
  <2> DEFINE c == [write[w] EXCEPT !.pc = "probing", !.note = w, !.path = 1, !.new = t]
  <2>1. write' = [write EXCEPT ![w] = c] BY <1>1 DEF NoteFiles!Create, NotesInv
  <2>2. c \in NoteFiles!WriteRecords /\ c.pc = "probing" /\ c.base = None /\ c.note = w /\ c.path = 1
        /\ c.new = t
    BY <2>0 DEF NoteFiles!WriteRecords
  <2> HIDE DEF c
  <2>3. c.path # 0 /\ c.new \in NoteFiles!Texts /\ write[w].pc \in {"idle", "probing"}
    BY <2>0, <2>2
  <2> QED BY <2>0, <2>1, <2>2, <2>3, CallSeeks, Zenon
<1>2. ASSUME NEW w \in Writers, NoteFiles!Probe(w) PROVE NotesInv'
  <2>0. /\ write[w] \in NoteFiles!WriteRecords /\ write[w].pc = "probing" /\ write[w].base = None
        /\ write[w].path # 0 /\ write[w].path \in Nat /\ write[w].new \in NoteFiles!Texts
        /\ write[w].note = w
    BY <1>2, CallFields DEF NoteFiles!Probe, CallOf, NoteFiles!Holding
  <2>1. CASE NoteFiles!Free(write[w].path) /\ NoteFiles!Takes(w, write[w])
    BY <2>0, <2>1, PathTakes
  <2>2. CASE /\ write' = [write EXCEPT ![w].path = write[w].path + 1]
             /\ UNCHANGED <<notes, files, loose>>
    <3> DEFINE c == [write[w] EXCEPT !.path = write[w].path + 1]
    <3>1. write' = [write EXCEPT ![w] = c] BY <2>2 DEF NotesInv
    <3>2. c \in NoteFiles!WriteRecords /\ c.pc = "probing" /\ c.base = None /\ c.note = w
          /\ c.path = write[w].path + 1 /\ c.new \in NoteFiles!Texts
      BY <2>0 DEF NoteFiles!WriteRecords
    <3> HIDE DEF c
    <3>3. c.path # 0 BY <2>0, <3>2
    <3> QED BY <2>0, <2>2, <3>1, <3>2, <3>3, CallSeeks
  <2> QED BY <1>2, <2>1, <2>2 DEF NoteFiles!Probe, NotesInv
<1>3. ASSUME NEW w \in Writers, NEW n \in Writers, NEW t \in Titles \cup {None},
             NEW b \in Bodies \cup {None},
             NoteFiles!ReadNote(w, n, [title |-> t, body |-> b])
      PROVE  NotesInv'
  <2>0. /\ write[w] \in NoteFiles!WriteRecords /\ write[w].pc = "idle" /\ notes[n] # None
        /\ notes[n] \in NoteFiles!Rows
    BY <1>3, CallFields DEF NoteFiles!ReadNote
  <2>1. notes[n].path \in Nat \ {0} /\ notes[n].title \in Titles /\ notes[n].body \in Bodies
    BY <2>0 DEF NoteFiles!Rows, NoteFiles!Paths
  <2>2. PICK base \in NoteFiles!Texts : base = [title |-> notes[n].title, body |-> notes[n].body]
    BY <2>1 DEF NoteFiles!Texts
  <2>3. PICK new \in NoteFiles!Texts :
            new = [title |-> IF t = None THEN notes[n].title ELSE t,
                   body  |-> IF b = None THEN notes[n].body ELSE b]
    BY <2>1 DEF NoteFiles!Texts
  <2> DEFINE c == [write[w] EXCEPT !.note = n, !.path = notes[n].path, !.base = base, !.new = new]
  <2>4. NoteFiles!Takes(w, c) BY <1>3, <2>2, <2>3 DEF NoteFiles!ReadNote
  <2>5. /\ c \in NoteFiles!WriteRecords /\ c.note = n /\ c.path = notes[n].path /\ c.base = base
        /\ c.new = new
    BY <2>0, <2>1 DEF NoteFiles!WriteRecords
  <2> HIDE DEF c
  <2>6. c.base # None BY <2>5, NoRowIsNone
  <2> QED BY <2>0, <2>1, <2>2, <2>4, <2>5, <2>6, PathTakes
<1>4. ASSUME NEW w \in Writers, NoteFiles!WriteFile(w) PROVE NotesInv'
  <2>1. /\ write[w].pc = "writing" /\ NoteFiles!Go(w, "flushing") /\ UNCHANGED <<notes, loose>>
        /\ NoteFiles!Stored(write[w].path, Written(write[w]))
    BY <1>4 DEF NoteFiles!WriteFile, Written
  <2> QED BY <2>1, CallContinues
<1>5. ASSUME NEW w \in Writers, NoteFiles!Flush(w) PROVE NotesInv'
  <2>1. /\ write[w].pc = "flushing" /\ NoteFiles!Go(w, "flushed")
        /\ UNCHANGED <<notes, files, loose>> /\ ~NoteFiles!Blocked(w)
        /\ write[w].base = None => NoteFiles!Free(write[w].path)
    BY <1>5 DEF NoteFiles!Flush
  <2>2. ASSUME write[w].base = None, NEW v \in Writers \ {w}, write[v].pc = "flushed",
               write[v].base = None
        PROVE  write[v].path # write[w].path
    BY <2>1, <2>2 DEF NoteFiles!Blocked, NoteFiles!Others, NoteFiles!Holding
  <2> QED BY <2>1, <2>2, CallContinues
<1>6. ASSUME NEW w \in Writers,
             NoteFiles!WriteFails(w) \/ NoteFiles!PathTaken(w) \/ NoteFiles!Abandon(w)
      PROVE  NotesInv'
  <2>1. /\ write[w].pc \in NoteFiles!Holding /\ NoteFiles!Go(w, "done") /\ notes' = notes
        /\ files' = files \/ NoteFiles!Stored(write[w].path, Torn)
    BY <1>6 DEF NoteFiles!WriteFails, NoteFiles!PathTaken, NoteFiles!Abandon, NoteFiles!Holding
  <2>2. CallOf(w) /\ CallAlone(w) BY CallFields
  <2>3. loose \subseteq loose' /\ (write[w].base # None => write[w].path \in loose')
    <3>1. CASE NoteFiles!PathTaken(w) BY <3>1 DEF NoteFiles!PathTaken
    <3>2. CASE NoteFiles!WriteFails(w) \/ NoteFiles!Abandon(w)
      <4>1. loose' = NoteFiles!Left(write[w])
        BY <3>2 DEF NoteFiles!WriteFails, NoteFiles!Abandon
      <4>2. write[w].base # None => write[w].note \in Writers
        BY <2>1, <2>2 DEF CallOf
      <4> QED BY <4>1, <4>2 DEF NoteFiles!Left
    <3> QED BY <1>6, <3>1, <3>2
  <2>4. ~write[w].alone => write[w].path \in loose BY <2>1, <2>2 DEF CallAlone
  <2> QED BY <2>1, <2>3, <2>4, CallGivesUp
<1> QED BY <1>1, <1>2, <1>3, <1>4, <1>5, <1>6, CallCommits DEF NoteFiles!Next

LEMMA NotesStill == NotesInv /\ UNCHANGED notesVars => NotesInv'
BY DEF notesVars, NotesInv, RowsStand, CallOf, InsertedOnce, CallAlone, Written,
       NoteFiles!Holding, NoteFiles!Others, NoteFiles!Free, NoteFiles!NotesAgree,
       NoteFiles!Settled

LEMMA NotesAlways == Spec => []NotesInv
<1>1. NotesInv /\ [Next]_vars => NotesInv' BY StepOfEach, NotesStep, NotesStill
<1> QED BY NotesInit, <1>1, PTL DEF Spec

-----------------------------------------------------------------------------
\* A note and its file, a highlight and its mirror, a text and its chunks agree,
\* but for what the history variables record.
THEOREM WhatIsStoredAgrees == Spec => []StoresAgree
<1>1. NotesInv /\ MirrorsInv /\ MemoryInv => StoresAgree
  BY MemoryIndexes DEF StoresAgree, NotesInv, MirrorsInv
<1> QED BY <1>1, NotesAlways, MirrorsAlways, MemoryAlways, PTL

\* A tool call returns the answer to its own request, and when it has ended
\* nothing that it had started is running.
THEOREM CallsAreEnded == Spec => []CallsEnd
<1>1. Mcp!OwnAnswer /\ ResearchInv => CallsEnd BY ResearchJoins DEF CallsEnd
<1> QED BY <1>1, AnswersAreOwn, ResearchAlways, PTL
=============================================================================

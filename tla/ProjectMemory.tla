--------------------------- MODULE ProjectMemory ---------------------------
(***************************************************************************)
(* A project's own memory: the chunks of its notes and of the summary of a  *)
(* conversation, as chunk_and_embed_job writes them, and who enqueues it:   *)
(* POST of a note once it is committed, compaction once a summary is.  An   *)
(* edit of a note enqueues nothing, nor do the tools.                       *)
(*                                                                         *)
(* A text is the number of its version, 0 before there is one, and its      *)
(* chunks are one; a text without words has none and is left out.  Two jobs *)
(* run at once where the worker's concurrency allows it.  READ COMMITTED: a *)
(* DELETE finds the rows committed when it starts, and waits where another  *)
(* transaction has deleted one of them already.                            *)
(***************************************************************************)
EXTENDS Naturals

CONSTANTS Noted, Conversation, Jobs, None, MaxVersions

Sources == Noted \cup {Conversation}

VARIABLES
    text,        \* the committed text of each source
    chunks,      \* the committed chunks: the job that inserted one, its version
    chunking,    \* the chunk_and_embed_jobs
    unqueued,    \* notes committed by a POST that has yet to enqueue its job
    compaction,  \* maybe_compact of the conversation's turn
    overlapped,  \* history: sources two jobs of which have overlapped
    behind       \* history: sources of whose last text no job will know

vars == <<text, chunks, chunking, unqueued, compaction, overlapped, behind>>

Versions == 0 .. MaxVersions
Chunks   == [job : Jobs, version : Versions]

\* alone: no other job of this source has been under way since this one read.
ChunkJobs ==
    [pc : {"none", "queued", "read", "deleting", "embedding", "done"},
     source : Sources \cup {None}, version : Versions, doomed : SUBSET Chunks,
     alone : BOOLEAN]

TypeOK ==
    /\ text \in [Sources -> Versions]
    /\ \A s \in Sources : chunks[s] \subseteq Chunks
    /\ chunking \in [Jobs -> ChunkJobs]
    /\ unqueued \subseteq Noted
    /\ compaction \in {"off", "summarizing", "committed"}
    /\ overlapped \subseteq Sources /\ behind \subseteq Sources

Init ==
    /\ text = [s \in Sources |-> 0]
    /\ chunks = [s \in Sources |-> {}]
    /\ chunking = [j \in Jobs |-> [pc |-> "none", source |-> None, version |-> 0,
                                   doomed |-> {}, alone |-> TRUE]]
    /\ unqueued = {} /\ compaction = "off"
    /\ overlapped = {} /\ behind = {}

Under(j, s) == chunking[j].source = s /\ chunking[j].pc \in {"read", "deleting", "embedding"}
Enqueued(s, j) ==
    /\ chunking[j].pc = "none"
    /\ chunking' = [chunking EXCEPT ![j].pc = "queued", ![j].source = s]
Worded(s) ==
    /\ text[s] < MaxVersions
    /\ text' = [text EXCEPT ![s] = @ + 1]

-----------------------------------------------------------------------------
(* Who writes the texts.                                                   *)

\* POST: the note is committed, then its job enqueued.
CreateNote(s) ==
    /\ text[s] = 0 /\ Worded(s)
    /\ unqueued' = unqueued \cup {s}
    /\ UNCHANGED <<chunks, chunking, compaction, overlapped, behind>>

EnqueueNote(s, j) ==
    /\ s \in unqueued /\ Enqueued(s, j)
    /\ unqueued' = unqueued \ {s}
    /\ UNCHANGED <<text, chunks, compaction, overlapped, behind>>

\* PATCH, and the tools save_note and update_note.
SaveNote(s) ==
    /\ Worded(s)
    /\ behind' = behind \cup {s}
    /\ UNCHANGED <<chunks, chunking, unqueued, compaction, overlapped>>

\* The history is over its threshold, with enough to leave K turns verbatim.
Compact ==
    /\ compaction = "off"
    /\ compaction' = "summarizing"
    /\ UNCHANGED <<text, chunks, chunking, unqueued, overlapped, behind>>

\* The model fails, is late or not there, or the turn is gone: nothing is written.
CompactionFails ==
    /\ compaction = "summarizing"
    /\ compaction' = "off"
    /\ UNCHANGED <<text, chunks, chunking, unqueued, overlapped, behind>>

\* Summary and watermark are committed together.
SummaryLands ==
    /\ compaction = "summarizing" /\ Worded(Conversation)
    /\ compaction' = "committed"
    /\ UNCHANGED <<chunks, chunking, unqueued, overlapped, behind>>

EnqueueSummary(j) ==
    /\ compaction = "committed" /\ Enqueued(Conversation, j)
    /\ compaction' = "off"
    /\ UNCHANGED <<text, chunks, unqueued, overlapped, behind>>

\* The queue does not answer, or the process dies, between commit and enqueue.
EnqueueLost ==
    /\ \/ \E s \in unqueued : /\ unqueued' = unqueued \ {s}
                              /\ behind' = behind \cup {s}
                              /\ UNCHANGED compaction
       \/ /\ compaction = "committed" /\ compaction' = "off"
          /\ behind' = behind \cup {Conversation}
          /\ UNCHANGED unqueued
    /\ UNCHANGED <<text, chunks, chunking, overlapped>>

-----------------------------------------------------------------------------
(* The job.                                                                *)

\* The text is read.
ReadSource(j) ==
    LET s == chunking[j].source
        others == {i \in Jobs : Under(i, s)}
    IN  /\ chunking[j].pc = "queued"
        /\ chunking' = [i \in Jobs |->
               IF i = j THEN [chunking[j] EXCEPT !.pc = "read", !.version = text[s],
                                                 !.alone = others = {}]
               ELSE IF i \in others THEN [chunking[i] EXCEPT !.alone = FALSE]
               ELSE chunking[i]]
        /\ overlapped' = IF others = {} THEN overlapped ELSE overlapped \cup {s}
        /\ UNCHANGED <<text, chunks, unqueued, compaction, behind>>

\* Mutant: the chunks of an earlier run are not looked for.
StartDelete_None(j) ==
    /\ chunking[j].pc = "read"
    /\ chunking' = [chunking EXCEPT ![j].pc = "deleting"]
    /\ UNCHANGED <<text, chunks, unqueued, compaction, overlapped, behind>>

StartDelete(j) ==
    /\ chunking[j].pc = "read"
    /\ chunking' = [chunking EXCEPT ![j].pc = "deleting",
                                    ![j].doomed = chunks[chunking[j].source]]
    /\ UNCHANGED <<text, chunks, unqueued, compaction, overlapped, behind>>

\* No other transaction holds one of these rows; some may be gone by now.
Delete(j) ==
    LET c == chunking[j] IN
    /\ c.pc = "deleting"
    /\ \A i \in Jobs : chunking[i].pc = "embedding" => chunking[i].doomed \cap c.doomed = {}
    /\ chunking' = [chunking EXCEPT ![j].pc = "embedding",
                                    ![j].doomed = c.doomed \cap chunks[c.source]]
    /\ UNCHANGED <<text, chunks, unqueued, compaction, overlapped, behind>>

\* The vectors are there: the new chunks are inserted and all is committed.
Commit(j) ==
    LET c == chunking[j]
        s == c.source
    IN  /\ c.pc = "embedding"
        /\ chunks' = [chunks EXCEPT ![s] = (@ \ c.doomed) \cup
                                           {[job |-> j, version |-> c.version]}]
        /\ chunking' = [chunking EXCEPT ![j].pc = "done", ![j].doomed = {}]
        /\ overlapped' = IF c.alone THEN overlapped \ {s} ELSE overlapped
        /\ behind' = IF c.alone /\ c.version = text[s] THEN behind \ {s} ELSE behind
        /\ UNCHANGED <<text, unqueued, compaction>>

\* The embedder or the database raises, or the process dies: all is rolled back.
JobFails(j) ==
    /\ \E s \in Sources : Under(j, s) /\ behind' = behind \cup {s}
    /\ chunking' = [chunking EXCEPT ![j].pc = "done", ![j].doomed = {}]
    /\ UNCHANGED <<text, chunks, unqueued, compaction, overlapped>>

Next ==
    \/ \E s \in Noted :
           \/ CreateNote(s)
           \/ SaveNote(s)
           \/ \E j \in Jobs : EnqueueNote(s, j)
    \/ Compact
    \/ CompactionFails
    \/ SummaryLands
    \/ EnqueueLost
    \/ \E j \in Jobs :
           \/ EnqueueSummary(j)
           \/ ReadSource(j)
           \/ StartDelete(j)
           \/ Delete(j)
           \/ Commit(j)
           \/ JobFails(j)

Spec == Init /\ [][Next]_vars

-----------------------------------------------------------------------------
\* No job of s is to come or under way.
Idle(s) ==
    /\ s \notin unqueued
    /\ s = Conversation => compaction # "committed"
    /\ \A j \in Jobs : chunking[j].source = s => chunking[j].pc = "done"

\* A source is indexed once and, when its jobs are done, by its last text: a
\* job's delete and insert replace what an earlier one left.  Not so after two
\* jobs of a source overlapped, and not up to date after an edit that enqueued
\* nothing or a job or an enqueue that was lost; a job alone makes up for it.
IndexFresh ==
    \A s \in Sources \ overlapped :
        /\ \A c, d \in chunks[s] : c = d
        /\ Idle(s) /\ s \notin behind /\ text[s] > 0 =>
               \E c \in chunks[s] : c.version = text[s]
=============================================================================

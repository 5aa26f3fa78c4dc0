----------------------------- MODULE MCServices -----------------------------
(***************************************************************************)
(* The components that share no state with each other, in one instance:    *)
(* their product would only multiply, so in a behaviour one of them moves, *)
(* any of Moving, and the others stay where they start.                    *)
(***************************************************************************)
EXTENDS Naturals

CONSTANTS
    Moving,
    None, Noise,
    Items, PollIds, MaxTime, MaxFaults,
    Terms, Readers, MaxSaves,
    Projects, MaxDispatches, MaxFailures,
    Calls, MaxRetries, RepairRetries, Interval,
    Callers, MaxSpawns, MaxIds, MaxLines, MaxSkips,
    Columns, Custom, Views, Edits, MaxEdits,
    Tabs, Papers, PageSize, MaxResults,
    MaxLength, MaxDelta, MinQuote,
    MaxHolds, MaxTurns, MaxSentences,
    Drafts, First, Blank, MaxTexts, MaxClicks, MaxBroken,
    Pages, Dashboard, Untitled, MaxMoves, MaxLost,
    Home, MaxSockets, MaxSends, MaxDrops,
    Writers, Titles, Bodies, Torn,
    Marks,
    Noted, Conversation, Jobs, MaxVersions,
    MaxDepth, MaxIterations

\* The bounds are numbers; the retries of a repair are no more than those of a
\* call, and a matrix asks a model about some of its columns.
ASSUME ServicesAssumption ==
    /\ {MaxTime, MaxFaults, MaxSaves, MaxRetries, RepairRetries, Interval,
        MaxSpawns, MaxIds, MaxLines, MaxEdits, PageSize, MaxResults, MaxHolds,
        MaxTurns, MaxSentences, MaxTexts, MaxClicks, MaxBroken, MaxMoves,
        MaxLost, MaxSockets, MaxSends, MaxDrops, MaxVersions, MaxDispatches,
        MaxFailures, MaxSkips} \subseteq Nat
    /\ {MaxDepth, MaxIterations} \subseteq Nat \ {0}
    /\ RepairRetries <= MaxRetries
    /\ Custom \subseteq Columns

\* A project has a draft at first, and None is neither a text nor a save.
ASSUME DraftsAssumption ==
    /\ First \in Drafts
    /\ None \notin Nat /\ None \notin [doc : Drafts, tex : Nat]

\* None is neither a note's row nor its text.
ASSUME NotesAssumption ==
    /\ None \notin [title : Titles, body : Bodies]
    /\ None \notin [path : Nat, title : Titles, body : Bodies]

\* The shell opens with a project.
ASSUME HomeAssumption == Home \in Projects

VARIABLES
    moving,
    now, published, cursor, poll, item, seen, library, missed, faults,
    profile, seeding, reextract, fresh, edited,
    created, scheduled, late, configured, enqueued, failures,
    call, bucket, wait, gap, row, saves, crossed,
    process, initialized, alive, spawned, inbox, stdout, reader, rpc, ids,
    result,
    selected, cells, view, edit, last, edits, raced,
    pool, tab, load, search, more, mixed, lost,
    input, fed, stream, ended,
    chord, opening, recording, transcribing, timers, undo, holds, turn,
    turns, streamed, voiceTurn, asked, refused, epoch, muted, queue, drain,
    playing,
    file, documents, active, source, dirty, saveTimer, previewTimer, puts,
    sent, status, shown, creating, retry, owner, overtaken, forgotten, clicks,
    broken,
    stack, activeTab, loaded, url, past, future, syncing, due, title, stored,
    saving, persisted, stale, skipped, moves, failed,
    project, effect, timer, sockets, ref, connected, queued, pane,
    historyLoaded, held, slot, started, sends, drops, leaked,
    notes, files, write, loose,
    mark, anchors, highlights, mirror, torn,
    text, chunks, chunking, unqueued, compaction, overlapped, behind,
    parent, agent, task, rounds, trace, cancelled

FeedPolls == INSTANCE Feed
Profile == INSTANCE InterestProfile
CatchupPass == INSTANCE Catchup
Llm == INSTANCE LlmClient
Mcp == INSTANCE McpClient
MatrixRow == INSTANCE Matrix
Cache == INSTANCE SearchCache
Citations == INSTANCE CitationStream WITH Verbatim <- {<<"x">>, <<"x", "x">>}
Voice == INSTANCE VoicePlayback
Editor == INSTANCE Manuscript
Shell == INSTANCE TabStack
Pane == INSTANCE Companion
NoteFiles == INSTANCE Notes
Mirrors == INSTANCE Highlights
Memory == INSTANCE ProjectMemory
Research == INSTANCE Subagents

feedVars == <<now, published, cursor, poll, item, seen, library, missed,
    faults>>
profileVars == <<profile, seeding, reextract, fresh, edited>>
catchupVars == <<created, scheduled, late, configured, enqueued, failures>>
llmVars == <<call, bucket, wait, gap, row, saves, crossed>>
mcpVars == <<process, initialized, alive, spawned, inbox, stdout, reader, rpc,
    ids, result>>
matrixVars == <<selected, cells, view, edit, last, edits, raced>>
searchVars == <<pool, tab, load, search, more, mixed, lost>>
citationsVars == <<input, fed, stream, ended>>
voiceVars == <<chord, opening, recording, transcribing, timers, undo, holds,
    turn, turns, streamed, voiceTurn, asked, refused, epoch, muted, queue,
    drain, playing>>
editorVars == <<file, documents, active, source, dirty, saveTimer,
    previewTimer, puts, sent, status, shown, creating, retry, owner,
    overtaken, forgotten, clicks, broken>>
shellVars == <<stack, activeTab, loaded, url, past, future, syncing, due,
    title, stored, saving, persisted, stale, skipped, moves, failed>>
paneVars == <<project, effect, timer, sockets, ref, connected, queued, pane,
    historyLoaded, held, slot, started, sends, drops, leaked>>
notesVars == <<notes, files, write, loose>>
mirrorsVars == <<mark, anchors, highlights, mirror, torn>>
memoryVars == <<text, chunks, chunking, unqueued, compaction, overlapped,
    behind>>
researchVars == <<parent, agent, task, rounds, trace, cancelled>>
vars == <<moving, feedVars, profileVars, catchupVars, llmVars, mcpVars,
          matrixVars, searchVars, citationsVars, voiceVars, editorVars,
          shellVars, paneVars, notesVars, mirrorsVars, memoryVars,
          researchVars>>

Init ==
    /\ moving \in Moving
    /\ FeedPolls!Init
    /\ Profile!Init
    /\ CatchupPass!Init
    /\ Llm!Init
    /\ Mcp!Init
    /\ MatrixRow!Init
    /\ Cache!Init
    /\ Citations!Init
    /\ moving # "citations" => input = <<>>
    /\ Voice!Init
    /\ Editor!Init
    /\ Shell!Init
    /\ moving # "shell" => stored.stack = <<>> /\ url = Dashboard
    /\ Pane!Init
    /\ NoteFiles!Init
    /\ Mirrors!Init
    /\ Memory!Init
    /\ Research!Init

\* Everything but c stays.
Only(c) ==
    /\ moving = c /\ UNCHANGED moving
    /\ c # "feed" => UNCHANGED feedVars
    /\ c # "profile" => UNCHANGED profileVars
    /\ c # "catchup" => UNCHANGED catchupVars
    /\ c # "llm" => UNCHANGED llmVars
    /\ c # "mcp" => UNCHANGED mcpVars
    /\ c # "matrix" => UNCHANGED matrixVars
    /\ c # "search" => UNCHANGED searchVars
    /\ c # "citations" => UNCHANGED citationsVars
    /\ c # "voice" => UNCHANGED voiceVars
    /\ c # "editor" => UNCHANGED editorVars
    /\ c # "shell" => UNCHANGED shellVars
    /\ c # "pane" => UNCHANGED paneVars
    /\ c # "notes" => UNCHANGED notesVars
    /\ c # "mirrors" => UNCHANGED mirrorsVars
    /\ c # "memory" => UNCHANGED memoryVars
    /\ c # "research" => UNCHANGED researchVars

Next ==
    \/ Only("feed") /\ FeedPolls!Next
    \/ Only("profile") /\ Profile!Next
    \/ Only("catchup") /\ CatchupPass!Next
    \/ Only("llm") /\ Llm!Next
    \/ Only("mcp") /\ Mcp!Next
    \/ Only("matrix") /\ MatrixRow!Next
    \/ Only("search") /\ Cache!Next
    \/ Only("citations") /\ Citations!Next
    \/ Only("voice") /\ Voice!Next
    \/ Only("editor") /\ Editor!Next
    \/ Only("shell") /\ Shell!Next
    \/ Only("pane") /\ Pane!Next
    \/ Only("notes") /\ NoteFiles!Next
    \/ Only("mirrors") /\ Mirrors!Next
    \/ Only("memory") /\ Memory!Next
    \/ Only("research") /\ Research!Next

Spec == Init /\ [][Next]_vars

\* The components that state fairness, with theirs.
LiveSpec == Spec /\ CatchupPass!Fairness /\ Llm!Fairness

\* Every component's type invariant.
TypeOK ==
    /\ FeedPolls!TypeOK
    /\ Profile!TypeOK
    /\ CatchupPass!TypeOK
    /\ Llm!TypeOK
    /\ Mcp!TypeOK
    /\ MatrixRow!TypeOK
    /\ Cache!TypeOK
    /\ Citations!TypeOK
    /\ Voice!TypeOK
    /\ Editor!TypeOK
    /\ Shell!TypeOK
    /\ Pane!TypeOK
    /\ NoteFiles!TypeOK
    /\ Mirrors!TypeOK
    /\ Memory!TypeOK
    /\ Research!TypeOK

\* The properties, each explained in the module of its component.
FeedComplete          == FeedPolls!FeedComplete
AdditiveIfUndisturbed == Profile!AdditiveIfUndisturbed
RepeatsNeedFailure    == CatchupPass!RepeatsNeedFailure
OverdueDispatched     == CatchupPass!OverdueDispatched
Paced                 == Llm!Paced
CallReturns           == Llm!CallReturns
ShownIsPrefix         == Cache!ShownIsPrefix
SplitsDontMatter      == Citations!SplitsDontMatter
NoStaleAudio          == Voice!NoStaleAudio
NoEditLost            == Editor!NoEditLost
TabsKept              == Shell!TabsKept
PaneConsistent        == Pane!PaneConsistent
QueueFlushed          == Pane!QueueFlushed

\* A value that the researcher entered in a cell, or a key saved in Settings,
\* stands, unless a request that had read before wrote after it.
EntriesStand == MatrixRow!CellShowsLastEdit /\ Llm!SavedKeyStays

\* What the researcher typed in the editor is kept and what it previews is what
\* it shows.
DraftsKept == Editor!EditsKept /\ Editor!PreviewOfSource

\* Whatever is stored twice agrees: a note and its file, a highlight and its
\* mirror, a text and its chunks.
StoresAgree ==
    /\ NoteFiles!NotesAgree
    /\ Mirrors!HighlightsMirrored
    /\ Memory!IndexFresh

\* A tool call ends with the answer to its own request, and leaves nothing
\* running that it had started.
CallsEnd == Mcp!OwnAnswer /\ Research!Joined
=============================================================================

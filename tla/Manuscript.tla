----------------------------- MODULE Manuscript -----------------------------
(***************************************************************************)
(* The manuscript editor (frontend/src/writing/) and the server's side of  *)
(* a save (backend/writing/).  Two debounced timers watch the editor: one  *)
(* autosaves, the other compiles, and since a compile that succeeds stores *)
(* what it compiled, both are saves.  Their PUTs, the switches between     *)
(* drafts and the list a new draft reloads run concurrently.               *)
(***************************************************************************)
EXTENDS Naturals, Sequences

CONSTANTS
    None,           \* the absent value
    Drafts,         \* the documents of the project
    First,          \* the one it has at first
    Blank,          \* the texts with an empty body: nothing to compile
    MaxTexts,       \* bound: texts typed
    MaxClicks,      \* bound: clicks on the list, "+ New draft" and "Retry"
    MaxBroken       \* bound: requests that fail

VARIABLES
    file,           \* a draft's source, PDF and the newest PUT stored
    documents,      \* the bodies in the tab's list
    active, source, \* the open draft, and the editor's text
    dirty,          \* dirtyRef
    saveTimer,      \* the save the autosave's timer will send
    previewTimer,   \* the compile the preview's timer will send
    puts, sent,     \* the PUTs in flight, and how many there were
    status, shown,  \* the preview's status, and the source of its PDF
    creating,       \* "+ New draft": the draft it adds, the list it got
    retry,          \* the save the error card offers to repeat
    owner,          \* history: the draft each text was typed into
    overtaken,      \* history: drafts an older PUT was stored to last
    forgotten,      \* history: drafts whose last text the tab let go
    clicks, broken

manuscriptVars == <<file, documents, active, source, dirty, saveTimer,
    previewTimer, puts, sent, status, shown, creating, retry, owner,
    overtaken, forgotten, clicks, broken>>

Starter == 0
Texts == 0 .. MaxTexts
Saves == [doc : Drafts, tex : Texts]
Absent == [tex |-> Starter, pdf |-> None, put |-> 0, listed |-> FALSE]

TypeOK ==
    /\ file \in [Drafts -> [tex : Texts, pdf : Texts \cup {None}, put : Nat,
                            listed : BOOLEAN]]
    /\ documents \in [Drafts -> Texts \cup {None}]
    /\ active \in Drafts /\ source \in Texts /\ dirty \in BOOLEAN
    /\ {saveTimer, previewTimer, retry} \subseteq Saves \cup {None}
    /\ puts \subseteq [doc : Drafts, tex : Texts, put : 1 .. sent,
                       compile : BOOLEAN, live : BOOLEAN,
                       stage : {"sent", "stored", "rejected", "fetching"}]
    /\ \A p, q \in puts : p.put = q.put => p = q
    /\ status \in {"empty", "idle", "compiling", "ok", "error"}
    /\ shown \in Saves \cup {None}
    /\ owner \in Seq(Drafts) /\ Len(owner) <= MaxTexts
    /\ overtaken \cup forgotten \subseteq Drafts

\* The last text typed into draft d.
Latest(d) ==
    LET its == {n \in 1 .. Len(owner) : owner[n] = d}
    IN IF its = {} THEN Starter ELSE CHOOSE n \in its : \A m \in its : m <= n

\* The tab once it has loaded a project with one fresh draft.
Init ==
    /\ file = [d \in Drafts |-> [Absent EXCEPT !.listed = (d = First)]]
    /\ documents = [d \in Drafts |-> IF d = First THEN Starter ELSE None]
    /\ active = First /\ source = Starter /\ dirty = FALSE
    /\ saveTimer = None /\ previewTimer = None
    /\ puts = {} /\ sent = 0
    /\ status = "empty" /\ shown = None
    /\ creating = None /\ retry = None
    /\ owner = <<>> /\ overtaken = {} /\ forgotten = {}
    /\ clicks = 0 /\ broken = 0

-----------------------------------------------------------------------------

Put(save, n, compile, live) ==
    [doc |-> save.doc, tex |-> save.tex, put |-> n, compile |-> compile,
     live |-> live, stage |-> "sent"]

\* The PUT that autosave sends next, if there is a save.
Autosave(save) ==
    IF save = None THEN {} ELSE {Put(save, sent + 1, FALSE, TRUE)}

\* flushRef: a pending compile is sent as the effect that owned it goes, so
\* that no one waits for its answer.
FlushedCompile(n) ==
    IF previewTimer = None THEN {} ELSE {Put(previewTimer, n, TRUE, FALSE)}

\* Mutant: the effect that is cleaned up does not cancel its answer.
Awaited_All(ps) == ps

\* An answer that nobody waits for has no effect: only the request has.
Awaited(ps) == {p \in ps : p.live \/ p.stage = "sent"}

\* What the editor shows becomes text x of draft d, and new is sent.  The
\* preview's effect runs again if that is a change: what compiles no longer
\* counts, and its timer starts anew unless there is nothing to compile.
Show(d, x, new) ==
    LET changed == d # active \/ x # source
        flushed == IF d = active THEN {}
                   ELSE FlushedCompile(IF new = {} THEN sent + 1 ELSE sent + 2)
    IN  /\ active' = d /\ source' = x
        /\ puts' = new \cup flushed \cup
                Awaited({[p EXCEPT !.live = @ /\ ~(changed /\ p.compile)] :
                            p \in puts})
        /\ sent' = sent + (IF new = {} THEN 0 ELSE 1)
                        + (IF flushed = {} THEN 0 ELSE 1)
        /\ previewTimer' = IF ~changed THEN previewTimer
                           ELSE IF x \in Blank THEN None ELSE [doc |-> d, tex |-> x]
        /\ status' = IF changed /\ x \in Blank THEN "empty" ELSE status

\* onSourceChange.  The tab has one autosave timer: restarting it drops what
\* it held for another draft.
Edit ==
    LET x == Len(owner) + 1 IN
    /\ x \in Texts
    /\ owner' = Append(owner, active)
    /\ dirty' = TRUE /\ saveTimer' = [doc |-> active, tex |-> x]
    /\ Show(active, x, {})
    /\ forgotten' = (forgotten \ {active})
            \cup (IF saveTimer = None THEN {} ELSE {saveTimer.doc} \ {active})
    /\ overtaken' = overtaken \ {active}
    /\ UNCHANGED <<file, documents, shown, creating, retry, clicks, broken>>

SaveTimerFires ==
    /\ saveTimer # None
    /\ saveTimer' = None
    /\ puts' = puts \cup Autosave(saveTimer) /\ sent' = sent + 1
    /\ UNCHANGED <<file, documents, active, source, dirty, previewTimer,
                   status, shown, creating, retry, owner, overtaken,
                   forgotten, clicks, broken>>

PreviewTimerFires ==
    /\ previewTimer # None
    /\ previewTimer' = None /\ status' = "compiling"
    /\ puts' = puts \cup {Put(previewTimer, sent + 1, TRUE, TRUE)}
    /\ sent' = sent + 1
    /\ UNCHANGED <<file, documents, active, source, dirty, saveTimer, shown,
                   creating, retry, owner, overtaken, forgotten, clicks,
                   broken>>

\* Mutant: leaving a draft only clears its timer.
Flushed_Never == None

\* What flushAutosave saves: the open draft, if dirtyRef says so.
Flushed == IF dirty THEN [doc |-> active, tex |-> source] ELSE None

\* openDraft: flush, then show the body the list has, whether or not it is
\* what was typed last, and whether or not the draft is already open.
OpenDraft(d) ==
    /\ documents[d] # None
    /\ clicks < MaxClicks /\ clicks' = clicks + 1
    /\ saveTimer' = None
    /\ Show(d, documents[d], Autosave(Flushed))
    /\ forgotten' = forgotten
            \cup (IF documents[d] = Latest(d) THEN {} ELSE {d})
            \cup (IF saveTimer = None \/ (dirty /\ saveTimer.doc = active)
                  THEN {} ELSE {saveTimer.doc})
    /\ UNCHANGED <<file, documents, dirty, shown, creating, retry, owner,
                   overtaken, broken>>

-----------------------------------------------------------------------------
(* The answers.                                                            *)

\* save_document: an autosave writes the source, a compile first compiles
\* it and writes source and PDF if that succeeds.
Stored(p) ==
    [file EXCEPT ![p.doc].tex = p.tex, ![p.doc].put = p.put,
                 ![p.doc].pdf = IF p.compile THEN p.tex ELSE @]

Store(p) ==
    /\ p.stage = "sent"
    /\ file' = Stored(p)
    /\ overtaken' = IF p.put < file[p.doc].put THEN overtaken \cup {p.doc}
                    ELSE overtaken
    /\ puts' = Awaited((puts \ {p}) \cup {[p EXCEPT !.stage = "stored"]})
    /\ UNCHANGED <<documents, active, source, dirty, saveTimer, previewTimer,
                   sent, status, shown, creating, retry, owner, forgotten,
                   clicks, broken>>

CompileFails(p) ==
    /\ p.compile /\ p.stage = "sent"
    /\ puts' = Awaited((puts \ {p}) \cup {[p EXCEPT !.stage = "rejected"]})
    /\ UNCHANGED <<file, documents, active, source, dirty, saveTimer,
                   previewTimer, sent, status, shown, creating, retry, owner,
                   overtaken, forgotten, clicks, broken>>

\* An autosave that succeeds clears dirtyRef, though its text may no longer
\* be the last one typed.
AutosaveLands(p) ==
    /\ ~p.compile /\ p.stage = "stored"
    /\ dirty' = FALSE /\ retry' = None
    /\ documents' = [documents EXCEPT ![p.doc] =
                        IF @ = None THEN None ELSE p.tex]
    /\ puts' = puts \ {p}
    /\ UNCHANGED <<file, active, source, saveTimer, previewTimer, sent, status,
                   shown, creating, owner, overtaken, forgotten, clicks,
                   broken>>

\* The compile's answer: the PDF it made is fetched.
CompileLands(p) ==
    /\ p.compile /\ p.stage \in {"stored", "rejected"}
    /\ puts' = (puts \ {p}) \cup
            (IF p.stage = "stored" THEN {[p EXCEPT !.stage = "fetching"]} ELSE {})
    /\ status' = IF p.stage = "rejected" THEN "error" ELSE status
    /\ UNCHANGED <<file, documents, active, source, dirty, saveTimer,
                   previewTimer, sent, shown, creating, retry, owner,
                   overtaken, forgotten, clicks, broken>>

\* The document's PDF, of whichever compile wrote it last.
PdfLands(p) ==
    /\ p.stage = "fetching"
    /\ puts' = puts \ {p}
    /\ status' = "ok" /\ shown' = [doc |-> p.doc, tex |-> file[p.doc].pdf]
    /\ UNCHANGED <<file, documents, active, source, dirty, saveTimer,
                   previewTimer, sent, creating, retry, owner, overtaken,
                   forgotten, clicks, broken>>

\* A request fails, before or after the server stored what it carries.
RequestFails(p) ==
    /\ broken < MaxBroken /\ broken' = broken + 1
    /\ puts' = puts \ {p}
    /\ retry' = IF p.compile THEN retry ELSE [doc |-> p.doc, tex |-> p.tex]
    /\ forgotten' = IF p.compile THEN forgotten ELSE forgotten \cup {p.doc}
    /\ status' = IF p.compile /\ p.live THEN "error" ELSE status
    /\ UNCHANGED <<file, documents, active, source, dirty, saveTimer,
                   previewTimer, sent, shown, creating, owner, overtaken,
                   clicks>>

\* The error card sends the save that failed again, as it was.
Retry ==
    /\ retry # None
    /\ clicks < MaxClicks /\ clicks' = clicks + 1
    /\ puts' = puts \cup Autosave(retry) /\ sent' = sent + 1
    /\ forgotten' = IF retry.tex = Latest(retry.doc) THEN forgotten
                    ELSE forgotten \cup {retry.doc}
    /\ UNCHANGED <<file, documents, active, source, dirty, saveTimer,
                   previewTimer, status, shown, creating, retry, owner,
                   overtaken, broken>>

-----------------------------------------------------------------------------
(* "+ New draft".                                                          *)

\* createDraft: the POST stores a starter text under a new id.
CreateDraft(d) ==
    /\ creating = None /\ ~file[d].listed
    /\ clicks < MaxClicks /\ clicks' = clicks + 1
    /\ file' = [file EXCEPT ![d].listed = TRUE]
    /\ creating' = [doc |-> d, list |-> None]
    /\ UNCHANGED <<documents, active, source, dirty, saveTimer, previewTimer,
                   puts, sent, status, shown, retry, owner, overtaken,
                   forgotten, broken>>

\* refresh: the server reads the list ...
ListRead ==
    /\ creating # None /\ creating.list = None
    /\ creating' = [creating EXCEPT !.list =
            [d \in Drafts |-> IF file[d].listed THEN file[d].tex ELSE None]]
    /\ UNCHANGED <<file, documents, active, source, dirty, saveTimer,
                   previewTimer, puts, sent, status, shown, retry, owner,
                   overtaken, forgotten, clicks, broken>>

\* ... and the tab shows the new draft, without flushing the open one.
ListLands ==
    /\ creating # None /\ creating.list # None
    /\ creating' = None
    /\ documents' = creating.list /\ retry' = None
    /\ Show(creating.doc, creating.list[creating.doc], {})
    /\ UNCHANGED <<file, dirty, saveTimer, shown, owner, overtaken, forgotten,
                   clicks, broken>>

CreateFails ==
    /\ creating # None
    /\ broken < MaxBroken /\ broken' = broken + 1
    /\ creating' = None /\ retry' = None
    /\ UNCHANGED <<file, documents, active, source, dirty, saveTimer,
                   previewTimer, puts, sent, status, shown, owner, overtaken,
                   forgotten, clicks>>

-----------------------------------------------------------------------------

Next ==
    \/ Edit \/ SaveTimerFires \/ PreviewTimerFires
    \/ \E d \in Drafts : OpenDraft(d) \/ CreateDraft(d)
    \/ \E p \in puts :
        \/ Store(p) \/ CompileFails(p) \/ RequestFails(p)
        \/ AutosaveLands(p) \/ CompileLands(p) \/ PdfLands(p)
    \/ Retry \/ ListRead \/ ListLands \/ CreateFails

Spec == Init /\ [][Next]_manuscriptVars

-----------------------------------------------------------------------------

\* Whatever timers, switches and new drafts do, and in whatever order the
\* PUTs are stored, a draft only ever holds text that was typed into it.
OwnText ==
    \A d \in Drafts :
        file[d].tex # Starter => owner[file[d].tex] = d

\* No save of draft d is in flight or will be sent.
Quiet(d) ==
    /\ \A p \in puts : p.doc = d => p.stage # "sent"
    /\ \A s \in {saveTimer, previewTimer} \ {None} : s.doc # d

\* Once nothing is pending for a draft, the server holds what was typed last,
\* unless a save failed, an older PUT was stored after a newer one, or the
\* tab itself let the text go: showed an older one, or dropped its timer.
SavedWhenQuiet ==
    \A d \in Drafts :
        Quiet(d) => \/ file[d].tex = Latest(d)
                    \/ d \in overtaken \cup forgotten

EditsKept == OwnText /\ SavedWhenQuiet

\* useManuscriptPreview: a preview that says "ok" with no compile pending
\* shows the PDF of the very text in the editor, not of an earlier text or
\* of the draft open before, unless an older compile was stored later.
PreviewOfSource ==
    (status = "ok" /\ previewTimer = None) =>
        \/ shown = [doc |-> active, tex |-> source]
        \/ active \in overtaken

\* ManuscriptTab.tsx, flushAutosave: "an edit made inside the ~1.2s debounce
\* window is never silently lost": if every request was answered, the server
\* holds the last text typed once nothing is pending.
NoEditLost ==
    \A d \in Drafts :
        (Quiet(d) /\ broken = 0) => file[d].tex = Latest(d)
=============================================================================

----------------------------- MODULE Highlights -----------------------------
(***************************************************************************)
(* The highlights of a paper in a project: an anchor for the quote, an      *)
(* entry in the paper's mirror file, which is read, extended and written    *)
(* back whole, and a row; anchor and row in the transaction of the caller.  *)
(*                                                                         *)
(* Where a quote stands in the text is a choice, found or not.  A process   *)
(* that dies is every request's Abandon.                                   *)
(***************************************************************************)
CONSTANTS Marks

VARIABLES
    mark,        \* the requests
    anchors,     \* the committed anchors, by their request
    highlights,  \* the committed rows
    mirror,      \* the entries of the mirror file
    torn         \* the file was cut off in the middle of a write

vars == <<mark, anchors, highlights, mirror, torn>>

TypeOK ==
    /\ mark \in [Marks -> {"idle", "anchored", "flushing", "done"}]
    /\ anchors \subseteq Marks /\ highlights \subseteq Marks /\ mirror \subseteq Marks
    /\ torn \in BOOLEAN

Init ==
    /\ mark = [m \in Marks |-> "idle"]
    /\ anchors = {} /\ highlights = {} /\ mirror = {}
    /\ torn = FALSE

Go(m, pc) == mark' = [mark EXCEPT ![m] = pc]

\* validate_and_anchor: the quote is found and its anchor flushed, or it is not.
Anchor(m) ==
    /\ mark[m] = "idle"
    /\ Go(m, "anchored") \/ Go(m, "done")
    /\ UNCHANGED <<anchors, highlights, mirror, torn>>

\* Mutant: the file is written with the new entry and without the old ones.
WriteMirror_Overwrites(m) ==
    /\ mark[m] = "anchored" /\ ~torn
    /\ mirror' = {m}
    /\ Go(m, "flushing")
    /\ UNCHANGED <<anchors, highlights, torn>>

\* Read, append and write back, with no await in between.
WriteMirror(m) ==
    /\ mark[m] = "anchored" /\ ~torn
    /\ mirror' = mirror \cup {m}
    /\ Go(m, "flushing")
    /\ UNCHANGED <<anchors, highlights, torn>>

\* No such project or paper, or a mirror that is no JSON any more (json.loads
\* raises a ValueError as well): the request says 404 and takes its anchor
\* back; the tool says it in words, and its transaction commits the anchor.
Refused(m) ==
    /\ mark[m] = "anchored"
    /\ anchors' = anchors \/ anchors' = anchors \cup {m}
    /\ Go(m, "done")
    /\ UNCHANGED <<highlights, mirror, torn>>

\* The write raises before it opened the file, or in the middle.
WriteFails(m) ==
    /\ mark[m] = "anchored" /\ ~torn
    /\ torn' \in BOOLEAN
    /\ Go(m, "done")
    /\ UNCHANGED <<anchors, highlights, mirror>>

Commit(m) ==
    /\ mark[m] = "flushing"
    /\ anchors' = anchors \cup {m}
    /\ highlights' = highlights \cup {m}
    /\ Go(m, "done")
    /\ UNCHANGED <<mirror, torn>>

\* The row's INSERT fails, or the transaction is given up: its entry stays.
Abandon(m) ==
    /\ mark[m] = "flushing"
    /\ Go(m, "done")
    /\ UNCHANGED <<anchors, highlights, mirror, torn>>

Next ==
    \E m \in Marks :
        \/ Anchor(m)
        \/ WriteMirror(m)
        \/ Refused(m)
        \/ WriteFails(m)
        \/ Commit(m)
        \/ Abandon(m)

Spec == Init /\ [][Next]_vars

\* Every highlight has its anchor and, unless a write of the mirror was cut off,
\* its entry in the mirror, however many requests write it at once.
HighlightsMirrored ==
    /\ highlights \subseteq anchors
    /\ ~torn => highlights \subseteq mirror
=============================================================================

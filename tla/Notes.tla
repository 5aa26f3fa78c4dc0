------------------------------- MODULE Notes -------------------------------
(***************************************************************************)
(* The notes of a project: vault.write_note, which writes a note's file and *)
(* then its index row, in the transaction of its caller.  A POST or PATCH   *)
(* commits at once; a tool's transaction is the tool call's, which may yet  *)
(* be rolled back.  The file is written without an await, the statements    *)
(* around it are not.                                                      *)
(*                                                                         *)
(* All titles have one slug, so a path is the number of its suffix, and the *)
(* frontmatter {id, title} has a row's id and title.  A note's id is the    *)
(* request that created it.  A process that dies is every request's         *)
(* Abandon.                                                                *)
(***************************************************************************)
EXTENDS Naturals

CONSTANTS Writers, Titles, Bodies, None, Torn

VARIABLES
    notes,   \* the committed rows, by the request that created them
    files,   \* the files, by path
    write,   \* the calls of write_note
    loose    \* history: the paths of which row and file may disagree

vars == <<notes, files, write, loose>>

Paths == Nat \ {0}
Texts == [title : Titles, body : Bodies]
Rows  == [path : Paths, title : Titles, body : Bodies]
Files == [id : Writers, title : Titles, body : Bodies]

\* alone: no other call has had this path in hand since this one took it.
WriteRecords ==
    [pc : {"idle", "probing", "writing", "flushing", "flushed", "done"},
     note : Writers \cup {None}, path : Nat, base : Texts \cup {None},
     new : Texts \cup {None}, alone : BOOLEAN]

TypeOK ==
    /\ notes \in [Writers -> Rows \cup {None}]
    /\ \A p \in DOMAIN files : p \in Paths /\ files[p] \in Files \cup {None, Torn}
    /\ write \in [Writers -> WriteRecords]
    /\ loose \subseteq Paths

Init ==
    /\ notes = [w \in Writers |-> None]
    /\ files = [p \in 1 .. 0 |-> None]
    /\ write = [w \in Writers |-> [pc |-> "idle", note |-> None, path |-> 0, base |-> None,
                                   new |-> None, alone |-> TRUE]]
    /\ loose = {}

Holding == {"writing", "flushing", "flushed"}
Others(w, p) == {v \in Writers \ {w} : write[v].pc \in Holding /\ write[v].path = p}
Stored(p, f) == files' = [q \in DOMAIN files \cup {p} |-> IF q = p THEN f ELSE files[q]]
Go(w, pc) == write' = [write EXCEPT ![w].pc = pc]

\* w takes the path of its call c in hand: from here on it may write the file.
Takes(w, c) ==
    LET others == Others(w, c.path)
    IN  /\ write' = [v \in Writers |->
                        IF v = w THEN [c EXCEPT !.pc = "writing", !.alone = others = {}]
                        ELSE IF v \in others THEN [write[v] EXCEPT !.alone = FALSE]
                        ELSE write[v]]
        /\ loose' = IF others = {} THEN loose ELSE loose \cup {c.path}
        /\ UNCHANGED <<notes, files>>

-----------------------------------------------------------------------------
\* A new note; its path is yet to be found.
Create(w, text) ==
    /\ write[w].pc = "idle"
    /\ write' = [write EXCEPT ![w].pc = "probing", ![w].note = w, ![w].path = 1,
                              ![w].new = text]
    /\ UNCHANGED <<notes, files, loose>>

Free(p) == \A n \in Writers : notes[n] # None => notes[n].path # p

\* Mutant: a note of an existing title is put where that one is.
Probe_First(w) == write[w].pc = "probing" /\ Takes(w, write[w])

\* The candidate path is some committed row's, or it is this note's.
Probe(w) ==
    /\ write[w].pc = "probing"
    /\ \/ Free(write[w].path) /\ Takes(w, write[w])
       \/ /\ ~Free(write[w].path)
          /\ write' = [write EXCEPT ![w].path = @ + 1]
          /\ UNCHANGED <<notes, files, loose>>

\* An edit reads the row; what update_note was not given it takes from there.
ReadNote(w, n, given) ==
    /\ write[w].pc = "idle" /\ notes[n] # None
    /\ Takes(w, [write[w] EXCEPT
           !.note = n, !.path = notes[n].path,
           !.base = [title |-> notes[n].title, body |-> notes[n].body],
           !.new = [title |-> IF given.title = None THEN notes[n].title ELSE given.title,
                    body  |-> IF given.body = None THEN notes[n].body ELSE given.body]])

WriteFile(w) ==
    LET c == write[w] IN
    /\ c.pc = "writing"
    /\ Stored(c.path, [id |-> c.note, title |-> c.new.title, body |-> c.new.body])
    /\ Go(w, "flushing")
    /\ UNCHANGED <<notes, loose>>

\* An edit that ends without its row leaves what it did to the file.
Left(c) == IF c.note \in Writers /\ c.base # None THEN loose \cup {c.path} ELSE loose

\* The file is not written, or only in part.
WriteFails(w) ==
    LET c == write[w] IN
    /\ c.pc = "writing"
    /\ \/ UNCHANGED files
       \/ Stored(c.path, Torn)
    /\ loose' = Left(c)
    /\ Go(w, "done")
    /\ UNCHANGED notes

\* An UPDATE sets the columns that differ from what was read.
Kept(c, f) == c.base # None /\ c.new[f] = c.base[f]
Updates(c) == c.base # None /\ c.new # c.base

\* Another transaction has inserted this path, or updated this row, and has not
\* ended: the statement waits for it.
Blocked(w) == \E v \in Others(w, write[w].path) :
    /\ write[v].pc = "flushed"
    /\ \/ write[w].base = None /\ write[v].base = None
       \/ Updates(write[w]) /\ Updates(write[v])

Flush(w) ==
    /\ write[w].pc = "flushing" /\ ~Blocked(w)
    /\ write[w].base = None => Free(write[w].path)
    /\ Go(w, "flushed")
    /\ UNCHANGED <<notes, files, loose>>

\* The path was taken since the SELECT: VaultWriteFailed, with the file written.
PathTaken(w) ==
    /\ write[w].pc = "flushing" /\ ~Blocked(w)
    /\ write[w].base = None /\ ~Free(write[w].path)
    /\ Go(w, "done")
    /\ UNCHANGED <<notes, files, loose>>

Commit(w) ==
    LET c == write[w] IN
    /\ c.pc = "flushed"
    /\ notes' = [notes EXCEPT ![c.note] =
           [path  |-> c.path,
            title |-> IF Kept(c, "title") THEN @.title ELSE c.new.title,
            body  |-> IF Kept(c, "body") THEN @.body ELSE c.new.body]]
    /\ loose' = IF c.alone THEN loose \ {c.path} ELSE loose
    /\ Go(w, "done")
    /\ UNCHANGED files

\* Stop, a timeout or an exception of the tool call, a process that dies.
Abandon(w) ==
    /\ write[w].pc \in {"flushing", "flushed"}
    /\ loose' = Left(write[w])
    /\ Go(w, "done")
    /\ UNCHANGED <<notes, files>>

Next ==
    \E w \in Writers :
        \/ \E text \in Texts : Create(w, text)
        \/ Probe(w)
        \/ \E n \in Writers, t \in Titles \cup {None}, b \in Bodies \cup {None} :
               ReadNote(w, n, [title |-> t, body |-> b])
        \/ WriteFile(w)
        \/ WriteFails(w)
        \/ Flush(w)
        \/ PathTaken(w)
        \/ Commit(w)
        \/ Abandon(w)

Spec == Init /\ [][Next]_vars

-----------------------------------------------------------------------------
Settled(p) == \A w \in Writers : write[w].path = p => write[w].pc \notin {"flushing", "flushed"}

\* A note's file holds its row, id, title and body, unless two writes of that
\* path overlapped or an edit ended without its row; and the next edit of its
\* own makes up for either.
NotesAgree ==
    \A n \in Writers : notes[n] # None =>
        LET p == notes[n].path IN
        Settled(p) /\ p \notin loose =>
            /\ p \in DOMAIN files
            /\ files[p] = [id |-> n, title |-> notes[n].title, body |-> notes[n].body]
=============================================================================

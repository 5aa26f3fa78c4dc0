------------------------------- MODULE Matrix -------------------------------
(***************************************************************************)
(* The stored cells of one paper's row in a literature matrix              *)
(* (backend/matrix): a view answers every custom column that has no stored *)
(* cell with a model call and stores what it finds; the researcher edits   *)
(* any cell. Views and edits are transactions that read first and write    *)
(* later, and the unique constraint of matrix_cells never applies, since   *)
(* one of its columns is always NULL.                                      *)
(***************************************************************************)
EXTENDS Naturals, Sequences

CONSTANTS
    Columns,   \* column keys
    Custom,    \* the columns answered by a scoped extraction
    Views,     \* get_matrix_view requests
    Edits,     \* update_cell requests
    MaxEdits,  \* bound: values the researcher enters
    None       \* request not in progress

VARIABLES
    selected,  \* the paper is in matrices.selected_paper_ids
    cells,     \* the rows of matrix_cells for each column
    view,      \* the columns a view found without a cell
    edit,      \* column and row an edit found, and whether it is stale
    last,      \* the value the researcher entered last in a column
    edits,     \* values entered
    raced      \* columns given a row by a request that had read before another one wrote

vars == <<selected, cells, view, edit, last, edits, raced>>

Extracted == [source |-> "extracted", value |-> 0]
User(n)   == [source |-> "user", value |-> n]
Cells     == {Extracted} \cup {User(n) : n \in 1 .. MaxEdits}
Reads     == [column : Columns, found : Nat]

TypeOK ==
    /\ selected \in BOOLEAN
    /\ \A c \in Columns : cells[c] \in Seq(Cells)
    /\ view \in [Views -> (SUBSET Custom) \cup {None}]
    /\ edit \in [Edits -> Reads \cup {None}]
    /\ last \in [Columns -> 0 .. MaxEdits] /\ edits \in 0 .. MaxEdits
    /\ raced \subseteq Columns

Init ==
    /\ selected = FALSE
    /\ cells = [c \in Columns |-> <<>>]
    /\ view = [v \in Views |-> None] /\ edit = [e \in Edits |-> None]
    /\ last = [c \in Columns |-> 0] /\ edits = 0 /\ raced = {}

\* A paper taken out of the matrix keeps its cells.
UpdateMatrix ==
    /\ selected' = ~selected
    /\ UNCHANGED <<cells, view, edit, last, edits, raced>>

Inserted(columns, cell) ==
    /\ cells' = [c \in Columns |-> IF c \in columns THEN Append(cells[c], cell) ELSE cells[c]]
    /\ raced' = raced \cup {c \in columns : cells[c] # <<>>}

(***************************************************************************)
(* get_matrix_view: _cell_overrides, then one _run_scoped_extraction per   *)
(* custom column without a cell, all committed together.                   *)
(***************************************************************************)
Missing == {c \in Custom : cells[c] = <<>>}

ViewRead(v) ==
    /\ view[v] = None /\ selected
    /\ view' = [view EXCEPT ![v] = Missing]
    /\ UNCHANGED <<selected, cells, edit, last, edits, raced>>

\* The model fails or finds no quote that resolves for some of the columns.
ViewCommit(v) ==
    /\ view[v] # None
    /\ \E answered \in SUBSET view[v] : Inserted(answered, Extracted)
    /\ view' = [view EXCEPT ![v] = None]
    /\ UNCHANGED <<selected, edit, last, edits>>

(***************************************************************************)
(* update_cell: look up by hand, then overwrite or insert. Of several rows *)
(* for a cell it finds any.                                                *)
(***************************************************************************)
EditRead(e, c) ==
    /\ edit[e] = None /\ selected
    /\ \E found \in IF cells[c] = <<>> THEN {0} ELSE DOMAIN cells[c] :
          edit' = [edit EXCEPT ![e] = [column |-> c, found |-> found]]
    /\ UNCHANGED <<selected, cells, view, last, edits, raced>>

Entered(e) ==
    /\ edits < MaxEdits /\ edits' = edits + 1
    /\ last' = [last EXCEPT ![edit[e].column] = edits + 1]
    /\ edit' = [edit EXCEPT ![e] = None]

\* Mutant: an extracted cell is left exactly as it was.
EditUpdate_SparesExtracted(e) ==
    /\ edit[e] # None /\ edit[e].found # 0
    /\ Entered(e)
    /\ cells' = [cells EXCEPT ![edit[e].column][edit[e].found] =
                    IF @ = Extracted THEN @ ELSE User(edits + 1)]
    /\ UNCHANGED <<selected, view, raced>>

EditUpdate(e) ==
    /\ edit[e] # None /\ edit[e].found # 0
    /\ Entered(e)
    /\ cells' = [cells EXCEPT ![edit[e].column][edit[e].found] = User(edits + 1)]
    /\ UNCHANGED <<selected, view, raced>>

EditInsert(e) ==
    /\ edit[e] # None /\ edit[e].found = 0
    /\ Entered(e)
    /\ Inserted({edit[e].column}, User(edits + 1))
    /\ UNCHANGED <<selected, view>>

Next ==
    \/ UpdateMatrix
    \/ \E v \in Views : ViewRead(v) \/ ViewCommit(v)
    \/ \E e \in Edits : EditUpdate(e) \/ EditInsert(e) \/ \E c \in Columns : EditRead(e, c)

Spec == Init /\ [][Next]_vars

(***************************************************************************)
(* Properties.                                                             *)
(***************************************************************************)
\* A cell has one row, and shows what the researcher entered last, unless two
\* requests overlapped that both found it empty.
CellShowsLastEdit == \A c \in Columns \ raced :
    /\ Len(cells[c]) <= 1
    /\ last[c] # 0 => cells[c] = <<User(last[c])>>
=============================================================================

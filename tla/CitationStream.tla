--------------------------- MODULE CitationStream ---------------------------
(***************************************************************************)
(* The cite-aware stream of one turn (backend/harness/streaming.py): text  *)
(* deltas go in, safe text comes out. Prose passes, a <cite> span and a    *)
(* quoted span are held until they close and come out cited or unverified. *)
(* Deltas may split a delimiter anywhere, and the turn may end anywhere.   *)
(*                                                                         *)
(* The alphabet: two halves of <cite>, two of </cite> (the second half is  *)
(* the same), a quote mark and anything else. <unverified> in the input is *)
(* stray markup as </cite> is, and left out; one quote mark stands for     *)
(* both kinds. In the output a validated span stands between marks of its  *)
(* own, so that markup of the model's cannot be taken for the stream's.    *)
(***************************************************************************)
EXTENDS Naturals, Sequences, SequencesExt, Selection

CONSTANTS
    MaxLength,  \* bound: tokens the model streams
    MaxDelta,   \* bound: tokens of a delta
    MinQuote,   \* _MIN_UNTAGGED_QUOTE_CHARS, in tokens
    Verbatim    \* quotes the validator resolves

VARIABLES
    input,   \* what the model streams
    fed,     \* how much of it came
    stream,  \* the CitationStream
    ended    \* the turn has ended

vars == <<input, fed, stream, ended>>

LtCi   == "<ci"
LtSlCi == "</ci"
Te     == "te>"
Quote  == "'"
Other  == "x"
Tokens == {LtCi, LtSlCi, Te, Quote, Other}

OpenTag  == <<LtCi, Te>>
CloseTag == <<LtSlCi, Te>>
SpanKinds == {"cite", "unverified"}
Span(kind, quote) == <<kind>> \o quote \o <<"end">>

Fresh == [state |-> "prose", buf |-> <<>>, held |-> <<>>, text |-> <<>>, citations |-> <<>>]

TypeOK ==
    /\ input \in Seq(Tokens) /\ fed \in 0 .. Len(input) /\ ended \in BOOLEAN
    /\ stream.state \in {"prose", "in_tag", "in_quote"}
    /\ stream.buf \in Seq(Tokens) /\ stream.held \in Seq(Tokens)
    /\ stream.text \in Seq(Tokens \cup SpanKinds \cup {"end"})
    /\ \A i \in DOMAIN stream.citations : stream.citations[i] \in Verbatim

(***************************************************************************)
(* Helpers.                                                                *)
(***************************************************************************)
At(s, i, literal)  == SubSeq(s, i, i + Len(literal) - 1) = literal
Upto(s, i)         == SubSeq(s, 1, i)
After(s, i)        == SubSeq(s, i + 1, Len(s))
FirstIn(positions) == CHOOSE i \in positions : \A j \in positions : i <= j

\* _strip_tag_markup: one pass over the matches, which never overlap.
IsMarkup(s, i) == i < Len(s) /\ (At(s, i, OpenTag) \/ At(s, i, CloseTag))

_strip_tag_markup(s) ==
    LET kept == Among([i \in DOMAIN s |-> i],
                      {i \in DOMAIN s : ~IsMarkup(s, i) /\ ~(i > 1 /\ IsMarkup(s, i - 1))})
    IN  [k \in DOMAIN kept |-> s[kept[k]]]

\* Mutant: the tail of a delta is taken for complete.
_partial_suffix_overlap_None(buf, literals) == 0

\* How much of the end of buf may still grow into one of the literals.
_partial_suffix_overlap(buf, literals) ==
    IF buf # <<>> /\ \E literal \in literals : Last(buf) = Head(literal) THEN 1 ELSE 0

Emit(s, piece)     == [s EXCEPT !.text = @ \o piece]
InState(s, state)  == [s EXCEPT !.state = state, !.held = <<>>]

_resolve_span(s, quote) ==
    IF quote \in Verbatim
    THEN [Emit(s, Span("cite", quote)) EXCEPT !.citations = Append(@, quote)]
    ELSE Emit(s, Span("unverified", quote))

(***************************************************************************)
(* The three states. A step that changes nothing is blocked.               *)
(***************************************************************************)
Triggers(buf) == {i \in DOMAIN buf : buf[i] = Quote \/ IsMarkup(buf, i)}

_advance_prose(s) ==
    IF Triggers(s.buf) = {}
    THEN LET n == Len(s.buf) - _partial_suffix_overlap(s.buf, {OpenTag, CloseTag})
         IN  [Emit(s, Upto(s.buf, n)) EXCEPT !.buf = After(@, n)]
    ELSE LET i    == FirstIn(Triggers(s.buf))
             next == [Emit(s, Upto(s.buf, i - 1)) EXCEPT
                         !.buf = After(@, IF s.buf[i] = Quote THEN i ELSE i + 1)]
         IN  IF s.buf[i] = Quote THEN InState(next, "in_quote")
             ELSE IF At(s.buf, i, OpenTag) THEN InState(next, "in_tag") ELSE next

_advance_in_tag(s) ==
    LET closers == {i \in 1 .. Len(s.buf) - 1 : At(s.buf, i, CloseTag)} IN
    IF closers = {}
    THEN LET n == Len(s.buf) - _partial_suffix_overlap(s.buf, {CloseTag})
         IN  [s EXCEPT !.held = @ \o Upto(s.buf, n), !.buf = After(@, n)]
    ELSE LET i     == FirstIn(closers)
             quote == _strip_tag_markup(s.held \o Upto(s.buf, i - 1))
         IN  _resolve_span([InState(s, "prose") EXCEPT !.buf = After(@, i + 1)], quote)

\* Any < gives the quote up; a short one is prose after all.
_advance_in_quote(s) ==
    LET ends == {i \in DOMAIN s.buf : s.buf[i] \in {Quote, LtCi, LtSlCi}} IN
    IF ends = {}
    THEN [s EXCEPT !.held = @ \o s.buf, !.buf = <<>>]
    ELSE LET i       == FirstIn(ends)
             content == s.held \o Upto(s.buf, i - 1)
             prose   == InState(s, "prose")
         IN  IF s.buf[i] # Quote
             THEN [Emit(prose, <<Quote>> \o content) EXCEPT !.buf = After(@, i - 1)]
             ELSE IF Len(content) >= MinQuote
             THEN _resolve_span([prose EXCEPT !.buf = After(@, i)], content)
             ELSE [Emit(prose, <<Quote>> \o content \o <<Quote>>) EXCEPT !.buf = After(@, i)]

Advance(s) ==
    CASE s.state = "prose"    -> _advance_prose(s)
      [] s.state = "in_tag"   -> _advance_in_tag(s)
      [] s.state = "in_quote" -> _advance_in_quote(s)

\* The loop of feed: a token costs two advances at most, and one that is
\* blocked changes nothing more.
Blocked(s) ==
    LET most == 2 * Len(s.buf) + 2
        after[n \in 0 .. most] == IF n = 0 THEN s ELSE Advance(after[n - 1])
    IN  after[most]

feed(s, delta) == Blocked([s EXCEPT !.buf = @ \o delta])

flush(s) ==
    LET rest == s.held \o s.buf
        out  == [InState(s, "prose") EXCEPT !.buf = <<>>]
    IN  IF s.state = "prose" THEN Emit(out, rest)
        ELSE Emit(out, Span("unverified", _strip_tag_markup(rest)))

(***************************************************************************)
(* A turn.                                                                 *)
(***************************************************************************)
Init ==
    /\ input \in UNION {[1 .. n -> Tokens] : n \in 0 .. MaxLength}
    /\ fed = 0 /\ stream = Fresh /\ ended = FALSE

Delta(n) ==
    /\ ~ended /\ fed + n <= Len(input)
    /\ stream' = feed(stream, SubSeq(input, fed + 1, fed + n))
    /\ fed' = fed + n
    /\ UNCHANGED <<input, ended>>

\* Completion, interrupt, iteration cap or error.
End ==
    /\ ~ended /\ ended' = TRUE
    /\ stream' = flush(stream)
    /\ UNCHANGED <<input, fed>>

Next == End \/ \E n \in 1 .. MaxDelta : Delta(n)

Spec == Init /\ [][Next]_vars

(***************************************************************************)
(* Properties.                                                             *)
(***************************************************************************)
\* Where the deltas split the text makes no difference to what is shown,
\* stored and cited, wherever the turn ends.
SplitsDontMatter == ended => stream = flush(feed(Fresh, Upto(input, fed)))
=============================================================================

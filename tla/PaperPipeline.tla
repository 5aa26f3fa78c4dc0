---------------------------- MODULE PaperPipeline ----------------------------
(***************************************************************************)
(* The Paper Pipeline (backend/papers) with the jobs it runs on            *)
(* (backend/jobs), the chunks the embed stage writes (backend/memory), the *)
(* requests that start it (backend/api/papers.py) and the Library's Retry  *)
(* button (frontend/src/library).                                          *)
(*                                                                         *)
(* One action is one database transaction, one enqueue or one job start:   *)
(* every job is a chain of short transactions with awaits between them.    *)
(* Jobs of one kind for one paper are interchangeable, so the state counts *)
(* them: Count(p, k, at) is how many k-jobs of p stand at that point.  A    *)
(* job that has work to hand on stands at the kind it is about to enqueue. *)
(***************************************************************************)
EXTENDS Naturals, Sequences, FiniteSets, FiniteSetsExt

CONSTANTS
    Papers,      \* canonical ids
    Cites,       \* Cites[p]: the references of p that resolve to a source id
    OpenCopies,  \* papers with an open-access PDF
    Fields,      \* fields of the extractive card
    Concurrency, \* handlers SAQ's worker runs at once
    MaxLive,     \* bound: live jobs of a kind for a paper when a request adds one
    MaxTrouble,  \* bound: failures, timeouts, crashes, retries of a stage whose
                 \* job is live or coming, and papers opened before their trace ran
    NoRow        \* a paper that has no row

ASSUME PaperPipelineAssumption ==
    /\ Cites \in [Papers -> SUBSET Papers] /\ OpenCopies \subseteq Papers
    /\ Concurrency \in Nat \ {0} /\ MaxLive \in Nat \ {0} /\ MaxTrouble \in Nat

Stages   == {"fetch", "parse", "embed", "extract", "references"}
Kinds    == Stages \cup {"enrich"}
States   == {"queued", "running", "done", "failed", "degraded", "skipped"}
Terminal == {"done", "degraded"}
Rows     == [Stages -> States]

ASSUME NoRowAssumption == NoRow \notin Rows

Sources  == {"abstract", "paper_section"}

VARIABLES
    row,      \* papers: the state of each stage, once the row is committed
    pdf,      \* papers.pdf_path is set
    content,  \* the paper_content row exists
    chunks,   \* paper_chunks: how often each source was indexed (2: more than once)
    cards,    \* paper_cards: fields with a row
    adding,   \* an add_paper has enqueued the fetch and not committed the row
    jobs,     \* SAQ's queue and the handlers running in this process
    reembed,  \* papers whose embed stage was enqueued by a retry
    doubled,  \* papers a stage of which was enqueued while its job was live or had run
    orphaned, \* stages whose job went without leaving a final state
    trouble   \* failures, hasty retries and openings so far

tables  == <<row, pdf, content, chunks, cards>>
history == <<reembed, doubled, orphaned>>
vars    == <<row, pdf, content, chunks, cards, adding, jobs, reembed, doubled,
             orphaned, trouble>>

\* The kinds a job enqueues, in order, after the transaction that ends its work.
HandOffs(k) == CASE k = "fetch"   -> <<"parse">>
                 [] k = "parse"   -> <<"extract", "embed", "references">>
                 [] k = "extract" -> <<"enrich">>
                 [] OTHER         -> <<>>

\* Where a job of each kind can stand.
Points(k) ==
    {"waiting", "working"}
        \cup {HandOffs(k)[i] : i \in DOMAIN HandOffs(k)}
        \cup (IF k = "embed" THEN {"abstracted", "indexed"} ELSE {})
        \cup (IF k = "extract" THEN {"carded"} ELSE {})

Places == {pl \in Papers \X Kinds \X UNION {Points(k) : k \in Kinds} :
              pl[3] \in Points(pl[2])}

Count(p, k, at) == jobs[<<p, k, at>>]
Running       == MapThenSumSet(LAMBDA pl : jobs[pl], {pl \in Places : pl[3] # "waiting"})
Live(p, k)    == \E at \in Points(k) : Count(p, k, at) > 0
Exists(p)     == row[p] # NoRow
IsStub(p)     == Exists(p) /\ row[p]["fetch"] = "skipped"
FreshRow(f)   == [s \in Stages |-> IF s = "fetch" THEN f ELSE "queued"]
SetStage(p, s, st) == row' = [row EXCEPT ![p][s] = st]

TypeOK ==
    /\ row \in [Papers -> Rows \cup {NoRow}]
    /\ pdf \in [Papers -> BOOLEAN] /\ content \in [Papers -> BOOLEAN]
    /\ chunks \in [Papers -> [Sources -> 0 .. 2]]
    /\ cards \in [Papers -> SUBSET Fields]
    /\ adding \in [Papers -> BOOLEAN]
    /\ jobs \in [Places -> Nat]
    /\ reembed \subseteq Papers /\ doubled \subseteq Papers
    /\ orphaned \in [Papers -> SUBSET Stages]
    /\ trouble \in 0 .. MaxTrouble

Init ==
    /\ row = [p \in Papers |-> NoRow]
    /\ pdf = [p \in Papers |-> FALSE]
    /\ content = [p \in Papers |-> FALSE]
    /\ chunks = [p \in Papers |-> [s \in Sources |-> 0]]
    /\ cards = [p \in Papers |-> {}]
    /\ adding = [p \in Papers |-> FALSE]
    /\ jobs = [pl \in Places |-> 0]
    /\ reembed = {} /\ doubled = {}
    /\ orphaned = [p \in Papers |-> {}]
    /\ trouble = 0

(***************************************************************************)
(* The queue.                                                              *)
(***************************************************************************)
Room(p, ks) == \A k \in ks : MapThenSumSet(LAMBDA at : Count(p, k, at), Points(k)) < MaxLive

\* A stage is enqueued again while its earlier job is live, or after it ran.
Repeats(p, ks) == \E k \in ks \cap Stages :
    Live(p, k) \/ (Exists(p) /\ row[p][k] \notin {"queued", "skipped", "failed"})

NoteRepeats(p, ks) == doubled' = IF Repeats(p, ks) THEN doubled \cup {p} ELSE doubled

Enqueue(p, ks) ==
    /\ Room(p, ks)
    /\ jobs' = [pl \in Places |->
                   IF pl[1] = p /\ pl[2] \in ks /\ pl[3] = "waiting"
                   THEN jobs[pl] + 1 ELSE jobs[pl]]
    /\ NoteRepeats(p, ks)
    /\ orphaned' = [orphaned EXCEPT ![p] = @ \ ks]

At(p, k, at) == Count(p, k, at) > 0
\* A job of the stage is live, or a job that will still enqueue one.
Coming(p, s) ==
    \/ Live(p, s)
    \/ \E k \in Kinds : \E i \in DOMAIN HandOffs(k) :
          HandOffs(k)[i] = s /\ \E n \in 1 .. i : At(p, k, HandOffs(k)[n])

Starts(p, k) == At(p, k, "waiting") /\ Running < Concurrency
Leave(p, k, at)      == jobs' = [jobs EXCEPT ![<<p, k, at>>] = @ - 1]
Move(p, k, from, to) ==
    jobs' = [jobs EXCEPT ![<<p, k, from>>] = @ - 1, ![<<p, k, to>>] = @ + 1]

\* The point after a handler's work: its first hand-off.
First(k) == HandOffs(k)[1]

\* Where a handler has work to do before its stage has a final state.
Unfinished == {"working", "abstracted", "indexed"}

Orphan(p, k) == orphaned' = [orphaned EXCEPT ![p] = @ \cup ({k} \cap Stages)]

Trouble == trouble < MaxTrouble /\ trouble' = trouble + 1

\* await jobs.enqueue(next), after the handler's own transaction committed.
HandOff(p, k) ==
    \E i \in DOMAIN HandOffs(k) :
       LET next == HandOffs(k)[i]
           to   == IF i < Len(HandOffs(k)) THEN HandOffs(k)[i + 1] ELSE "end"
       IN  /\ At(p, k, next)
           /\ jobs' = [pl \in Places |->
                          CASE pl = <<p, k, next>>            -> jobs[pl] - 1
                            [] pl = <<p, next, "waiting">>    -> jobs[pl] + 1
                            [] pl = <<p, k, to>>              -> jobs[pl] + 1
                            [] OTHER                          -> jobs[pl]]
           /\ NoteRepeats(p, {next})
           /\ orphaned' = [orphaned EXCEPT ![p] = @ \ {next}]
           /\ UNCHANGED <<tables, adding, reembed, trouble>>

(***************************************************************************)
(* add_paper and its request.                                              *)
(***************************************************************************)
\* A row that exists is returned as it is: nothing happens.  A new one is
\* flushed and its fetch enqueued before the request's session commits.
AddPaper(p) ==
    /\ ~Exists(p) /\ ~adding[p]
    /\ adding' = [adding EXCEPT ![p] = TRUE]
    /\ Enqueue(p, {"fetch"})
    /\ UNCHANGED <<tables, reembed, trouble>>

CommitAdd(p) ==
    /\ adding[p]
    /\ adding' = [adding EXCEPT ![p] = FALSE]
    /\ row' = [row EXCEPT ![p] = FreshRow("queued")]
    /\ UNCHANGED <<pdf, content, chunks, cards, jobs, history, trouble>>

\* The request fails after the enqueue: the row is rolled back, the job stays.
AbortAdd(p) ==
    /\ adding[p] /\ Trouble
    /\ adding' = [adding EXCEPT ![p] = FALSE]
    /\ UNCHANGED <<tables, jobs, history>>

(***************************************************************************)
(* Retry, Promote and opening a paper.                                     *)
(***************************************************************************)
\* Mutant: the later stages do not wait for the parse.
Redriven_NoParse(p) ==
    LET r == row[p]
    IN  IF r["fetch"] \notin Terminal THEN {"fetch"}
        ELSE IF r["fetch"] = "done" THEN {s \in Stages : r[s] \notin Terminal} ELSE {}

\* The stages reprocess_paper re-drives from the state the row is in.
Redriven(p) ==
    LET r == row[p]
    IN  IF r["fetch"] \notin Terminal THEN {"fetch"}
        ELSE IF r["fetch"] = "done" /\ r["parse"] \notin Terminal THEN {"parse"}
        ELSE IF r["parse"] = "done"
        THEN {s \in {"extract", "embed", "references"} : r[s] \notin Terminal}
        ELSE {}

\* Each stage is flushed as queued before its enqueue, so a job that starts at
\* once waits on the row lock until the request commits.
Reprocess(p) ==
    /\ Exists(p)
    /\ Enqueue(p, Redriven(p))
    /\ row' = [row EXCEPT ![p] = [s \in Stages |->
                  IF s \in Redriven(p) THEN "queued" ELSE @[s]]]
    /\ reembed' = IF "embed" \in Redriven(p) THEN reembed \cup {p} ELSE reembed
    /\ IF \E s \in Redriven(p) : Coming(p, s) THEN Trouble ELSE UNCHANGED trouble
    /\ UNCHANGED <<pdf, content, chunks, cards, adding>>

\* Mutant: only failures can be retried.
needsRetry_Failed(p) == \E s \in Stages \ {"references"} : row[p][s] = "failed"

\* The Library shows Retry for a failed stage, and for a queued one whose
\* prerequisite is done.
needsRetry(p) ==
    LET r == row[p]
    IN  \/ \E s \in Stages \ {"references"} : r[s] = "failed"
        \/ r["fetch"] = "done" /\ r["parse"] = "queued"
        \/ r["parse"] = "done" /\ "queued" \in {r["embed"], r["extract"]}

Retry(p) == Exists(p) /\ needsRetry(p) /\ Reprocess(p)

\* The Reader's "Add to library" on a reference stub.
Promote(p) == IsStub(p) /\ Reprocess(p)

\* GET /api/papers/:id heals: it enqueues a trace that never ran.
OpenPaper(p) ==
    /\ Exists(p) /\ row[p]["references"] = "queued"
    /\ Trouble
    /\ Enqueue(p, {"references"})
    /\ UNCHANGED <<tables, adding, reembed>>

(***************************************************************************)
(* fetch_pdf_job: one transaction, whose outcome is all that is ever seen. *)
(***************************************************************************)
FetchStart(p) ==
    /\ Starts(p, "fetch")
    /\ IF Exists(p)
       THEN Move(p, "fetch", "waiting", "working") /\ UNCHANGED orphaned
       ELSE Leave(p, "fetch", "waiting") /\ Orphan(p, "fetch")
    /\ UNCHANGED <<tables, adding, reembed, doubled, trouble>>

\* Mutant: a state that papers_fetch_state_check does not list.
FetchEnd_Paywalled(p) ==
    /\ At(p, "fetch", "working")
    /\ SetStage(p, "fetch", "paywalled")
    /\ Leave(p, "fetch", "working")
    /\ UNCHANGED <<pdf, content, chunks, cards, adding, history, trouble>>

FetchEnd(p) ==
    /\ At(p, "fetch", "working")
    /\ \/ /\ p \in OpenCopies
          /\ pdf' = [pdf EXCEPT ![p] = TRUE]
          /\ SetStage(p, "fetch", "done")
          /\ Move(p, "fetch", "working", First("fetch"))
       \/ /\ SetStage(p, "fetch", "degraded")  \* no open copy, or an HTTP error
          /\ Leave(p, "fetch", "working")
          /\ UNCHANGED pdf
    /\ UNCHANGED <<content, chunks, cards, adding, history, trouble>>

(***************************************************************************)
(* parse_paper_job: running is committed first; the content row has the    *)
(* paper as its primary key.                                               *)
(***************************************************************************)
ParseStart(p) ==
    /\ Starts(p, "parse")
    /\ IF Exists(p) /\ pdf[p]
       THEN Move(p, "parse", "waiting", "working") /\ SetStage(p, "parse", "running")
       ELSE Leave(p, "parse", "waiting") /\ UNCHANGED row
    /\ UNCHANGED <<pdf, content, chunks, cards, adding, history, trouble>>

ParseEnd(p) ==
    /\ At(p, "parse", "working")
    /\ ~content[p]
    /\ content' = [content EXCEPT ![p] = TRUE]
    /\ SetStage(p, "parse", "done")
    /\ Move(p, "parse", "working", First("parse"))
    /\ UNCHANGED <<pdf, chunks, cards, adding, history, trouble>>

\* A second content row violates the primary key: the job dies, running stays.
ParseDuplicate(p) ==
    /\ At(p, "parse", "working")
    /\ content[p]
    /\ Leave(p, "parse", "working")
    /\ Orphan(p, "parse")
    /\ UNCHANGED <<tables, adding, reembed, doubled, trouble>>

(***************************************************************************)
(* embed_paper_job: two indexing transactions between two state writes.    *)
(***************************************************************************)
Indexed(p, src) == chunks' = [chunks EXCEPT ![p][src] = IF @ < 2 THEN @ + 1 ELSE 2]

EmbedStart(p) ==
    /\ Starts(p, "embed")
    /\ Move(p, "embed", "waiting", "working")
    /\ SetStage(p, "embed", "running")
    /\ UNCHANGED <<pdf, content, chunks, cards, adding, history, trouble>>

EmbedAbstract(p) ==
    /\ At(p, "embed", "working")
    /\ Move(p, "embed", "working", "abstracted")
    /\ Indexed(p, "abstract")
    /\ UNCHANGED <<row, pdf, content, cards, adding, history, trouble>>

EmbedSections(p) ==
    /\ At(p, "embed", "abstracted")
    /\ Move(p, "embed", "abstracted", "indexed")
    /\ IF content[p] THEN Indexed(p, "paper_section") ELSE UNCHANGED chunks
    /\ UNCHANGED <<row, pdf, content, cards, adding, history, trouble>>

EmbedEnd(p) ==
    /\ At(p, "embed", "indexed")
    /\ Leave(p, "embed", "indexed")
    /\ SetStage(p, "embed", "done")
    /\ UNCHANGED <<pdf, content, chunks, cards, adding, history, trouble>>

(***************************************************************************)
(* extract_card_job: the cards and done commit together; the edges are a   *)
(* transaction of their own; enrichment is enqueued last.                  *)
(***************************************************************************)
ExtractStart(p) ==
    /\ Starts(p, "extract")
    /\ SetStage(p, "extract", "running")
    /\ IF content[p]
       THEN Move(p, "extract", "waiting", "working") /\ UNCHANGED orphaned
       ELSE Leave(p, "extract", "waiting") /\ Orphan(p, "extract")
    /\ UNCHANGED <<pdf, content, chunks, cards, adding, reembed, doubled, trouble>>

\* The fields whose quote Provenance located get a card each, one per field.
ExtractEnd(p) ==
    /\ At(p, "extract", "working")
    /\ \E located \in SUBSET Fields :
          /\ located \cap cards[p] = {}
          /\ cards' = [cards EXCEPT ![p] = @ \cup located]
    /\ SetStage(p, "extract", "done")
    /\ Move(p, "extract", "working", "carded")
    /\ UNCHANGED <<pdf, content, chunks, adding, history, trouble>>

\* A second card for a field violates the unique key, which no except catches.
ExtractDuplicate(p) ==
    /\ At(p, "extract", "working")
    /\ cards[p] # {}
    /\ Leave(p, "extract", "working")
    /\ Orphan(p, "extract")
    /\ UNCHANGED <<tables, adding, reembed, doubled, trouble>>

WriteEdges(p) ==
    /\ At(p, "extract", "carded")
    /\ Move(p, "extract", "carded", First("extract"))
    /\ UNCHANGED <<tables, adding, history, trouble>>

\* enrich_paper_job overwrites the links it finds; it has no stage of its own.
Enrich(p) ==
    /\ Starts(p, "enrich")
    /\ Leave(p, "enrich", "waiting")
    /\ UNCHANGED <<tables, adding, history, trouble>>

(***************************************************************************)
(* trace_references_job: running first; the stubs of the references it     *)
(* resolved, their edges and done commit together.                         *)
(***************************************************************************)
TraceStart(p) ==
    /\ Starts(p, "references")
    /\ SetStage(p, "references", "running")
    /\ IF content[p]
       THEN Move(p, "references", "waiting", "working") /\ UNCHANGED orphaned
       ELSE Leave(p, "references", "waiting") /\ Orphan(p, "references")
    /\ UNCHANGED <<pdf, content, chunks, cards, adding, reembed, doubled, trouble>>

\* Mutant: every reference is written as a stub.
TraceEnd_Upsert(p) ==
    /\ At(p, "references", "working")
    /\ \A q \in Cites[p] : ~adding[q]
    /\ Leave(p, "references", "working")
    /\ row' = [q \in Papers |->
                  IF q = p THEN [row[p] EXCEPT !["references"] = "done"]
                  ELSE IF q \in Cites[p] THEN FreshRow("skipped") ELSE row[q]]
    /\ UNCHANGED <<pdf, content, chunks, cards, adding, history, trouble>>

\* add_reference_stub returns a row that exists untouched, whatever it is, and
\* waits for one that is being added (then it fails on the unique canonical id).
TraceEnd(p) ==
    /\ At(p, "references", "working")
    /\ \A q \in Cites[p] : ~adding[q]
    /\ Leave(p, "references", "working")
    /\ row' = [q \in Papers |->
                  IF q = p THEN [row[p] EXCEPT !["references"] = "done"]
                  ELSE IF q \in Cites[p] /\ ~Exists(q) THEN FreshRow("skipped")
                  ELSE row[q]]
    /\ UNCHANGED <<pdf, content, chunks, cards, adding, history, trouble>>

(***************************************************************************)
(* Failures.  An exception in embed, in every extraction window or in the  *)
(* trace writes failed; one in fetch, parse, the edges or a timeout (a     *)
(* cancellation, which no handler catches) leaves the state as it stands.  *)
(***************************************************************************)
\* Mutant: the failure is not recorded.
StageFails_Silent(p) ==
    /\ Trouble
    /\ \E pt \in {<<"embed", "working">>, <<"embed", "abstracted">>,
                   <<"extract", "working">>, <<"references", "working">>} :
          At(p, pt[1], pt[2]) /\ Leave(p, pt[1], pt[2])
    /\ UNCHANGED <<tables, adding, history>>

StageFails(p) ==
    /\ Trouble
    /\ \E pt \in {<<"embed", "working">>, <<"embed", "abstracted">>,
                   <<"extract", "working">>, <<"references", "working">>} :
          /\ At(p, pt[1], pt[2])
          /\ Leave(p, pt[1], pt[2])
          /\ SetStage(p, pt[1], "failed")
    /\ UNCHANGED <<pdf, content, chunks, cards, adding, history>>

JobDies(p) ==
    /\ Trouble
    /\ \E k \in Kinds : \E at \in Points(k) \ {"waiting"} :
          /\ At(p, k, at) /\ Leave(p, k, at)
          /\ Orphan(p, IF at \in Unfinished THEN k ELSE "enrich")
    /\ UNCHANGED <<tables, adding, reembed, doubled>>

\* The sidecar dies and comes back: the handlers and the open requests are
\* gone, the queue is in Postgres.
Crash ==
    /\ Trouble
    /\ jobs' = [pl \in Places |-> IF pl[3] = "waiting" THEN jobs[pl] ELSE 0]
    /\ adding' = [p \in Papers |-> FALSE]
    /\ orphaned' = [p \in Papers |-> orphaned[p] \cup
          {s \in Stages : \E at \in Unfinished \cap Points(s) :
                             Count(p, s, at) > 0}]
    /\ UNCHANGED <<tables, reembed, doubled>>

Worker(p) ==
    \/ FetchStart(p) \/ FetchEnd(p)
    \/ ParseStart(p) \/ ParseEnd(p) \/ ParseDuplicate(p)
    \/ EmbedStart(p) \/ EmbedAbstract(p) \/ EmbedSections(p) \/ EmbedEnd(p)
    \/ ExtractStart(p) \/ ExtractEnd(p) \/ ExtractDuplicate(p) \/ WriteEdges(p)
    \/ Enrich(p) \/ TraceStart(p) \/ TraceEnd(p)
    \/ \E k \in Kinds : HandOff(p, k)

Researcher(p) == AddPaper(p) \/ Retry(p) \/ Promote(p) \/ OpenPaper(p)

Failure(p) == AbortAdd(p) \/ StageFails(p) \/ JobDies(p)

Next == Crash \/ \E p \in Papers : Researcher(p) \/ CommitAdd(p) \/ Worker(p) \/ Failure(p)

\* The worker runs what it was given, requests in progress commit or fail, and
\* the researcher presses a Retry button that stays on the screen.
Fairness == \A p \in Papers :
    /\ WF_vars(CommitAdd(p)) /\ WF_vars(Retry(p))
    /\ WF_vars(FetchStart(p)) /\ WF_vars(FetchEnd(p))
    /\ WF_vars(ParseStart(p)) /\ WF_vars(ParseEnd(p)) /\ WF_vars(ParseDuplicate(p))
    /\ WF_vars(EmbedStart(p)) /\ WF_vars(EmbedAbstract(p))
    /\ WF_vars(EmbedSections(p)) /\ WF_vars(EmbedEnd(p))
    /\ WF_vars(ExtractStart(p)) /\ WF_vars(ExtractEnd(p)) /\ WF_vars(WriteEdges(p))
    /\ WF_vars(TraceStart(p)) /\ WF_vars(TraceEnd(p))
    /\ \A k \in Kinds : WF_vars(HandOff(p, k))

Spec == Init /\ [][Next]_vars /\ Fairness

(***************************************************************************)
(* Properties.                                                             *)
(***************************************************************************)
\* A stage that has started or ended has what it works on, and what is done
\* left its output behind: the chain hands on only after the commit.
TextBehindStages == \A p \in Papers : Exists(p) =>
    /\ row[p]["fetch"] = "done" => pdf[p]
    /\ row[p]["parse"] = "done" => content[p]
    /\ row[p]["embed"] # "queued" => content[p]
    /\ row[p]["extract"] # "queued" => content[p]
    /\ row[p]["embed"] = "done" => \A src \in Sources : chunks[p][src] > 0
    /\ row[p]["references"] = "done" => \A q \in Cites[p] : Exists(q)

\* However many parses race, a paper is indexed once unless its embed stage
\* was retried: the second parse cannot hand on.
IndexedOnce == \A p \in Papers :
    (\E src \in Sources : chunks[p][src] > 1) => p \in reembed

\* A reference stub costs nothing: until somebody promotes it, nothing but a
\* reference trace ever runs for it.
StubsInert == \A p \in Papers : IsStub(p) =>
    /\ ~pdf[p] /\ ~content[p] /\ cards[p] = {}
    /\ \A k \in {"parse", "embed", "extract", "enrich"} : ~Live(p, k)

\* What the status columns say of a paper is what is stored of it.
StatusHonest == TextBehindStages /\ IndexedOnce /\ StubsInert

Due(p, s) == CASE s = "fetch" -> TRUE
               [] s = "parse" -> row[p]["fetch"] = "done"
               [] s = "references" -> FALSE
               [] OTHER       -> row[p]["parse"] = "done"

\* A paper never stalls unseen: a stage whose turn it is is done, has a job
\* coming, or the Library shows Retry; only a job that vanished in the middle
\* of its work escapes this.
NoSilentStall == \A p \in Papers : Exists(p) /\ ~IsStub(p) =>
    \A s \in Stages \ orphaned[p] :
       Due(p, s) /\ row[p][s] \notin Terminal => Coming(p, s) \/ needsRetry(p)

\* Unless some stage of the paper was enqueued twice, no stage leaves done; and
\* no paper turns back into a stub because another one cites it.
NeverRegresses == [][\A p \in Papers : Exists(p) =>
    /\ p \notin doubled => \A s \in Stages : row[p][s] = "done" => row'[p][s] = "done"
    /\ ~IsStub(p) => row'[p]["fetch"] # "skipped"]_vars

Settled(p) ==
    /\ Exists(p)
    /\ \/ row[p]["fetch"] = "degraded"
       \/ \A s \in Stages \ {"references"} : row[p][s] = "done"

\* Once faults stop, Retry is enough: every paper of a library settles, unless
\* one of its jobs vanished in the middle of its work.
Settles == \A p \in Papers :
    Exists(p) /\ ~IsStub(p) ~> Settled(p) \/ orphaned[p] # {}

=============================================================================

------------------------- MODULE PaperPipeline_proof -------------------------
(* The safety of PaperPipeline for every value of its constants.  Almost    *)
(* every step is one paper's, so the inductive invariant is stated paper by *)
(* paper, over the numbers of its jobs at each of their points.             *)
EXTENDS PaperPipeline, TLAPS

-----------------------------------------------------------------------------
(* The inductive invariant, part by part.                                   *)

\* Where a stage's job still has its work before it.
Before(p, s) ==
    Count(p, s, "waiting") + Count(p, s, "working")
      + (IF s = "embed" THEN Count(p, s, "abstracted") + Count(p, s, "indexed") ELSE 0)

\* Nothing but a fetch that cannot start is left of a paper without a row.
Rowed(p) ==
    /\ ~Exists(p) => /\ \A k \in Kinds \ {"fetch"} : ~Live(p, k)
                     /\ Count(p, "fetch", "working") = 0 /\ Count(p, "fetch", "parse") = 0
    /\ adding[p] => ~Exists(p)

\* Only a fetch may be skipped, and a fetch has four states.
RowShape(p) == Exists(p) =>
    /\ row[p] \in Rows
    /\ row[p]["fetch"] \in {"queued", "done", "degraded", "skipped"}
    /\ \A s \in Stages \ {"fetch"} : row[p][s] # "skipped"

\* Without a row, and with a stub's, nothing is stored and nothing is coming.
Blank(p) == ~Exists(p) \/ IsStub(p) =>
    /\ ~pdf[p] /\ ~content[p] /\ cards[p] = {}
    /\ \A k \in {"parse", "embed", "extract", "enrich"} : ~Live(p, k)

\* A job has its input, from the moment it is about to be enqueued.
Fed(p) ==
    /\ Count(p, "fetch", "parse") > 0 \/ Live(p, "parse") => pdf[p]
    /\ \/ Live(p, "embed") \/ Live(p, "extract")
       \/ \E at \in {"extract", "embed", "references"} : Count(p, "parse", at) > 0
       => content[p]
    /\ Count(p, "embed", "abstracted") > 0 \/ Count(p, "embed", "indexed") > 0
         => chunks[p]["abstract"] > 0
    /\ Count(p, "embed", "indexed") > 0 => chunks[p]["paper_section"] > 0
    /\ ~content[p] => chunks[p]["abstract"] = 0 /\ chunks[p]["paper_section"] = 0

\* What is indexed and what is about to be is one, unless embed was retried.
Coming1(p) == Count(p, "parse", "extract") + Count(p, "parse", "embed")
                + Count(p, "embed", "waiting") + Count(p, "embed", "working")
Once(p) == p \notin reembed =>
    /\ Coming1(p) + chunks[p]["abstract"] <= 1
    /\ Coming1(p) + Count(p, "embed", "abstracted") + chunks[p]["paper_section"] <= 1

Text(p) == Exists(p) =>
    /\ row[p]["fetch"] = "done" => pdf[p]
    /\ row[p]["parse"] = "done" => content[p]
    /\ row[p]["embed"] # "queued" => content[p]
    /\ row[p]["extract"] # "queued" => content[p]
    /\ row[p]["embed"] = "done" => chunks[p]["abstract"] > 0 /\ chunks[p]["paper_section"] > 0
    /\ row[p]["references"] = "done" => \A q \in Cites[p] : Exists(q)

\* A fetch that is queued, and a stage that is running, has its job, or lost it.
Unstalled(p) ==
    /\ adding[p] \/ (Exists(p) /\ row[p]["fetch"] = "queued")
         => "fetch" \in orphaned[p] \/ Before(p, "fetch") > 0
    /\ \A s \in {"parse", "embed", "extract"} :
         Exists(p) /\ row[p][s] = "running" => s \in orphaned[p] \/ Before(p, s) > 0

\* A stage enqueued once has one job, and none once it is done.
Single(p) == p \notin doubled => \A s \in Stages :
    /\ Before(p, s) <= 1
    /\ Exists(p) /\ row[p][s] = "done" => Before(p, s) = 0

PaperInv(p) == /\ Rowed(p) /\ RowShape(p) /\ Blank(p) /\ Fed(p)
               /\ Once(p) /\ Text(p) /\ Unstalled(p) /\ Single(p)

PipelineInv == \A p \in Papers : PaperInv(p)

-----------------------------------------------------------------------------
(* Where a job can stand, spelled out.                                      *)

\* The points of each kind: its work, then what is left to hand on.
LEMMA PointsAre ==
    /\ Points("fetch") = {"waiting", "working", "parse"}
    /\ Points("parse") = {"waiting", "working", "extract", "embed", "references"}
    /\ Points("embed") = {"waiting", "working", "abstracted", "indexed"}
    /\ Points("extract") = {"waiting", "working", "enrich", "carded"}
    /\ Points("references") = {"waiting", "working"}
    /\ Points("enrich") = {"waiting", "working"}
<1>1. /\ HandOffs("fetch") = <<"parse">>
      /\ HandOffs("parse") = <<"extract", "embed", "references">>
      /\ HandOffs("extract") = <<"enrich">>
      /\ HandOffs("embed") = << >> /\ HandOffs("references") = << >>
      /\ HandOffs("enrich") = << >>
  BY DEF HandOffs
<1>2. Points("fetch") = {"waiting", "working", "parse"}
  BY <1>1 DEF Points
<1>3. Points("parse") = {"waiting", "working", "extract", "embed", "references"}
  BY <1>1 DEF Points
<1>4. /\ Points("embed") = {"waiting", "working", "abstracted", "indexed"}
      /\ Points("references") = {"waiting", "working"}
      /\ Points("enrich") = {"waiting", "working"}
  BY <1>1 DEF Points
<1>5. Points("extract") = {"waiting", "working", "enrich", "carded"}
  BY <1>1 DEF Points
<1> QED
  BY <1>2, <1>3, <1>4, <1>5

\* A place is a paper, a kind and one of its points.
LEMMA PlaceIs ==
    ASSUME NEW p \in Papers, NEW k \in Kinds, NEW at
    PROVE  <<p, k, at>> \in Places <=> at \in Points(k)
  BY DEF Places

\* A job that moves on, or leaves, changes nothing but its own points.
LEMMA Moved ==
    ASSUME TypeOK, NEW p \in Papers, NEW k \in Kinds,
           NEW from \in Points(k), NEW to \in Points(k), from # to,
           At(p, k, from), Move(p, k, from, to)
    PROVE  /\ jobs' \in [Places -> Nat]
           /\ Count(p, k, from)' = Count(p, k, from) - 1
           /\ Count(p, k, to)' = Count(p, k, to) + 1
           /\ \A q \in Papers, k2 \in Kinds : \A at \in Points(k2) :
                 <<q, k2, at>> # <<p, k, from>> /\ <<q, k2, at>> # <<p, k, to>>
                   => Count(q, k2, at)' = Count(q, k2, at)
<1>1. <<p, k, from>> \in Places /\ <<p, k, to>> \in Places
  BY PlaceIs
<1>2. jobs \in [Places -> Nat] /\ Count(p, k, from) > 0
  BY DEF TypeOK, At, Count
<1>3. \A q \in Papers, k2 \in Kinds : \A at \in Points(k2) : <<q, k2, at>> \in Places
  BY PlaceIs
<1> QED
  BY <1>1, <1>2, <1>3 DEF Move, Count

LEMMA Left ==
    ASSUME TypeOK, NEW p \in Papers, NEW k \in Kinds,
           NEW from \in Points(k), At(p, k, from), Leave(p, k, from)
    PROVE  /\ jobs' \in [Places -> Nat]
           /\ Count(p, k, from)' = Count(p, k, from) - 1
           /\ \A q \in Papers, k2 \in Kinds : \A at \in Points(k2) :
                 <<q, k2, at>> # <<p, k, from>> => Count(q, k2, at)' = Count(q, k2, at)
<1>1. <<p, k, from>> \in Places
  BY PlaceIs
<1>2. jobs \in [Places -> Nat] /\ Count(p, k, from) > 0
  BY DEF TypeOK, At, Count
<1>3. \A q \in Papers, k2 \in Kinds : \A at \in Points(k2) : <<q, k2, at>> \in Places
  BY PlaceIs
<1> QED
  BY <1>1, <1>2, <1>3 DEF Leave, Count

\* An enqueue adds one waiting job of each kind it names.
LEMMA Enqueued ==
    ASSUME TypeOK, NEW p \in Papers, NEW ks, Enqueue(p, ks)
    PROVE  /\ jobs' \in [Places -> Nat]
           /\ \A k \in Kinds \cap ks : Count(p, k, "waiting")' = Count(p, k, "waiting") + 1
           /\ \A q \in Papers, k \in Kinds : \A at \in Points(k) :
                 q # p \/ k \notin ks \/ at # "waiting"
                   => Count(q, k, at)' = Count(q, k, at)
<1>1. \A q \in Papers, k \in Kinds : \A at \in Points(k) : <<q, k, at>> \in Places
  BY PlaceIs
<1>2. \A k \in Kinds : "waiting" \in Points(k)
  BY DEF Points
<1> QED
  BY <1>1, <1>2 DEF Enqueue, TypeOK, Count

\* A stage of a paper that exists, set.
LEMMA StageSet ==
    ASSUME TypeOK, NEW p \in Papers, Exists(p), NEW s \in Stages, NEW st \in States,
           SetStage(p, s, st)
    PROVE  /\ row' \in [Papers -> Rows \cup {NoRow}]
           /\ row'[p] \in Rows /\ row'[p][s] = st
           /\ \A t \in Stages \ {s} : row'[p][t] = row[p][t]
           /\ \A q \in Papers \ {p} : row'[q] = row[q]
<1>1. row \in [Papers -> Rows \cup {NoRow}] /\ row[p] \in Rows
  BY DEF TypeOK, Exists
<1> DEFINE r == [row[p] EXCEPT ![s] = st]
<1>2. r \in Rows /\ r[s] = st /\ \A t \in Stages \ {s} : r[t] = row[p][t]
  BY <1>1 DEF Rows
<1>3. row' = [row EXCEPT ![p] = r]
  BY DEF SetStage
<1> HIDE DEF r
<1> QED
  BY <1>1, <1>2, <1>3

-----------------------------------------------------------------------------
(* What a step does to one paper.                                           *)

\* The jobs of a paper stay where they are.
JobsStay(q) == \A k \in Kinds : \A at \in Points(k) : Count(q, k, at)' = Count(q, k, at)

\* A step leaves all that is known of a paper alone.
Stays(q) ==
    /\ row'[q] = row[q] /\ pdf'[q] = pdf[q] /\ content'[q] = content[q]
    /\ chunks'[q] = chunks[q] /\ cards'[q] = cards[q] /\ adding'[q] = adding[q]
    /\ (q \in reembed' <=> q \in reembed) /\ (q \in doubled' <=> q \in doubled)
    /\ orphaned'[q] = orphaned[q]
    /\ JobsStay(q)

\* No paper goes.
RowsStay == \A q \in Papers : Exists(q) => Exists(q)'

\* A kind is live when a job stands at one of its points, before and after.
LEMMA LiveIs ==
    ASSUME NEW p \in Papers
    PROVE  /\ Live(p, "fetch") <=> \/ Count(p, "fetch", "waiting") > 0
                                   \/ Count(p, "fetch", "working") > 0
                                   \/ Count(p, "fetch", "parse") > 0
           /\ Live(p, "parse") <=> \/ Count(p, "parse", "waiting") > 0
                                   \/ Count(p, "parse", "working") > 0
                                   \/ Count(p, "parse", "extract") > 0
                                   \/ Count(p, "parse", "embed") > 0
                                   \/ Count(p, "parse", "references") > 0
           /\ Live(p, "embed") <=> \/ Count(p, "embed", "waiting") > 0
                                   \/ Count(p, "embed", "working") > 0
                                   \/ Count(p, "embed", "abstracted") > 0
                                   \/ Count(p, "embed", "indexed") > 0
           /\ Live(p, "extract") <=> \/ Count(p, "extract", "waiting") > 0
                                     \/ Count(p, "extract", "working") > 0
                                     \/ Count(p, "extract", "enrich") > 0
                                     \/ Count(p, "extract", "carded") > 0
           /\ Live(p, "references") <=> \/ Count(p, "references", "waiting") > 0
                                        \/ Count(p, "references", "working") > 0
           /\ Live(p, "enrich") <=> \/ Count(p, "enrich", "waiting") > 0
                                    \/ Count(p, "enrich", "working") > 0
  BY PointsAre DEF Live

\* A job count is a number.
LEMMA Counts ==
    ASSUME NEW p \in Papers
    PROVE  \A k \in Kinds : \A at \in Points(k) :
              /\ TypeOK => Count(p, k, at) \in Nat
              /\ TypeOK' => Count(p, k, at)' \in Nat
  BY PlaceIs DEF TypeOK, Count

\* What holds of a paper goes on holding while a step leaves it alone.
LEMMA Undisturbed ==
    ASSUME NEW q \in Papers, PaperInv(q), Stays(q), RowsStay
    PROVE  PaperInv(q)'
<1>1. \A c \in Cites[q] : c \in Papers
  BY PaperPipelineAssumption
<1>2. \A k \in Kinds : Live(q, k)' <=> Live(q, k)
  BY DEF Stays, JobsStay, Live
<1>3. Exists(q)' <=> Exists(q)
  BY DEF Stays, Exists
<1>4. IsStub(q)' <=> IsStub(q)
  BY DEF Stays, Exists, IsStub
<1>5. /\ \A s \in Stages : Before(q, s)' = Before(q, s)
      /\ Coming1(q)' = Coming1(q)
      /\ \A at \in {"extract", "embed", "references"} :
            Count(q, "parse", at)' = Count(q, "parse", at)
      /\ Count(q, "fetch", "working")' = Count(q, "fetch", "working")
      /\ Count(q, "fetch", "parse")' = Count(q, "fetch", "parse")
      /\ Count(q, "embed", "abstracted")' = Count(q, "embed", "abstracted")
      /\ Count(q, "embed", "indexed")' = Count(q, "embed", "indexed")
  <2>1. \A k \in {"fetch", "parse", "embed", "extract", "references"} :
          /\ "waiting" \in Points(k) /\ "working" \in Points(k) /\ k \in Kinds
    BY PointsAre DEF Kinds, Stages
  <2> QED
    BY <2>1, PointsAre DEF Stays, JobsStay, Before, Coming1, Stages
<1>6. Rowed(q)' /\ RowShape(q)' /\ Blank(q)'
  BY <1>2, <1>3, <1>4, <1>5 DEF PaperInv, Rowed, RowShape, Blank, Stays, Kinds, Stages
<1>7. Fed(q)' /\ Once(q)'
  BY <1>2, <1>5 DEF PaperInv, Fed, Once, Stays, Kinds, Stages
<1>8. Text(q)'
  BY <1>1, <1>3 DEF PaperInv, Text, Stays, RowsStay
<1>9. Unstalled(q)' /\ Single(q)'
  BY <1>3, <1>5 DEF PaperInv, Unstalled, Single, Stays, Stages
<1> QED
  BY <1>6, <1>7, <1>8, <1>9 DEF PaperInv

\* What NeverRegresses asks of a step.
Firm == \A p \in Papers : Exists(p) =>
    /\ p \notin doubled => \A s \in Stages : row[p][s] = "done" => row'[p][s] = "done"
    /\ ~IsStub(p) => row'[p]["fetch"] # "skipped"

\* A step of one paper.
LEMMA OnePaper ==
    ASSUME PipelineInv, NEW p \in Papers, RowsStay, \A q \in Papers \ {p} : Stays(q),
           PaperInv(p)'
    PROVE  PipelineInv'
  BY Undisturbed DEF PipelineInv

\* A stage that loses a job, or ends with its only one, is still single.
LEMMA StillSingle ==
    ASSUME NEW p \in Papers, Single(p), p \in doubled => p \in doubled',
           \A s \in Stages : Before(p, s) \in Nat /\ Before(p, s)' \in Nat,
           \A s \in Stages : Before(p, s)' <= Before(p, s),
           \A s \in Stages : Exists(p)' /\ row'[p][s] = "done"
              => (Exists(p) /\ row[p][s] = "done") \/ Before(p, s)' < Before(p, s)
    PROVE  Single(p)'
<1> SUFFICES ASSUME p \notin doubled, NEW s \in Stages
             PROVE  /\ Before(p, s)' <= 1
                    /\ Exists(p)' /\ row'[p][s] = "done" => Before(p, s)' = 0
  BY DEF Single
<1>1. /\ Before(p, s) <= 1
      /\ Exists(p) /\ row[p][s] = "done" => Before(p, s) = 0
  BY DEF Single
<1> QED
  BY <1>1

\* What is still to be done before a stage ends is a number.
LEMMA Befores ==
    ASSUME NEW p \in Papers, NEW s \in Stages
    PROVE  /\ TypeOK => Before(p, s) \in Nat
           /\ TypeOK' => Before(p, s)' \in Nat
<1>1. /\ s \in Kinds /\ "waiting" \in Points(s) /\ "working" \in Points(s)
      /\ s = "embed" => "abstracted" \in Points(s) /\ "indexed" \in Points(s)
  BY PointsAre DEF Kinds, Stages
<1>2. \A at \in Points(s) : /\ TypeOK => Count(p, s, at) \in Nat
                            /\ TypeOK' => Count(p, s, at)' \in Nat
  BY <1>1, Counts
<1> QED
  BY <1>1, <1>2 DEF Before

-----------------------------------------------------------------------------
(* The shapes of the steps.                                                 *)

Kept == TypeOK' /\ PipelineInv' /\ Firm

\* A job of p goes from one of its points to another, or is over.
JobGoes(p, k, from, to) ==
    /\ k \in Kinds /\ from \in Points(k) /\ At(p, k, from)
    /\ \/ to \in Points(k) \ {from} /\ Move(p, k, from, to)
       \/ to = "end" /\ Leave(p, k, from)

LEMMA JobGoesEffect ==
    ASSUME TypeOK, NEW p \in Papers, NEW k, NEW from, NEW to, JobGoes(p, k, from, to)
    PROVE  /\ jobs' \in [Places -> Nat]
           /\ \A q \in Papers \ {p} : JobsStay(q)
           /\ Count(p, k, from) > 0 /\ Count(p, k, from)' = Count(p, k, from) - 1
           /\ to # from
           /\ to \in Points(k) => Count(p, k, to)' = Count(p, k, to) + 1
           /\ \A at \in Points(k) \ {from, to} : Count(p, k, at)' = Count(p, k, at)
           /\ \A k2 \in Kinds \ {k} :
                 /\ \A at \in Points(k2) : Count(p, k2, at)' = Count(p, k2, at)
                 /\ Live(p, k2)' <=> Live(p, k2)
                 /\ k2 \in Stages => Before(p, k2)' = Before(p, k2)
<1>1. k \in Kinds /\ from \in Points(k) /\ Count(p, k, from) > 0 /\ to # from
  <2>1. "end" \notin Points(k)
    BY PointsAre DEF JobGoes, Kinds, Stages
  <2> QED
    BY <2>1 DEF JobGoes, At
<1>2. /\ jobs' \in [Places -> Nat]
      /\ Count(p, k, from)' = Count(p, k, from) - 1
      /\ to \in Points(k) => Count(p, k, to)' = Count(p, k, to) + 1
      /\ \A q \in Papers, k2 \in Kinds : \A at \in Points(k2) :
            <<q, k2, at>> # <<p, k, from>> /\ <<q, k2, at>> # <<p, k, to>>
              => Count(q, k2, at)' = Count(q, k2, at)
  <2>1. CASE to \in Points(k) \ {from} /\ Move(p, k, from, to)
    BY <2>1, Moved DEF JobGoes
  <2>2. CASE to = "end" /\ Leave(p, k, from)
    <3>1. "end" \notin Points(k)
      BY PointsAre DEF JobGoes, Kinds, Stages
    <3> QED
      BY <2>2, <3>1, Left DEF JobGoes
  <2> QED
    BY <2>1, <2>2 DEF JobGoes
<1>3. \A q \in Papers \ {p} : JobsStay(q)
  BY <1>2 DEF JobsStay
<1>4. /\ \A at \in Points(k) \ {from, to} : Count(p, k, at)' = Count(p, k, at)
      /\ \A k2 \in Kinds \ {k} : \A at \in Points(k2) : Count(p, k2, at)' = Count(p, k2, at)
  BY <1>1, <1>2
<1>5. ASSUME NEW k2 \in Kinds \ {k}
      PROVE  /\ Live(p, k2)' <=> Live(p, k2)
             /\ k2 \in Stages => Before(p, k2)' = Before(p, k2)
  <2>1. Live(p, k2)' <=> Live(p, k2)
    BY <1>4 DEF Live
  <2>2. "waiting" \in Points(k2) /\ "working" \in Points(k2)
    BY DEF Points
  <2>3. k2 = "embed" => "abstracted" \in Points(k2) /\ "indexed" \in Points(k2)
    BY PointsAre
  <2> QED
    BY <1>4, <2>1, <2>2, <2>3 DEF Before
<1> QED
  BY <1>1, <1>2, <1>3, <1>4, <1>5

\* What a worker's step may do beside its job: set the job's own stage, lose it.
StageMay(p, k) ==
    /\ \/ row' = row
       \/ \E st \in {"running", "done", "failed", "degraded"} :
             /\ k \in Stages /\ SetStage(p, k, st)
             /\ k = "fetch" => st \in {"done", "degraded"}
    /\ pdf' \in [Papers -> BOOLEAN] /\ content' \in [Papers -> BOOLEAN]
    /\ chunks' \in [Papers -> [Sources -> 0 .. 2]] /\ cards' \in [Papers -> SUBSET Fields]
    /\ \A q \in Papers \ {p} : /\ pdf'[q] = pdf[q] /\ content'[q] = content[q]
                               /\ chunks'[q] = chunks[q] /\ cards'[q] = cards[q]
    /\ UNCHANGED <<adding, reembed, doubled>>
    /\ orphaned' = orphaned \/ Orphan(p, k)
    /\ trouble' \in 0 .. MaxTrouble

\* A step of one job of a paper that exists: what is left to show is that the
\* job has its input, that the output is there, and that the stage has not lost
\* its last job unseen.
LEMMA WorkerStep ==
    ASSUME TypeOK, PipelineInv, NEW p \in Papers, Exists(p),
           NEW k, NEW from, NEW to, JobGoes(p, k, from, to), StageMay(p, k),
           k \in Stages =>
             /\ Before(p, k)' <= Before(p, k)
             /\ row'[p][k] = "done" => row[p][k] = "done" \/ Before(p, k)' < Before(p, k)
             /\ \/ Before(p, k)' = Before(p, k)
                \/ k \in orphaned'[p] \/ row'[p][k] \notin {"queued", "running"},
           k \in Stages => row'[p][k] = row[p][k] \/ Before(p, k) > 0,
           Blank(p)', Fed(p)', Once(p)', Text(p)'
    PROVE  Kept
<1>1. PaperInv(p) /\ k \in Kinds
  BY DEF PipelineInv, JobGoes
<1>2. /\ row' \in [Papers -> Rows \cup {NoRow}]
      /\ row'[p] \in Rows
      /\ \A t \in Stages \ {k} : row'[p][t] = row[p][t]
      /\ \A q \in Papers \ {p} : row'[q] = row[q]
      /\ k \in Stages => \/ row'[p][k] = row[p][k]
                         \/ /\ row'[p][k] \in {"running", "done", "failed", "degraded"}
                            /\ k = "fetch" => row'[p][k] \in {"done", "degraded"}
  <2>1. CASE row' = row
    BY <2>1 DEF TypeOK, Exists
  <2>2. CASE row' # row
    <3>1. PICK st \in {"running", "done", "failed", "degraded"} :
             /\ k \in Stages /\ SetStage(p, k, st)
             /\ k = "fetch" => st \in {"done", "degraded"}
      BY <2>2 DEF StageMay
    <3>2. st \in States
      BY DEF States
    <3> QED
      BY <3>1, <3>2, StageSet
  <2> QED
    BY <2>1, <2>2
<1>3. Exists(p)' /\ RowsStay
  BY <1>2, NoRowAssumption DEF Exists, RowsStay
<1>4. /\ orphaned' \in [Papers -> SUBSET Stages]
      /\ \A q \in Papers \ {p} : orphaned'[q] = orphaned[q]
      /\ orphaned[p] \subseteq orphaned'[p]
  <2>1. orphaned \in [Papers -> SUBSET Stages]
    BY DEF TypeOK
  <2>2. CASE Orphan(p, k)
    BY <2>1, <2>2 DEF Orphan
  <2> QED
    BY <2>1, <2>2 DEF StageMay
<1>5. /\ jobs' \in [Places -> Nat]
      /\ \A q \in Papers \ {p} : JobsStay(q)
      /\ \A s \in Stages \ {k} : Before(p, s)' = Before(p, s)
  BY JobGoesEffect DEF Kinds
<1>6. TypeOK'
  BY <1>2, <1>4, <1>5 DEF TypeOK, StageMay
<1>7. \A q \in Papers \ {p} : Stays(q)
  BY <1>2, <1>4, <1>5 DEF Stays, StageMay
<1>8. Rowed(p)' /\ RowShape(p)'
  <2>1. ~adding'[p]
    BY <1>1 DEF StageMay, PaperInv, Rowed
  <2> QED
    BY <1>1, <1>2, <1>3, <2>1 DEF PaperInv, Rowed, RowShape, Stages
<1>9. Unstalled(p)'
  <2>1. ASSUME NEW s \in Stages,
               s \notin orphaned[p] => Before(p, s) > 0,
               s = k => row'[p][k] \in {"queued", "running"}
        PROVE  s \in orphaned'[p] \/ Before(p, s)' > 0
    BY <1>4, <1>5, <2>1
  <2>2. ~adding'[p]
    BY <1>1 DEF StageMay, PaperInv, Rowed
  <2>3. row'[p]["fetch"] = "queued" => "fetch" \in orphaned'[p] \/ Before(p, "fetch")' > 0
    BY <1>1, <1>2, <2>1 DEF PaperInv, Unstalled, Stages
  <2>4. ASSUME NEW s \in {"parse", "embed", "extract"}, row'[p][s] = "running"
        PROVE  s \in orphaned'[p] \/ Before(p, s)' > 0
    <3>1. CASE row[p][s] = "running"
      BY <1>1, <2>1, <2>4, <3>1 DEF PaperInv, Unstalled, Stages
    <3>2. CASE row[p][s] # "running"
      <4>1. s = k /\ Before(p, s) > 0
        BY <1>2, <2>4, <3>2 DEF Stages
      <4> QED
        BY <1>4, <2>1, <2>4, <4>1 DEF Stages
    <3> QED
      BY <3>1, <3>2
  <2> QED
    BY <2>2, <2>3, <2>4 DEF Unstalled
<1>10. Single(p)'
  <2>1. \A s \in Stages : Before(p, s) \in Nat
    BY Befores
  <2>2. \A s \in Stages : Before(p, s)' \in Nat
    BY <1>6, Befores
  <2>3. \A s \in Stages : Before(p, s)' <= Before(p, s)
    BY <1>5, <2>1
  <2>4. \A s \in Stages : Exists(p)' /\ row'[p][s] = "done"
              => (Exists(p) /\ row[p][s] = "done") \/ Before(p, s)' < Before(p, s)
    BY <1>2
  <2>5. p \in doubled => p \in doubled'
    BY DEF StageMay
  <2> QED
    BY <1>1, <2>1, <2>2, <2>3, <2>4, <2>5, StillSingle DEF PaperInv
<1>11. PipelineInv'
  BY <1>3, <1>7, <1>8, <1>9, <1>10, OnePaper DEF PaperInv
<1>12. Firm
  <2>1. ASSUME NEW s \in Stages, p \notin doubled, row[p][s] = "done"
        PROVE  row'[p][s] = "done"
    BY <1>1, <1>2, <2>1 DEF PaperInv, Single
  <2>2. ~IsStub(p) => row'[p]["fetch"] # "skipped"
    BY <1>2 DEF IsStub, Stages
  <2>3. ASSUME NEW q \in Papers \ {p}, Exists(q)
        PROVE  /\ \A s \in Stages : row[q][s] = "done" => row'[q][s] = "done"
               /\ ~IsStub(q) => row'[q]["fetch"] # "skipped"
    BY <1>2, <2>3 DEF IsStub
  <2> QED
    BY <2>1, <2>2, <2>3 DEF Firm
<1> QED
  BY <1>6, <1>11, <1>12 DEF Kept

\* Jobs that are over, and an add that is, leave everything else true.
LEMMA Fading ==
    ASSUME TypeOK, TypeOK', NEW q \in Papers, PaperInv(q), RowsStay,
           row'[q] = row[q], pdf'[q] = pdf[q], content'[q] = content[q],
           chunks'[q] = chunks[q], cards'[q] = cards[q], adding'[q] => adding[q],
           q \in reembed' <=> q \in reembed, q \in doubled' <=> q \in doubled,
           orphaned[q] \subseteq orphaned'[q],
           \A k \in Kinds : \A at \in Points(k) : Count(q, k, at)' <= Count(q, k, at),
           \A s \in Stages : Before(q, s)' = Before(q, s) \/ s \in orphaned'[q] \/ Before(q, s) = 0
    PROVE  PaperInv(q)'
<1>1. \A c \in Cites[q] : c \in Papers
  BY PaperPipelineAssumption
<1>2. /\ \A k \in Kinds : \A at \in Points(k) :
            /\ Count(q, k, at) \in Nat /\ Count(q, k, at)' \in Nat
            /\ Count(q, k, at)' > 0 => Count(q, k, at) > 0
      /\ \A k \in Kinds : Live(q, k)' => Live(q, k)
  BY Counts DEF Live
<1>3. Exists(q)' <=> Exists(q)
  BY DEF Exists
<1>4. IsStub(q)' <=> IsStub(q)
  BY DEF Exists, IsStub
<1>5. /\ \A at \in {"extract", "embed", "references"} :
            /\ Count(q, "parse", at) \in Nat /\ Count(q, "parse", at)' \in Nat
            /\ Count(q, "parse", at)' <= Count(q, "parse", at)
      /\ \A at \in {"working", "parse"} :
            /\ Count(q, "fetch", at) \in Nat /\ Count(q, "fetch", at)' \in Nat
            /\ Count(q, "fetch", at)' <= Count(q, "fetch", at)
      /\ \A at \in {"waiting", "working", "abstracted", "indexed"} :
            /\ Count(q, "embed", at) \in Nat /\ Count(q, "embed", at)' \in Nat
            /\ Count(q, "embed", at)' <= Count(q, "embed", at)
  BY <1>2, PointsAre DEF Kinds, Stages
<1>6. \A s \in Stages : /\ Before(q, s) \in Nat /\ Before(q, s)' \in Nat
                        /\ Before(q, s)' <= Before(q, s)
  <2>1. \A s \in Stages : Before(q, s) \in Nat /\ Before(q, s)' \in Nat
    BY Befores
  <2>2. \A s \in Stages : s \in Kinds /\ "waiting" \in Points(s) /\ "working" \in Points(s)
    BY PointsAre DEF Kinds, Stages
  <2> QED
    BY <1>2, <1>5, <2>1, <2>2 DEF Before
<1>7. Rowed(q)' /\ RowShape(q)' /\ Blank(q)'
  BY <1>2, <1>3, <1>4, <1>5 DEF PaperInv, Rowed, RowShape, Blank, Kinds, Stages
<1>8. Fed(q)'
  BY <1>2, <1>5 DEF PaperInv, Fed, Kinds, Stages
<1>9. Once(q)'
  <2>1. Coming1(q) \in Nat /\ Coming1(q)' \in Nat /\ Coming1(q)' <= Coming1(q)
    BY <1>5 DEF Coming1
  <2>2. chunks[q]["abstract"] \in Nat /\ chunks[q]["paper_section"] \in Nat
    BY DEF TypeOK, Sources
  <2>3. /\ Count(q, "embed", "abstracted") \in Nat /\ Count(q, "embed", "abstracted")' \in Nat
        /\ Count(q, "embed", "abstracted")' <= Count(q, "embed", "abstracted")
    BY <1>5
  <2> SUFFICES ASSUME q \notin reembed
               PROVE  /\ Coming1(q)' + chunks[q]["abstract"] <= 1
                      /\ Coming1(q)' + Count(q, "embed", "abstracted")'
                           + chunks[q]["paper_section"] <= 1
    BY DEF Once
  <2>4. /\ Coming1(q) + chunks[q]["abstract"] <= 1
        /\ Coming1(q) + Count(q, "embed", "abstracted") + chunks[q]["paper_section"] <= 1
    BY DEF PaperInv, Once
  <2> QED
    BY <2>1, <2>2, <2>3, <2>4
<1>10. Text(q)'
  BY <1>1, <1>3 DEF PaperInv, Text, RowsStay
<1>11. Unstalled(q)'
  BY <1>3, <1>6 DEF PaperInv, Unstalled, Stages
<1>12. Single(q)'
  BY <1>3, <1>6 DEF PaperInv, Single
<1> QED
  BY <1>7, <1>8, <1>9, <1>10, <1>11, <1>12 DEF PaperInv

\* A job that is over, with its stage's loss on record.
LEMMA JobVanishes ==
    ASSUME TypeOK, PipelineInv, NEW p \in Papers, NEW k, NEW from,
           JobGoes(p, k, from, "end"), UNCHANGED <<tables, adding, reembed, doubled>>,
           trouble' \in 0 .. MaxTrouble,
           \/ Orphan(p, k)
           \/ /\ k = "enrich" \/ from \notin Unfinished \cup {"waiting"}
              /\ orphaned' = orphaned \/ Orphan(p, "enrich")
    PROVE  Kept
<1>1. PaperInv(p) /\ k \in Kinds /\ from \in Points(k)
  BY DEF PipelineInv, JobGoes
<1>2. /\ orphaned' \in [Papers -> SUBSET Stages]
      /\ \A q \in Papers \ {p} : orphaned'[q] = orphaned[q]
      /\ orphaned[p] \subseteq orphaned'[p]
      /\ k \in Stages /\ Orphan(p, k) => k \in orphaned'[p]
  <2>1. orphaned \in [Papers -> SUBSET Stages]
    BY DEF TypeOK
  <2>2. CASE orphaned' = orphaned /\ ~Orphan(p, k)
    BY <2>1, <2>2
  <2>3. CASE Orphan(p, k)
    BY <2>1, <2>3 DEF Orphan
  <2>4. CASE Orphan(p, "enrich") /\ ~Orphan(p, k)
    BY <2>1, <2>4 DEF Orphan
  <2> QED
    BY <2>2, <2>3, <2>4
<1>3. /\ jobs' \in [Places -> Nat]
      /\ \A q \in Papers \ {p} : JobsStay(q)
      /\ \A s \in Stages \ {k} : Before(p, s)' = Before(p, s)
      /\ Count(p, k, from)' = Count(p, k, from) - 1
      /\ \A at \in Points(k) \ {from} : Count(p, k, at)' = Count(p, k, at)
      /\ \A k2 \in Kinds \ {k} : \A at \in Points(k2) : Count(p, k2, at)' = Count(p, k2, at)
  <2>1. "end" \notin Points(k)
    BY <1>1, PointsAre DEF Kinds, Stages
  <2> QED
    BY <2>1, JobGoesEffect DEF Kinds
<1>4. TypeOK'
  BY <1>2, <1>3 DEF TypeOK, tables
<1>5. RowsStay /\ \A q \in Papers \ {p} : Stays(q)
  BY <1>2, <1>3 DEF Stays, RowsStay, Exists, tables
<1>6. \A k2 \in Kinds : \A at \in Points(k2) : Count(p, k2, at)' <= Count(p, k2, at)
  BY <1>1, <1>3, Counts
<1>7. \A s \in Stages : Before(p, s)' = Before(p, s) \/ s \in orphaned'[p] \/ Before(p, s) = 0
  <2>1. ASSUME k \in Stages, from \notin Unfinished \cup {"waiting"}
        PROVE  Before(p, k)' = Before(p, k)
    <3>1. /\ "waiting" \in Points(k) /\ "working" \in Points(k)
          /\ k = "embed" => "abstracted" \in Points(k) /\ "indexed" \in Points(k)
      BY <1>1, PointsAre DEF Kinds, Stages
    <3> QED
      BY <1>3, <2>1, <3>1 DEF Before, Unfinished
  <2> QED
    BY <1>2, <1>3, <2>1 DEF Stages
<1>8. PaperInv(p)'
  BY <1>1, <1>2, <1>4, <1>5, <1>6, <1>7, Fading DEF tables
<1>9. Firm
  BY DEF Firm, tables, IsStub
<1> QED
  BY <1>4, <1>5, <1>8, <1>9, OnePaper DEF Kept

-----------------------------------------------------------------------------
(* The worker's steps.                                                      *)

\* A job that starts, or goes on, has its paper; only the fetch of an add that
\* never committed has none.
LEMMA HasRow ==
    ASSUME TypeOK, PipelineInv, NEW p \in Papers, NEW k \in Kinds, NEW at \in Points(k),
           At(p, k, at), k # "fetch" \/ at # "waiting"
    PROVE  Exists(p) /\ Live(p, k) /\ (k \in {"parse", "embed", "extract", "enrich"} => ~IsStub(p))
<1>1. Live(p, k)
  BY DEF Live, At
<1>2. Exists(p)
  <2>1. CASE k # "fetch"
    BY <1>1, <2>1 DEF PipelineInv, PaperInv, Rowed
  <2>2. CASE k = "fetch"
    BY <2>2, PointsAre DEF PipelineInv, PaperInv, Rowed, At
  <2> QED
    BY <2>1, <2>2
<1> QED
  BY <1>1, <1>2 DEF PipelineInv, PaperInv, Blank

LEMMA FetchStartKeeps ==
    ASSUME TypeOK, PipelineInv, NEW p \in Papers, FetchStart(p)
    PROVE  Kept
<1>1. PaperInv(p) /\ trouble' \in 0 .. MaxTrouble
  BY DEF PipelineInv, FetchStart, TypeOK
<1>2. /\ "fetch" \in Kinds /\ "fetch" \in Stages
      /\ Points("fetch") = {"waiting", "working", "parse"}
  BY PointsAre DEF Kinds, Stages
<1>3. CASE ~Exists(p)
  <2>1. JobGoes(p, "fetch", "waiting", "end") /\ Orphan(p, "fetch")
    BY <1>2, <1>3 DEF FetchStart, Starts, JobGoes
  <2> QED
    BY <1>1, <2>1, JobVanishes DEF FetchStart
<1>4. CASE Exists(p)
  <2>1. JobGoes(p, "fetch", "waiting", "working") /\ orphaned' = orphaned
    BY <1>2, <1>4 DEF FetchStart, Starts, JobGoes
  <2>2. StageMay(p, "fetch")
    BY <1>1, <2>1 DEF FetchStart, StageMay, tables, TypeOK
  <2>3. /\ \A k \in Kinds \ {"fetch"} :
             /\ Live(p, k)' <=> Live(p, k)
             /\ \A at \in Points(k) : Count(p, k, at)' = Count(p, k, at)
        /\ Count(p, "fetch", "waiting")' = Count(p, "fetch", "waiting") - 1
        /\ Count(p, "fetch", "working")' = Count(p, "fetch", "working") + 1
        /\ Count(p, "fetch", "parse")' = Count(p, "fetch", "parse")
    BY <1>2, <2>1, JobGoesEffect
  <2>4. Before(p, "fetch")' = Before(p, "fetch")
    BY <1>2, <2>3, Counts DEF Before
  <2>5. row' = row /\ UNCHANGED <<pdf, content, chunks, cards, reembed>>
    BY DEF FetchStart, tables
  <2>6. Blank(p)' /\ Fed(p)' /\ Once(p)'
    BY <1>1, <2>3, <2>5, PointsAre
    DEF PaperInv, Blank, Fed, Once, Coming1, IsStub, Exists, Kinds, Stages
  <2>7. Text(p)'
    BY <1>1, <2>5 DEF PaperInv, Text, Exists
  <2> QED
    BY <1>4, <2>1, <2>2, <2>4, <2>5, <2>6, <2>7, Befores, WorkerStep
<1> QED
  BY <1>3, <1>4

LEMMA FetchEndKeeps ==
    ASSUME TypeOK, PipelineInv, NEW p \in Papers, FetchEnd(p)
    PROVE  Kept
<1>1. PaperInv(p)
  BY DEF PipelineInv
<1>2. /\ "fetch" \in Kinds /\ "fetch" \in Stages /\ First("fetch") = "parse"
      /\ Points("fetch") = {"waiting", "working", "parse"}
  BY PointsAre DEF Kinds, Stages, First, HandOffs
<1>3. Exists(p)
  BY <1>2, HasRow DEF FetchEnd
<1>4. PICK st \in {"done", "degraded"}, to \in {"parse", "end"} :
        /\ SetStage(p, "fetch", st) /\ JobGoes(p, "fetch", "working", to)
        /\ st = "done" => pdf' = [pdf EXCEPT ![p] = TRUE]
        /\ to = "parse" => st = "done"
        /\ st = "degraded" => pdf' = pdf
  BY <1>2 DEF FetchEnd, JobGoes
<1>5. StageMay(p, "fetch")
  BY <1>2, <1>4 DEF FetchEnd, StageMay, history, TypeOK
<1>6. /\ \A k \in Kinds \ {"fetch"} :
           /\ Live(p, k)' <=> Live(p, k)
           /\ \A at \in Points(k) : Count(p, k, at)' = Count(p, k, at)
      /\ Count(p, "fetch", "waiting")' = Count(p, "fetch", "waiting")
      /\ Count(p, "fetch", "working")' = Count(p, "fetch", "working") - 1
      /\ Count(p, "fetch", "parse")' > 0 => Count(p, "fetch", "parse") > 0 \/ st = "done"
  BY <1>2, <1>4, JobGoesEffect
<1>7. Before(p, "fetch")' = Before(p, "fetch") - 1
  BY <1>2, <1>6, Counts DEF Before
<1>8. /\ row'[p]["fetch"] = st /\ Exists(p)' /\ RowsStay
      /\ \A t \in Stages \ {"fetch"} : row'[p][t] = row[p][t]
  <2>1. st \in States
    BY DEF States
  <2> QED
    BY <1>2, <1>3, <1>4, <2>1, StageSet, NoRowAssumption DEF Exists, RowsStay
<1>9. /\ pdf'[p] <=> pdf[p] \/ st = "done"
      /\ UNCHANGED <<content, chunks, cards, reembed>>
  BY <1>4 DEF FetchEnd, TypeOK, history
<1>10. Blank(p)'
  BY <1>4, <1>8 DEF Blank, IsStub
<1>11. Fed(p)' /\ Once(p)'
  BY <1>1, <1>6, <1>9, PointsAre DEF PaperInv, Fed, Once, Coming1, Kinds, Stages
<1>12. Text(p)'
  <2>1. \A c \in Cites[p] : c \in Papers
    BY PaperPipelineAssumption
  <2> QED
    BY <1>1, <1>3, <1>4, <1>8, <1>9, <2>1 DEF PaperInv, Text, RowsStay, Stages
<1>13. Before(p, "fetch")' < Before(p, "fetch") /\ Before(p, "fetch") > 0
  BY <1>2, <1>4, <1>6, <1>7, Befores, JobGoesEffect, Counts DEF Before
<1>14. /\ Before(p, "fetch")' <= Before(p, "fetch")
       /\ row'[p]["fetch"] \notin {"queued", "running"}
  <2>1. Before(p, "fetch") \in Nat
    BY <1>2, Befores
  <2> QED
    BY <1>4, <1>7, <1>8, <2>1
<1> QED
  BY <1>3, <1>4, <1>5, <1>10, <1>11, <1>12, <1>13, <1>14, WorkerStep

LEMMA ParseStartKeeps ==
    ASSUME TypeOK, PipelineInv, NEW p \in Papers, ParseStart(p)
    PROVE  Kept
<1>1. PaperInv(p)
  BY DEF PipelineInv
<1>2. /\ "parse" \in Kinds /\ "parse" \in Stages
      /\ Points("parse") = {"waiting", "working", "extract", "embed", "references"}
  BY PointsAre DEF Kinds, Stages
<1>3. Exists(p) /\ Live(p, "parse") /\ ~IsStub(p)
  BY <1>2, HasRow DEF ParseStart, Starts
<1>4. pdf[p]
  BY <1>1, <1>3 DEF PaperInv, Fed
<1>5. SetStage(p, "parse", "running") /\ JobGoes(p, "parse", "waiting", "working")
  BY <1>2, <1>3, <1>4 DEF ParseStart, Starts, JobGoes
<1>6. StageMay(p, "parse")
  BY <1>2, <1>5 DEF ParseStart, StageMay, history, TypeOK
<1>7. /\ \A k \in Kinds \ {"parse"} :
           /\ Live(p, k)' <=> Live(p, k)
           /\ \A at \in Points(k) : Count(p, k, at)' = Count(p, k, at)
      /\ Count(p, "parse", "waiting")' = Count(p, "parse", "waiting") - 1
      /\ Count(p, "parse", "working")' = Count(p, "parse", "working") + 1
      /\ \A at \in {"extract", "embed", "references"} :
            Count(p, "parse", at)' = Count(p, "parse", at)
  BY <1>2, <1>5, JobGoesEffect
<1>8. Before(p, "parse")' = Before(p, "parse") /\ Before(p, "parse") > 0
  BY <1>2, <1>5, <1>7, Counts DEF Before, JobGoes, At
<1>9. /\ row'[p]["parse"] = "running" /\ Exists(p)' /\ RowsStay
      /\ \A t \in Stages \ {"parse"} : row'[p][t] = row[p][t]
  BY <1>2, <1>3, <1>5, StageSet, NoRowAssumption DEF Exists, RowsStay, States
<1>10. UNCHANGED <<pdf, content, chunks, cards, reembed>>
  BY DEF ParseStart, history
<1>11. Blank(p)'
  BY <1>3, <1>9 DEF Blank, IsStub, Stages
<1>12. Fed(p)' /\ Once(p)'
  BY <1>1, <1>4, <1>7, <1>10, PointsAre DEF PaperInv, Fed, Once, Coming1, Kinds, Stages
<1>13. Text(p)'
  <2>1. \A c \in Cites[p] : c \in Papers
    BY PaperPipelineAssumption
  <2> QED
    BY <1>1, <1>3, <1>9, <1>10, <2>1 DEF PaperInv, Text, RowsStay, Stages
<1> QED
  BY <1>3, <1>5, <1>6, <1>8, <1>9, <1>11, <1>12, <1>13, Befores, WorkerStep

LEMMA ParseEndKeeps ==
    ASSUME TypeOK, PipelineInv, NEW p \in Papers, ParseEnd(p)
    PROVE  Kept
<1>1. PaperInv(p)
  BY DEF PipelineInv
<1>2. /\ "parse" \in Kinds /\ "parse" \in Stages
      /\ Points("parse") = {"waiting", "working", "extract", "embed", "references"}
  BY PointsAre DEF Kinds, Stages
<1>3. Exists(p) /\ Live(p, "parse") /\ ~IsStub(p)
  BY <1>2, HasRow DEF ParseEnd
<1>4. pdf[p] /\ ~content[p]
  BY <1>1, <1>3 DEF PaperInv, Fed, ParseEnd
<1>5. SetStage(p, "parse", "done") /\ JobGoes(p, "parse", "working", "extract")
  BY <1>2, <1>3, <1>4 DEF ParseEnd, JobGoes, First, HandOffs, tables
<1>6. StageMay(p, "parse")
  BY <1>2, <1>5 DEF ParseEnd, StageMay, Indexed, tables, history, TypeOK, Sources
<1>7. /\ \A k \in Kinds \ {"parse"} :
           /\ Live(p, k)' <=> Live(p, k)
           /\ \A at \in Points(k) : Count(p, k, at)' = Count(p, k, at)
      /\ Count(p, "parse", "working") > 0 /\ Count(p, "parse", "working")' = Count(p, "parse", "working") - 1
      /\ Count(p, "parse", "extract")' = Count(p, "parse", "extract") + 1
      /\ Count(p, "parse", "waiting")' = Count(p, "parse", "waiting")
      /\ Count(p, "parse", "embed")' = Count(p, "parse", "embed")
      /\ Count(p, "parse", "references")' = Count(p, "parse", "references")
  BY <1>2, <1>5, JobGoesEffect
<1>8. /\ Before(p, "parse")' = Before(p, "parse") - 1 /\ Before(p, "parse") > 0
      /\ Before(p, "parse") \in Nat /\ Before(p, "parse")' <= Before(p, "parse")
      /\ Before(p, "parse")' < Before(p, "parse")
  <2>1. Before(p, "parse")' = Before(p, "parse") - 1 /\ Before(p, "parse") > 0
    BY <1>2, <1>5, <1>7, Counts DEF Before, JobGoes, At
  <2>2. Before(p, "parse") \in Nat
    BY <1>2, Befores
  <2> QED
    BY <2>1, <2>2
<1>9. /\ row'[p]["parse"] = "done" /\ Exists(p)' /\ RowsStay
      /\ \A t \in Stages \ {"parse"} : row'[p][t] = row[p][t]
  BY <1>2, <1>3, <1>5, StageSet, NoRowAssumption DEF Exists, RowsStay, States
<1>10. /\ content'[p] /\ UNCHANGED <<pdf, chunks, cards, reembed>>
  BY <1>2 DEF ParseEnd, TypeOK, history
<1>11. Blank(p)'
  BY <1>3, <1>9 DEF Blank, IsStub, Stages
<1>12. Fed(p)' /\ Once(p)'
  <2>1. Fed(p)'
    BY <1>1, <1>4, <1>7, <1>10, PointsAre, Counts DEF PaperInv, Fed, Kinds, Stages
  <2>2. \A at \in {"extract", "embed", "references"} : Count(p, "parse", at) = 0
    BY <1>1, <1>2, <1>4, Counts DEF PaperInv, Fed
  <2>3. \A at \in {"waiting", "working", "abstracted", "indexed"} : Count(p, "embed", at) = 0
    BY <1>1, <1>4, PointsAre, Counts DEF PaperInv, Fed, Live, Kinds, Stages
  <2>4. chunks[p]["abstract"] = 0 /\ chunks[p]["paper_section"] = 0
    BY <1>1, <1>4 DEF PaperInv, Fed
  <2>5. /\ Count(p, "parse", "extract")' = 1 /\ Count(p, "parse", "embed")' = 0
        /\ \A at \in {"waiting", "working", "abstracted", "indexed"} : Count(p, "embed", at)' = 0
    BY <1>7, <2>2, <2>3, PointsAre DEF Kinds, Stages
  <2> QED
    BY <1>10, <2>1, <2>4, <2>5 DEF Once, Coming1
<1>13. Text(p)'
  <2>1. \A c \in Cites[p] : c \in Papers
    BY PaperPipelineAssumption
  <2> QED
    BY <1>1, <1>3, <1>4, <1>9, <1>10, <2>1 DEF PaperInv, Text, RowsStay, Stages
<1> QED
  BY <1>3, <1>5, <1>6, <1>8, <1>9, <1>11, <1>12, <1>13, WorkerStep

LEMMA ParseDuplicateKeeps ==
    ASSUME TypeOK, PipelineInv, NEW p \in Papers, ParseDuplicate(p)
    PROVE  Kept
<1>1. "parse" \in Kinds /\ "working" \in Points("parse")
  BY PointsAre DEF Kinds, Stages
<1>2. JobGoes(p, "parse", "working", "end") /\ Orphan(p, "parse")
  BY <1>1 DEF ParseDuplicate, JobGoes
<1> QED
  BY <1>2, JobVanishes DEF ParseDuplicate, TypeOK

LEMMA EmbedStartKeeps ==
    ASSUME TypeOK, PipelineInv, NEW p \in Papers, EmbedStart(p)
    PROVE  Kept
<1>1. PaperInv(p)
  BY DEF PipelineInv
<1>2. /\ "embed" \in Kinds /\ "embed" \in Stages
      /\ Points("embed") = {"waiting", "working", "abstracted", "indexed"}
  BY PointsAre DEF Kinds, Stages
<1>3. Exists(p) /\ Live(p, "embed") /\ ~IsStub(p)
  BY <1>2, HasRow DEF EmbedStart, Starts
<1>4. content[p]
  BY <1>1, <1>3 DEF PaperInv, Fed
<1>5. SetStage(p, "embed", "running") /\ JobGoes(p, "embed", "waiting", "working")
  BY <1>2, <1>3, <1>4 DEF EmbedStart, Starts, JobGoes, First, HandOffs, tables
<1>6. StageMay(p, "embed")
  BY <1>2, <1>5 DEF EmbedStart, StageMay, Indexed, tables, history, TypeOK, Sources
<1>7. /\ \A k \in Kinds \ {"embed"} :
           /\ Live(p, k)' <=> Live(p, k)
           /\ \A at \in Points(k) : Count(p, k, at)' = Count(p, k, at)
      /\ Count(p, "embed", "waiting") > 0 /\ Count(p, "embed", "waiting")' = Count(p, "embed", "waiting") - 1
      /\ Count(p, "embed", "working")' = Count(p, "embed", "working") + 1
      /\ Count(p, "embed", "abstracted")' = Count(p, "embed", "abstracted")
      /\ Count(p, "embed", "indexed")' = Count(p, "embed", "indexed")
  BY <1>2, <1>5, JobGoesEffect
<1>8. /\ Before(p, "embed")' = Before(p, "embed") /\ Before(p, "embed") > 0
      /\ Before(p, "embed") \in Nat /\ Before(p, "embed")' <= Before(p, "embed")
  <2>1. Before(p, "embed")' = Before(p, "embed") /\ Before(p, "embed") > 0
    BY <1>2, <1>5, <1>7, Counts DEF Before, JobGoes, At
  <2>2. Before(p, "embed") \in Nat
    BY <1>2, Befores
  <2> QED
    BY <2>1, <2>2
<1>9. /\ row'[p]["embed"] = "running" /\ Exists(p)' /\ RowsStay
      /\ \A t \in Stages \ {"embed"} : row'[p][t] = row[p][t]
  BY <1>2, <1>3, <1>5, StageSet, NoRowAssumption DEF Exists, RowsStay, States
<1>10. UNCHANGED <<pdf, content, chunks, cards, reembed>>
  BY DEF EmbedStart, tables, history
<1>11. Blank(p)'
  BY <1>3, <1>9 DEF Blank, IsStub, Stages
<1>12. Fed(p)' /\ Once(p)'
  <2>1. Fed(p)'
    BY <1>1, <1>3, <1>4, <1>7, <1>10, PointsAre, Counts DEF PaperInv, Fed, Kinds, Stages
  <2>2. Once(p)'
    <3>1. \A at \in {"extract", "embed"} :
            /\ Count(p, "parse", at) \in Nat /\ Count(p, "parse", at)' = Count(p, "parse", at)
      BY <1>7, PointsAre, Counts DEF Kinds, Stages
    <3>2. \A at \in {"waiting", "working", "abstracted", "indexed"} :
            Count(p, "embed", at) \in Nat
      BY PointsAre, Counts DEF Kinds, Stages
    <3> QED
      BY <1>1, <1>7, <1>10, <3>1, <3>2, PointsAre DEF PaperInv, Once, Coming1, Kinds, Stages
  <2> QED
    BY <2>1, <2>2
<1>13. Text(p)'
  <2>1. \A c \in Cites[p] : c \in Papers
    BY PaperPipelineAssumption
  <2> QED
    BY <1>1, <1>3, <1>4, <1>9, <1>10, <2>1 DEF PaperInv, Text, RowsStay, Stages
<1> QED
  BY <1>3, <1>5, <1>6, <1>8, <1>9, <1>11, <1>12, <1>13, WorkerStep

LEMMA EmbedAbstractKeeps ==
    ASSUME TypeOK, PipelineInv, NEW p \in Papers, EmbedAbstract(p)
    PROVE  Kept
<1>1. PaperInv(p)
  BY DEF PipelineInv
<1>2. /\ "embed" \in Kinds /\ "embed" \in Stages
      /\ Points("embed") = {"waiting", "working", "abstracted", "indexed"}
  BY PointsAre DEF Kinds, Stages
<1>3. Exists(p) /\ Live(p, "embed") /\ ~IsStub(p)
  BY <1>2, HasRow DEF EmbedAbstract
<1>4. content[p]
  BY <1>1, <1>3 DEF PaperInv, Fed
<1>5. row' = row /\ JobGoes(p, "embed", "working", "abstracted")
  BY <1>2, <1>3, <1>4 DEF EmbedAbstract, JobGoes, First, HandOffs, tables
<1>6. StageMay(p, "embed")
  BY <1>2, <1>5 DEF EmbedAbstract, StageMay, Indexed, tables, history, TypeOK, Sources
<1>7. /\ \A k \in Kinds \ {"embed"} :
           /\ Live(p, k)' <=> Live(p, k)
           /\ \A at \in Points(k) : Count(p, k, at)' = Count(p, k, at)
      /\ Count(p, "embed", "working") > 0 /\ Count(p, "embed", "working")' = Count(p, "embed", "working") - 1
      /\ Count(p, "embed", "abstracted")' = Count(p, "embed", "abstracted") + 1
      /\ Count(p, "embed", "waiting")' = Count(p, "embed", "waiting")
      /\ Count(p, "embed", "indexed")' = Count(p, "embed", "indexed")
  BY <1>2, <1>5, JobGoesEffect
<1>8. /\ Before(p, "embed")' = Before(p, "embed") /\ Before(p, "embed") > 0
      /\ Before(p, "embed") \in Nat /\ Before(p, "embed")' <= Before(p, "embed")
  <2>1. Before(p, "embed")' = Before(p, "embed") /\ Before(p, "embed") > 0
    BY <1>2, <1>5, <1>7, Counts DEF Before, JobGoes, At
  <2>2. Before(p, "embed") \in Nat
    BY <1>2, Befores
  <2> QED
    BY <2>1, <2>2
<1>9. row'[p] = row[p] /\ Exists(p)' /\ RowsStay
  BY <1>3, <1>5 DEF Exists, RowsStay
<1>10. /\ chunks'[p]["abstract"] > 0 /\ chunks'[p]["abstract"] <= chunks[p]["abstract"] + 1
       /\ chunks'[p]["paper_section"] = chunks[p]["paper_section"]
       /\ chunks[p]["abstract"] \in Nat /\ chunks[p]["paper_section"] \in Nat
       /\ chunks'[p]["abstract"] \in Nat
       /\ UNCHANGED <<pdf, content, cards, reembed>>
  BY DEF EmbedAbstract, Indexed, TypeOK, Sources, history
<1>11. Blank(p)'
  BY <1>3, <1>9 DEF Blank, IsStub, Stages
<1>12. Fed(p)' /\ Once(p)'
  <2>1. Fed(p)'
    BY <1>1, <1>3, <1>4, <1>7, <1>10, PointsAre, Counts DEF PaperInv, Fed, Kinds, Stages
  <2>2. Once(p)'
    <3>1. \A at \in {"extract", "embed"} :
            /\ Count(p, "parse", at) \in Nat /\ Count(p, "parse", at)' = Count(p, "parse", at)
      BY <1>7, PointsAre, Counts DEF Kinds, Stages
    <3>2. \A at \in {"waiting", "working", "abstracted", "indexed"} :
            Count(p, "embed", at) \in Nat
      BY PointsAre, Counts DEF Kinds, Stages
    <3> QED
      BY <1>1, <1>7, <1>10, <3>1, <3>2, PointsAre DEF PaperInv, Once, Coming1, Kinds, Stages
  <2> QED
    BY <2>1, <2>2
<1>13. Text(p)'
  <2>1. \A c \in Cites[p] : c \in Papers
    BY PaperPipelineAssumption
  <2> QED
    BY <1>1, <1>3, <1>4, <1>9, <1>10, <2>1 DEF PaperInv, Text, RowsStay, Stages
<1> QED
  BY <1>3, <1>5, <1>6, <1>8, <1>9, <1>11, <1>12, <1>13, WorkerStep

LEMMA EmbedSectionsKeeps ==
    ASSUME TypeOK, PipelineInv, NEW p \in Papers, EmbedSections(p)
    PROVE  Kept
<1>1. PaperInv(p)
  BY DEF PipelineInv
<1>2. /\ "embed" \in Kinds /\ "embed" \in Stages
      /\ Points("embed") = {"waiting", "working", "abstracted", "indexed"}
  BY PointsAre DEF Kinds, Stages
<1>3. Exists(p) /\ Live(p, "embed") /\ ~IsStub(p)
  BY <1>2, HasRow DEF EmbedSections
<1>4. content[p]
  BY <1>1, <1>3 DEF PaperInv, Fed
<1>5. row' = row /\ JobGoes(p, "embed", "abstracted", "indexed")
  BY <1>2, <1>3, <1>4 DEF EmbedSections, JobGoes, First, HandOffs, tables
<1>6. StageMay(p, "embed")
  BY <1>2, <1>5 DEF EmbedSections, StageMay, Indexed, tables, history, TypeOK, Sources
<1>7. /\ \A k \in Kinds \ {"embed"} :
           /\ Live(p, k)' <=> Live(p, k)
           /\ \A at \in Points(k) : Count(p, k, at)' = Count(p, k, at)
      /\ Count(p, "embed", "abstracted") > 0 /\ Count(p, "embed", "abstracted")' = Count(p, "embed", "abstracted") - 1
      /\ Count(p, "embed", "indexed")' = Count(p, "embed", "indexed") + 1
      /\ Count(p, "embed", "waiting")' = Count(p, "embed", "waiting")
      /\ Count(p, "embed", "working")' = Count(p, "embed", "working")
  BY <1>2, <1>5, JobGoesEffect
<1>8. /\ Before(p, "embed")' = Before(p, "embed") /\ Before(p, "embed") > 0
      /\ Before(p, "embed") \in Nat /\ Before(p, "embed")' <= Before(p, "embed")
  <2>1. Before(p, "embed")' = Before(p, "embed") /\ Before(p, "embed") > 0
    BY <1>2, <1>5, <1>7, Counts DEF Before, JobGoes, At
  <2>2. Before(p, "embed") \in Nat
    BY <1>2, Befores
  <2> QED
    BY <2>1, <2>2
<1>9. row'[p] = row[p] /\ Exists(p)' /\ RowsStay
  BY <1>3, <1>5 DEF Exists, RowsStay
<1>10. /\ chunks'[p]["paper_section"] > 0
       /\ chunks'[p]["paper_section"] <= chunks[p]["paper_section"] + 1
       /\ chunks'[p]["abstract"] = chunks[p]["abstract"]
       /\ chunks[p]["abstract"] \in Nat /\ chunks[p]["paper_section"] \in Nat
       /\ chunks'[p]["paper_section"] \in Nat
       /\ UNCHANGED <<pdf, content, cards, reembed>>
  BY <1>4 DEF EmbedSections, Indexed, TypeOK, Sources, history
<1>11. Blank(p)'
  BY <1>3, <1>9 DEF Blank, IsStub, Stages
<1>12. Fed(p)' /\ Once(p)'
  <2>1. Fed(p)'
    BY <1>1, <1>3, <1>4, <1>7, <1>10, PointsAre, Counts DEF PaperInv, Fed, Kinds, Stages
  <2>2. Once(p)'
    <3>1. \A at \in {"extract", "embed"} :
            /\ Count(p, "parse", at) \in Nat /\ Count(p, "parse", at)' = Count(p, "parse", at)
      BY <1>7, PointsAre, Counts DEF Kinds, Stages
    <3>2. \A at \in {"waiting", "working", "abstracted", "indexed"} :
            Count(p, "embed", at) \in Nat
      BY PointsAre, Counts DEF Kinds, Stages
    <3> QED
      BY <1>1, <1>7, <1>10, <3>1, <3>2, PointsAre DEF PaperInv, Once, Coming1, Kinds, Stages
  <2> QED
    BY <2>1, <2>2
<1>13. Text(p)'
  <2>1. \A c \in Cites[p] : c \in Papers
    BY PaperPipelineAssumption
  <2> QED
    BY <1>1, <1>3, <1>4, <1>9, <1>10, <2>1 DEF PaperInv, Text, RowsStay, Stages
<1> QED
  BY <1>3, <1>5, <1>6, <1>8, <1>9, <1>11, <1>12, <1>13, WorkerStep

LEMMA EmbedEndKeeps ==
    ASSUME TypeOK, PipelineInv, NEW p \in Papers, EmbedEnd(p)
    PROVE  Kept
<1>1. PaperInv(p)
  BY DEF PipelineInv
<1>2. /\ "embed" \in Kinds /\ "embed" \in Stages
      /\ Points("embed") = {"waiting", "working", "abstracted", "indexed"}
  BY PointsAre DEF Kinds, Stages
<1>3. Exists(p) /\ Live(p, "embed") /\ ~IsStub(p)
  BY <1>2, HasRow DEF EmbedEnd
<1>4. content[p] /\ chunks[p]["abstract"] > 0 /\ chunks[p]["paper_section"] > 0
  BY <1>1, <1>3 DEF PaperInv, Fed, EmbedEnd, At
<1>5. SetStage(p, "embed", "done") /\ JobGoes(p, "embed", "indexed", "end")
  BY <1>2, <1>3, <1>4 DEF EmbedEnd, JobGoes, First, HandOffs, tables
<1>6. StageMay(p, "embed")
  BY <1>2, <1>5 DEF EmbedEnd, StageMay, Indexed, tables, history, TypeOK, Sources
<1>7. /\ \A k \in Kinds \ {"embed"} :
           /\ Live(p, k)' <=> Live(p, k)
           /\ \A at \in Points(k) : Count(p, k, at)' = Count(p, k, at)
      /\ Count(p, "embed", "indexed") > 0 /\ Count(p, "embed", "indexed")' = Count(p, "embed", "indexed") - 1
      /\ Count(p, "embed", "waiting")' = Count(p, "embed", "waiting")
      /\ Count(p, "embed", "working")' = Count(p, "embed", "working")
      /\ Count(p, "embed", "abstracted")' = Count(p, "embed", "abstracted")
  BY <1>2, <1>5, JobGoesEffect
<1>8. /\ Before(p, "embed")' = Before(p, "embed") - 1 /\ Before(p, "embed") > 0
      /\ Before(p, "embed") \in Nat /\ Before(p, "embed")' <= Before(p, "embed")
      /\ Before(p, "embed")' < Before(p, "embed")
  <2>1. Before(p, "embed")' = Before(p, "embed") - 1 /\ Before(p, "embed") > 0
    BY <1>2, <1>5, <1>7, Counts DEF Before, JobGoes, At
  <2>2. Before(p, "embed") \in Nat
    BY <1>2, Befores
  <2> QED
    BY <2>1, <2>2
<1>9. /\ row'[p]["embed"] = "done" /\ Exists(p)' /\ RowsStay
      /\ \A t \in Stages \ {"embed"} : row'[p][t] = row[p][t]
  BY <1>2, <1>3, <1>5, StageSet, NoRowAssumption DEF Exists, RowsStay, States
<1>10. UNCHANGED <<pdf, content, chunks, cards, reembed>>
  BY DEF EmbedEnd, tables, history
<1>11. Blank(p)'
  BY <1>3, <1>9 DEF Blank, IsStub, Stages
<1>12. Fed(p)' /\ Once(p)'
  <2>1. Fed(p)'
    BY <1>1, <1>3, <1>4, <1>7, <1>10, PointsAre, Counts DEF PaperInv, Fed, Kinds, Stages
  <2>2. Once(p)'
    <3>1. \A at \in {"extract", "embed"} :
            /\ Count(p, "parse", at) \in Nat /\ Count(p, "parse", at)' = Count(p, "parse", at)
      BY <1>7, PointsAre, Counts DEF Kinds, Stages
    <3>2. \A at \in {"waiting", "working", "abstracted", "indexed"} :
            Count(p, "embed", at) \in Nat
      BY PointsAre, Counts DEF Kinds, Stages
    <3> QED
      BY <1>1, <1>7, <1>10, <3>1, <3>2, PointsAre DEF PaperInv, Once, Coming1, Kinds, Stages
  <2> QED
    BY <2>1, <2>2
<1>13. Text(p)'
  <2>1. \A c \in Cites[p] : c \in Papers
    BY PaperPipelineAssumption
  <2> QED
    BY <1>1, <1>3, <1>4, <1>9, <1>10, <2>1 DEF PaperInv, Text, RowsStay, Stages
<1> QED
  BY <1>3, <1>5, <1>6, <1>8, <1>9, <1>11, <1>12, <1>13, WorkerStep

LEMMA ExtractStartKeeps ==
    ASSUME TypeOK, PipelineInv, NEW p \in Papers, ExtractStart(p)
    PROVE  Kept
<1>1. PaperInv(p)
  BY DEF PipelineInv
<1>2. /\ "extract" \in Kinds /\ "extract" \in Stages
      /\ Points("extract") = {"waiting", "working", "enrich", "carded"}
  BY PointsAre DEF Kinds, Stages
<1>3. Exists(p) /\ Live(p, "extract") /\ ~IsStub(p)
  BY <1>2, HasRow DEF ExtractStart, Starts
<1>4. content[p]
  BY <1>1, <1>3 DEF PaperInv, Fed
<1>5. SetStage(p, "extract", "running") /\ JobGoes(p, "extract", "waiting", "working")
  BY <1>2, <1>3, <1>4 DEF ExtractStart, Starts, JobGoes, First, HandOffs, tables
<1>6. StageMay(p, "extract")
  BY <1>2, <1>5 DEF ExtractStart, StageMay, Indexed, tables, history, TypeOK, Sources
<1>7. /\ \A k \in Kinds \ {"extract"} :
           /\ Live(p, k)' <=> Live(p, k)
           /\ \A at \in Points(k) : Count(p, k, at)' = Count(p, k, at)
      /\ Count(p, "extract", "waiting") > 0 /\ Count(p, "extract", "waiting")' = Count(p, "extract", "waiting") - 1
      /\ Count(p, "extract", "working")' = Count(p, "extract", "working") + 1
      /\ Count(p, "extract", "enrich")' = Count(p, "extract", "enrich")
      /\ Count(p, "extract", "carded")' = Count(p, "extract", "carded")
  BY <1>2, <1>5, JobGoesEffect
<1>8. /\ Before(p, "extract")' = Before(p, "extract") /\ Before(p, "extract") > 0
      /\ Before(p, "extract") \in Nat /\ Before(p, "extract")' <= Before(p, "extract")
  <2>1. Before(p, "extract")' = Before(p, "extract") /\ Before(p, "extract") > 0
    BY <1>2, <1>5, <1>7, Counts DEF Before, JobGoes, At
  <2>2. Before(p, "extract") \in Nat
    BY <1>2, Befores
  <2> QED
    BY <2>1, <2>2
<1>9. /\ row'[p]["extract"] = "running" /\ Exists(p)' /\ RowsStay
      /\ \A t \in Stages \ {"extract"} : row'[p][t] = row[p][t]
  BY <1>2, <1>3, <1>5, StageSet, NoRowAssumption DEF Exists, RowsStay, States
<1>10. UNCHANGED <<pdf, content, chunks, cards, reembed>>
  BY DEF ExtractStart, tables, history
<1>11. Blank(p)'
  BY <1>3, <1>9 DEF Blank, IsStub, Stages
<1>12. Fed(p)' /\ Once(p)'
  <2>1. Fed(p)'
    BY <1>1, <1>3, <1>4, <1>7, <1>10, PointsAre, Counts DEF PaperInv, Fed, Kinds, Stages
  <2>2. Once(p)'
    <3>1. \A at \in {"extract", "embed"} :
            /\ Count(p, "parse", at) \in Nat /\ Count(p, "parse", at)' = Count(p, "parse", at)
      BY <1>7, PointsAre, Counts DEF Kinds, Stages
    <3>2. \A at \in {"waiting", "working", "abstracted", "indexed"} :
            Count(p, "embed", at) \in Nat
      BY PointsAre, Counts DEF Kinds, Stages
    <3> QED
      BY <1>1, <1>7, <1>10, <3>1, <3>2, PointsAre DEF PaperInv, Once, Coming1, Kinds, Stages
  <2> QED
    BY <2>1, <2>2
<1>13. Text(p)'
  <2>1. \A c \in Cites[p] : c \in Papers
    BY PaperPipelineAssumption
  <2> QED
    BY <1>1, <1>3, <1>4, <1>9, <1>10, <2>1 DEF PaperInv, Text, RowsStay, Stages
<1> QED
  BY <1>3, <1>5, <1>6, <1>8, <1>9, <1>11, <1>12, <1>13, WorkerStep

LEMMA ExtractEndKeeps ==
    ASSUME TypeOK, PipelineInv, NEW p \in Papers, ExtractEnd(p)
    PROVE  Kept
<1>1. PaperInv(p)
  BY DEF PipelineInv
<1>2. /\ "extract" \in Kinds /\ "extract" \in Stages
      /\ Points("extract") = {"waiting", "working", "enrich", "carded"}
  BY PointsAre DEF Kinds, Stages
<1>3. Exists(p) /\ Live(p, "extract") /\ ~IsStub(p)
  BY <1>2, HasRow DEF ExtractEnd
<1>4. content[p]
  BY <1>1, <1>3 DEF PaperInv, Fed
<1>5. SetStage(p, "extract", "done") /\ JobGoes(p, "extract", "working", "carded")
  BY <1>2, <1>3, <1>4 DEF ExtractEnd, JobGoes, First, HandOffs, tables
<1>6. StageMay(p, "extract")
  BY <1>2, <1>5 DEF ExtractEnd, StageMay, Indexed, tables, history, TypeOK, Sources
<1>7. /\ \A k \in Kinds \ {"extract"} :
           /\ Live(p, k)' <=> Live(p, k)
           /\ \A at \in Points(k) : Count(p, k, at)' = Count(p, k, at)
      /\ Count(p, "extract", "working") > 0 /\ Count(p, "extract", "working")' = Count(p, "extract", "working") - 1
      /\ Count(p, "extract", "carded")' = Count(p, "extract", "carded") + 1
      /\ Count(p, "extract", "waiting")' = Count(p, "extract", "waiting")
      /\ Count(p, "extract", "enrich")' = Count(p, "extract", "enrich")
  BY <1>2, <1>5, JobGoesEffect
<1>8. /\ Before(p, "extract")' = Before(p, "extract") - 1 /\ Before(p, "extract") > 0
      /\ Before(p, "extract") \in Nat /\ Before(p, "extract")' <= Before(p, "extract")
      /\ Before(p, "extract")' < Before(p, "extract")
  <2>1. Before(p, "extract")' = Before(p, "extract") - 1 /\ Before(p, "extract") > 0
    BY <1>2, <1>5, <1>7, Counts DEF Before, JobGoes, At
  <2>2. Before(p, "extract") \in Nat
    BY <1>2, Befores
  <2> QED
    BY <2>1, <2>2
<1>9. /\ row'[p]["extract"] = "done" /\ Exists(p)' /\ RowsStay
      /\ \A t \in Stages \ {"extract"} : row'[p][t] = row[p][t]
  BY <1>2, <1>3, <1>5, StageSet, NoRowAssumption DEF Exists, RowsStay, States
<1>10. UNCHANGED <<pdf, content, chunks, reembed>>
  BY DEF ExtractEnd, tables, history
<1>11. Blank(p)'
  BY <1>3, <1>9 DEF Blank, IsStub, Stages
<1>12. Fed(p)' /\ Once(p)'
  <2>1. Fed(p)'
    BY <1>1, <1>3, <1>4, <1>7, <1>10, PointsAre, Counts DEF PaperInv, Fed, Kinds, Stages
  <2>2. Once(p)'
    <3>1. \A at \in {"extract", "embed"} :
            /\ Count(p, "parse", at) \in Nat /\ Count(p, "parse", at)' = Count(p, "parse", at)
      BY <1>7, PointsAre, Counts DEF Kinds, Stages
    <3>2. \A at \in {"waiting", "working", "abstracted", "indexed"} :
            Count(p, "embed", at) \in Nat
      BY PointsAre, Counts DEF Kinds, Stages
    <3> QED
      BY <1>1, <1>7, <1>10, <3>1, <3>2, PointsAre DEF PaperInv, Once, Coming1, Kinds, Stages
  <2> QED
    BY <2>1, <2>2
<1>13. Text(p)'
  <2>1. \A c \in Cites[p] : c \in Papers
    BY PaperPipelineAssumption
  <2> QED
    BY <1>1, <1>3, <1>4, <1>9, <1>10, <2>1 DEF PaperInv, Text, RowsStay, Stages
<1> QED
  BY <1>3, <1>5, <1>6, <1>8, <1>9, <1>11, <1>12, <1>13, WorkerStep

LEMMA ExtractDuplicateKeeps ==
    ASSUME TypeOK, PipelineInv, NEW p \in Papers, ExtractDuplicate(p)
    PROVE  Kept
<1>1. "extract" \in Kinds /\ "working" \in Points("extract")
  BY PointsAre DEF Kinds, Stages
<1>2. JobGoes(p, "extract", "working", "end") /\ Orphan(p, "extract")
  BY <1>1 DEF ExtractDuplicate, JobGoes
<1> QED
  BY <1>2, JobVanishes DEF ExtractDuplicate, TypeOK

LEMMA WriteEdgesKeeps ==
    ASSUME TypeOK, PipelineInv, NEW p \in Papers, WriteEdges(p)
    PROVE  Kept
<1>1. PaperInv(p)
  BY DEF PipelineInv
<1>2. /\ "extract" \in Kinds /\ "extract" \in Stages
      /\ Points("extract") = {"waiting", "working", "enrich", "carded"}
  BY PointsAre DEF Kinds, Stages
<1>3. Exists(p) /\ Live(p, "extract") /\ ~IsStub(p)
  BY <1>2, HasRow DEF WriteEdges
<1>4. content[p]
  BY <1>1, <1>3 DEF PaperInv, Fed
<1>5. row' = row /\ JobGoes(p, "extract", "carded", "enrich")
  BY <1>2, <1>3, <1>4 DEF WriteEdges, JobGoes, First, HandOffs, tables
<1>6. StageMay(p, "extract")
  BY <1>2, <1>5 DEF WriteEdges, StageMay, Indexed, tables, history, TypeOK, Sources
<1>7. /\ \A k \in Kinds \ {"extract"} :
           /\ Live(p, k)' <=> Live(p, k)
           /\ \A at \in Points(k) : Count(p, k, at)' = Count(p, k, at)
      /\ Count(p, "extract", "carded") > 0 /\ Count(p, "extract", "carded")' = Count(p, "extract", "carded") - 1
      /\ Count(p, "extract", "enrich")' = Count(p, "extract", "enrich") + 1
      /\ Count(p, "extract", "waiting")' = Count(p, "extract", "waiting")
      /\ Count(p, "extract", "working")' = Count(p, "extract", "working")
  BY <1>2, <1>5, JobGoesEffect
<1>8. /\ Before(p, "extract")' = Before(p, "extract")
      /\ Before(p, "extract") \in Nat /\ Before(p, "extract")' <= Before(p, "extract")
  <2>1. Before(p, "extract")' = Before(p, "extract")
    BY <1>2, <1>5, <1>7, Counts DEF Before, JobGoes, At
  <2>2. Before(p, "extract") \in Nat
    BY <1>2, Befores
  <2> QED
    BY <2>1, <2>2
<1>9. row'[p] = row[p] /\ Exists(p)' /\ RowsStay
  BY <1>3, <1>5 DEF Exists, RowsStay
<1>10. UNCHANGED <<pdf, content, chunks, cards, reembed>>
  BY DEF WriteEdges, tables, history
<1>11. Blank(p)'
  BY <1>3, <1>9 DEF Blank, IsStub, Stages
<1>12. Fed(p)' /\ Once(p)'
  <2>1. Fed(p)'
    BY <1>1, <1>3, <1>4, <1>7, <1>10, PointsAre, Counts DEF PaperInv, Fed, Kinds, Stages
  <2>2. Once(p)'
    <3>1. \A at \in {"extract", "embed"} :
            /\ Count(p, "parse", at) \in Nat /\ Count(p, "parse", at)' = Count(p, "parse", at)
      BY <1>7, PointsAre, Counts DEF Kinds, Stages
    <3>2. \A at \in {"waiting", "working", "abstracted", "indexed"} :
            Count(p, "embed", at) \in Nat
      BY PointsAre, Counts DEF Kinds, Stages
    <3> QED
      BY <1>1, <1>7, <1>10, <3>1, <3>2, PointsAre DEF PaperInv, Once, Coming1, Kinds, Stages
  <2> QED
    BY <2>1, <2>2
<1>13. Text(p)'
  <2>1. \A c \in Cites[p] : c \in Papers
    BY PaperPipelineAssumption
  <2> QED
    BY <1>1, <1>3, <1>4, <1>9, <1>10, <2>1 DEF PaperInv, Text, RowsStay, Stages
<1> QED
  BY <1>3, <1>5, <1>6, <1>8, <1>9, <1>11, <1>12, <1>13, WorkerStep

LEMMA EnrichKeeps ==
    ASSUME TypeOK, PipelineInv, NEW p \in Papers, Enrich(p)
    PROVE  Kept
<1>1. "enrich" \in Kinds /\ "waiting" \in Points("enrich")
  BY PointsAre DEF Kinds
<1>2. JobGoes(p, "enrich", "waiting", "end") /\ orphaned' = orphaned
  BY <1>1 DEF Enrich, Starts, JobGoes, history
<1> QED
  BY <1>2, JobVanishes DEF Enrich, TypeOK, history

\* A trace that finds no text is over as soon as it has said that it runs.
LEMMA TraceStartKeeps ==
    ASSUME TypeOK, PipelineInv, NEW p \in Papers, TraceStart(p)
    PROVE  Kept
<1>1. PaperInv(p)
  BY DEF PipelineInv
<1>2. /\ "references" \in Kinds /\ "references" \in Stages
      /\ Points("references") = {"waiting", "working"}
  BY PointsAre DEF Kinds, Stages
<1>3. Exists(p)
  BY <1>2, HasRow DEF TraceStart, Starts
<1>4. PICK to \in {"working", "end"} :
        /\ SetStage(p, "references", "running") /\ JobGoes(p, "references", "waiting", to)
        /\ to = "end" => Orphan(p, "references")
        /\ to = "working" => orphaned' = orphaned
  BY <1>2 DEF TraceStart, Starts, JobGoes
<1>5. StageMay(p, "references")
  BY <1>2, <1>4 DEF TraceStart, StageMay, tables, TypeOK
<1>6. /\ \A k \in Kinds \ {"references"} :
           /\ Live(p, k)' <=> Live(p, k)
           /\ \A at \in Points(k) : Count(p, k, at)' = Count(p, k, at)
      /\ Count(p, "references", "waiting") > 0
      /\ Count(p, "references", "waiting")' = Count(p, "references", "waiting") - 1
      /\ to = "working" => Count(p, "references", "working")' = Count(p, "references", "working") + 1
      /\ to = "end" => Count(p, "references", "working")' = Count(p, "references", "working")
  BY <1>2, <1>4, JobGoesEffect
<1>7. /\ Before(p, "references")' <= Before(p, "references") /\ Before(p, "references") > 0
      /\ to = "working" => Before(p, "references")' = Before(p, "references")
  BY <1>2, <1>4, <1>6, Counts DEF Before
<1>8. /\ row'[p]["references"] = "running" /\ Exists(p)' /\ RowsStay
      /\ \A t \in Stages \ {"references"} : row'[p][t] = row[p][t]
  BY <1>2, <1>3, <1>4, StageSet, NoRowAssumption DEF Exists, RowsStay, States
<1>9. UNCHANGED <<pdf, content, chunks, cards, reembed>>
  BY DEF TraceStart
<1>10. Blank(p)'
  BY <1>1, <1>3, <1>6, <1>8, <1>9 DEF PaperInv, Blank, IsStub, Exists, Kinds, Stages
<1>11. Fed(p)' /\ Once(p)'
  BY <1>1, <1>6, <1>9, PointsAre DEF PaperInv, Fed, Once, Coming1, Kinds, Stages
<1>12. Text(p)'
  BY <1>1, <1>3, <1>8, <1>9 DEF PaperInv, Text, Stages
<1>13. Before(p, "references")' = Before(p, "references") \/ "references" \in orphaned'[p]
  <2>1. orphaned \in [Papers -> SUBSET Stages]
    BY DEF TypeOK
  <2> QED
    BY <1>2, <1>4, <1>7, <2>1 DEF Orphan
<1> QED
  BY <1>3, <1>4, <1>5, <1>7, <1>8, <1>10, <1>11, <1>12, <1>13, WorkerStep

\* The references that had no row have a stub's, and every other row stands.
LEMMA TraceEndKeeps ==
    ASSUME TypeOK, PipelineInv, NEW p \in Papers, TraceEnd(p)
    PROVE  Kept
<1>1. PaperInv(p) /\ Exists(p) /\ row \in [Papers -> Rows \cup {NoRow}] /\ row[p] \in Rows
  <2>1. "working" \in Points("references") /\ "references" \in Kinds
    BY PointsAre DEF Kinds, Stages
  <2> QED
    BY <2>1, HasRow DEF PipelineInv, TraceEnd, TypeOK, Exists
<1>2. /\ "references" \in Kinds /\ "references" \in Stages
      /\ Points("references") = {"waiting", "working"}
  BY PointsAre DEF Kinds, Stages
<1>3. JobGoes(p, "references", "working", "end")
  BY <1>2 DEF TraceEnd, JobGoes
<1>4. /\ jobs' \in [Places -> Nat]
      /\ \A q \in Papers \ {p} : JobsStay(q)
      /\ \A k \in Kinds \ {"references"} :
           /\ Live(p, k)' <=> Live(p, k)
           /\ \A at \in Points(k) : Count(p, k, at)' = Count(p, k, at)
      /\ \A s \in Stages \ {"references"} : Before(p, s)' = Before(p, s)
      /\ Count(p, "references", "working") > 0
      /\ Count(p, "references", "working")' = Count(p, "references", "working") - 1
      /\ Count(p, "references", "waiting")' = Count(p, "references", "waiting")
  BY <1>2, <1>3, JobGoesEffect DEF Kinds
<1>5. Before(p, "references")' = Before(p, "references") - 1 /\ Before(p, "references") > 0
  BY <1>2, <1>4, Counts DEF Before
<1> DEFINE done == [row[p] EXCEPT !["references"] = "done"]
<1>6. /\ done \in Rows /\ done["references"] = "done"
      /\ \A t \in Stages \ {"references"} : done[t] = row[p][t]
  BY <1>1, <1>2 DEF Rows, States
<1>7. /\ FreshRow("skipped") \in Rows /\ FreshRow("skipped")["fetch"] = "skipped"
      /\ \A s \in Stages \ {"fetch"} : FreshRow("skipped")[s] = "queued"
  BY DEF FreshRow, Rows, Stages, States
<1>8. row' = [q \in Papers |-> IF q = p THEN done
                               ELSE IF q \in Cites[p] /\ ~Exists(q) THEN FreshRow("skipped")
                               ELSE row[q]]
  BY DEF TraceEnd
<1> HIDE DEF done
<1>9. /\ row' \in [Papers -> Rows \cup {NoRow}] /\ row'[p] = done
      /\ \A q \in Papers \ {p} :
            IF q \in Cites[p] /\ ~Exists(q) THEN row'[q] = FreshRow("skipped")
            ELSE row'[q] = row[q]
  BY <1>1, <1>6, <1>7, <1>8
<1>10. RowsStay /\ Exists(p)' /\ \A q \in Cites[p] : Exists(q)'
  BY <1>1, <1>6, <1>7, <1>9, NoRowAssumption, PaperPipelineAssumption DEF Exists, RowsStay
<1>11. UNCHANGED <<pdf, content, chunks, cards, adding, reembed, doubled, orphaned, trouble>>
  BY DEF TraceEnd, history
<1>12. TypeOK'
  BY <1>4, <1>9, <1>11 DEF TypeOK
<1>13. PaperInv(p)'
  <2>1. Rowed(p)' /\ RowShape(p)'
    BY <1>1, <1>6, <1>9, <1>10, <1>11 DEF PaperInv, Rowed, RowShape, Stages
  <2>2. Blank(p)'
    BY <1>1, <1>4, <1>6, <1>9, <1>10, <1>11
    DEF PaperInv, Blank, IsStub, Exists, Kinds, Stages
  <2>3. Fed(p)' /\ Once(p)'
    BY <1>1, <1>4, <1>11, PointsAre DEF PaperInv, Fed, Once, Coming1, Kinds, Stages
  <2>4. Text(p)'
    BY <1>1, <1>6, <1>9, <1>10, <1>11 DEF PaperInv, Text, Stages
  <2>5. Unstalled(p)'
    BY <1>1, <1>4, <1>6, <1>9, <1>11 DEF PaperInv, Unstalled, Rowed, Stages
  <2>6. Single(p)'
    <3>1. \A s \in Stages : Before(p, s) \in Nat /\ Before(p, s)' \in Nat
      BY <1>12, Befores
    <3>2. \A s \in Stages : Before(p, s)' <= Before(p, s)
      BY <1>4, <1>5, <3>1
    <3>3. \A s \in Stages : Exists(p)' /\ row'[p][s] = "done"
             => (Exists(p) /\ row[p][s] = "done") \/ Before(p, s)' < Before(p, s)
      BY <1>1, <1>5, <1>6, <1>9, <3>1
    <3> QED
      BY <1>1, <1>11, <3>1, <3>2, <3>3, StillSingle DEF PaperInv
  <2> QED
    BY <2>1, <2>2, <2>3, <2>4, <2>5, <2>6 DEF PaperInv
<1>14. ASSUME NEW q \in Papers \ {p}
       PROVE  PaperInv(q)'
  <2>1. PaperInv(q) /\ JobsStay(q)
    BY <1>4 DEF PipelineInv
  <2>2. CASE ~(q \in Cites[p] /\ ~Exists(q))
    BY <1>9, <1>10, <1>11, <2>1, <2>2, Undisturbed DEF Stays
  <2>3. CASE q \in Cites[p] /\ ~Exists(q)
    <3>1. /\ row'[q] = FreshRow("skipped") /\ ~adding[q] /\ Exists(q)'
      BY <1>9, <1>10, <2>3 DEF TraceEnd
    <3>2. /\ \A k \in Kinds : Live(q, k)' <=> Live(q, k)
          /\ \A s \in Stages : Before(q, s)' = Before(q, s)
          /\ Coming1(q)' = Coming1(q)
      BY <2>1, PointsAre DEF JobsStay, Live, Before, Coming1, Kinds, Stages
    <3>3. Rowed(q)' /\ RowShape(q)'
      BY <1>7, <1>11, <3>1 DEF Rowed, RowShape
    <3>4. Blank(q)'
      BY <1>11, <2>1, <2>3, <3>2 DEF PaperInv, Blank, Kinds, Stages
    <3>5. Fed(q)' /\ Once(q)'
      BY <1>11, <2>1, <3>2, PointsAre DEF PaperInv, Fed, Once, JobsStay, Kinds, Stages
    <3>6. Text(q)'
      BY <1>7, <3>1 DEF Text, Stages
    <3>7. Unstalled(q)'
      BY <1>7, <1>11, <3>1 DEF Unstalled, Stages
    <3>8. Single(q)'
      <4>1. \A s \in Stages : row'[q][s] # "done"
        BY <1>7, <3>1 DEF Stages
      <4> QED
        BY <1>11, <2>1, <3>2, <4>1 DEF PaperInv, Single
    <3> QED
      BY <3>3, <3>4, <3>5, <3>6, <3>7, <3>8 DEF PaperInv
  <2> QED
    BY <2>2, <2>3
<1>15. PipelineInv'
  BY <1>13, <1>14 DEF PipelineInv
<1>16. Firm
  <2>1. \A s \in Stages : row[p][s] = "done" => row'[p][s] = "done"
    BY <1>6, <1>9
  <2>2. ~IsStub(p) => row'[p]["fetch"] # "skipped"
    BY <1>1, <1>6, <1>9 DEF IsStub, Stages
  <2>3. \A q \in Papers \ {p} : Exists(q) => row'[q] = row[q]
    BY <1>9
  <2> QED
    BY <2>1, <2>2, <2>3 DEF Firm, IsStub
<1> QED
  BY <1>12, <1>15, <1>16 DEF Kept

-----------------------------------------------------------------------------
(* The steps that enqueue.                                                  *)

\* A stage that is enqueued is single, unless that is on record.
LEMMA EnqueuedSingle ==
    ASSUME TypeOK, NEW p \in Papers, NEW ks, Single(p), NoteRepeats(p, ks),
           \A s \in Stages \cap ks : Before(p, s)' = Before(p, s) + 1,
           \A s \in Stages \ ks : Before(p, s)' = Before(p, s),
           \A s \in Stages : Exists(p)' /\ row'[p][s] = "done" => Exists(p) /\ row[p][s] = "done"
    PROVE  Single(p)'
<1> SUFFICES ASSUME p \notin doubled', NEW s \in Stages
             PROVE  /\ Before(p, s)' <= 1
                    /\ Exists(p)' /\ row'[p][s] = "done" => Before(p, s)' = 0
  BY DEF Single
<1>1. p \notin doubled /\ ~Repeats(p, ks)
  BY DEF NoteRepeats
<1>2. /\ Before(p, s) <= 1
      /\ Exists(p) /\ row[p][s] = "done" => Before(p, s) = 0
  BY <1>1 DEF Single
<1>3. CASE s \notin ks
  BY <1>2, <1>3
<1>4. CASE s \in ks
  <2>1. ~Live(p, s) /\ (Exists(p) => row[p][s] # "done")
    BY <1>1, <1>4 DEF Repeats
  <2>2. Before(p, s) = 0
    <3>1. /\ s \in Kinds /\ "waiting" \in Points(s) /\ "working" \in Points(s)
          /\ s = "embed" => "abstracted" \in Points(s) /\ "indexed" \in Points(s)
      BY PointsAre DEF Kinds, Stages
    <3>2. \A at \in Points(s) : Count(p, s, at) = 0
      BY <2>1, <3>1, Counts DEF Live
    <3> QED
      BY <3>1, <3>2 DEF Before
  <2> QED
    BY <1>4, <2>1, <2>2
<1> QED
  BY <1>3, <1>4

\* A request that enqueues stages, and sets no stage but to queued.
LEMMA EnqueueStep ==
    ASSUME TypeOK, PipelineInv, NEW p \in Papers, NEW ks \in SUBSET Stages, Enqueue(p, ks),
           row' \in [Papers -> Rows \cup {NoRow}], \A q \in Papers \ {p} : row'[q] = row[q],
           Exists(p)' <=> Exists(p),
           \A s \in Stages : Exists(p) =>
              \/ row'[p][s] = row[p][s]
              \/ s \in ks /\ row'[p][s] = "queued" /\ row[p][s] # "done",
           UNCHANGED <<pdf, content, chunks, cards>>,
           adding' \in [Papers -> BOOLEAN], \A q \in Papers \ {p} : adding'[q] = adding[q],
           adding'[p] => ~Exists(p) /\ (adding[p] \/ "fetch" \in ks),
           reembed \subseteq reembed', reembed' \subseteq reembed \cup {p},
           "embed" \in ks => p \in reembed',
           trouble' \in 0 .. MaxTrouble,
           ks # {"fetch"} => Exists(p),
           "parse" \in ks => pdf[p],
           ks \cap {"embed", "extract"} # {} => content[p]
    PROVE  Kept
<1>1. PaperInv(p)
  BY DEF PipelineInv
<1>2. /\ jobs' \in [Places -> Nat]
      /\ \A q \in Papers \ {p} : JobsStay(q)
      /\ \A k \in Kinds \cap ks : Count(p, k, "waiting")' = Count(p, k, "waiting") + 1
      /\ \A k \in Kinds : \A at \in Points(k) :
            k \notin ks \/ at # "waiting" => Count(p, k, at)' = Count(p, k, at)
  BY Enqueued DEF JobsStay
<1>3. \A s \in Stages :
        /\ s \in ks => Before(p, s)' = Before(p, s) + 1
        /\ s \notin ks => Before(p, s)' = Before(p, s)
  <2>1. \A s \in Stages :
          /\ s \in Kinds /\ "waiting" \in Points(s) /\ "working" \in Points(s)
          /\ s = "embed" => "abstracted" \in Points(s) /\ "indexed" \in Points(s)
    BY PointsAre DEF Kinds, Stages
  <2> QED
    BY <1>2, <2>1, Counts DEF Before
<1>4. \A k \in Kinds : Live(p, k)' => Live(p, k) \/ k \in ks
  BY <1>2 DEF Live
<1>5. /\ doubled' \subseteq Papers /\ doubled \subseteq doubled'
      /\ \A q \in Papers \ {p} : q \in doubled' <=> q \in doubled
  BY DEF Enqueue, NoteRepeats, TypeOK
<1>6. /\ orphaned' \in [Papers -> SUBSET Stages]
      /\ \A q \in Papers \ {p} : orphaned'[q] = orphaned[q]
      /\ orphaned'[p] = orphaned[p] \ ks
  BY DEF Enqueue, TypeOK
<1>7. TypeOK'
  <2>1. reembed' \subseteq Papers
    BY DEF TypeOK
  <2> QED
    BY <1>2, <1>5, <1>6, <2>1 DEF TypeOK
<1>8. RowsStay /\ \A q \in Papers \ {p} : Stays(q)
  BY <1>2, <1>5, <1>6 DEF Stays, RowsStay, Exists
<1>9. Exists(p) => row[p] \in Rows /\ row'[p] \in Rows
  BY DEF TypeOK, Exists
<1>10. Rowed(p)'
  <2>1. CASE Exists(p)
    BY <2>1 DEF Rowed
  <2>2. CASE ~Exists(p)
    <3>1. ks = {"fetch"}
      BY <2>2
    <3>2. \A k \in Kinds \ {"fetch"} : ~Live(p, k)'
      BY <1>1, <1>4, <2>2, <3>1 DEF PaperInv, Rowed
    <3>3. Count(p, "fetch", "working")' = 0 /\ Count(p, "fetch", "parse")' = 0
      BY <1>1, <1>2, <2>2, PointsAre DEF PaperInv, Rowed, Kinds, Stages
    <3> QED
      BY <2>2, <3>2, <3>3 DEF Rowed
  <2> QED
    BY <2>1, <2>2
<1>11. RowShape(p)'
  BY <1>1, <1>9 DEF PaperInv, RowShape, Stages
<1>12. Blank(p)'
  <2> SUFFICES ASSUME ~Exists(p) \/ IsStub(p)'
               PROVE  /\ ~pdf[p] /\ ~content[p] /\ cards[p] = {}
                      /\ \A k \in {"parse", "embed", "extract", "enrich"} : ~Live(p, k)'
    BY DEF Blank
  <2>1. ~Exists(p) \/ IsStub(p)
    BY DEF IsStub, Stages
  <2>2. /\ ~pdf[p] /\ ~content[p] /\ cards[p] = {}
        /\ \A k \in {"parse", "embed", "extract", "enrich"} : ~Live(p, k)
    BY <1>1, <2>1 DEF PaperInv, Blank
  <2>3. \A k \in {"parse", "embed", "extract", "enrich"} : k \in Kinds /\ k \notin ks
    BY <2>2 DEF Kinds, Stages
  <2> QED
    BY <1>4, <2>2, <2>3
<1>13. Fed(p)'
  <2>1. /\ \A at \in {"extract", "embed", "references"} :
             Count(p, "parse", at)' = Count(p, "parse", at)
        /\ Count(p, "fetch", "parse")' = Count(p, "fetch", "parse")
        /\ Count(p, "embed", "abstracted")' = Count(p, "embed", "abstracted")
        /\ Count(p, "embed", "indexed")' = Count(p, "embed", "indexed")
    BY <1>2, PointsAre DEF Kinds, Stages
  <2> QED
    BY <1>1, <1>4, <2>1 DEF PaperInv, Fed, Kinds, Stages
<1>14. Once(p)'
  <2>1. CASE "embed" \in ks
    BY <2>1 DEF Once
  <2>2. CASE "embed" \notin ks
    BY <1>1, <1>2, <2>2, PointsAre DEF PaperInv, Once, Coming1, Kinds, Stages
  <2> QED
    BY <2>1, <2>2
<1>15. Text(p)'
  <2>1. \A c \in Cites[p] : c \in Papers
    BY PaperPipelineAssumption
  <2> QED
    BY <1>1, <1>8, <2>1 DEF PaperInv, Text, RowsStay, Stages
<1>16. Unstalled(p)'
  <2>1. \A s \in Stages : s \in ks => Before(p, s)' > 0
    BY <1>3, Befores
  <2>2. \A s \in Stages : (s \in orphaned[p] \/ Before(p, s) > 0)
                             => (s \in orphaned'[p] \/ Before(p, s)' > 0)
    BY <1>3, <1>6, <2>1
  <2>3. adding'[p] \/ (Exists(p) /\ row'[p]["fetch"] = "queued")
          => "fetch" \in orphaned'[p] \/ Before(p, "fetch")' > 0
    BY <1>1, <2>1, <2>2 DEF PaperInv, Unstalled, Stages
  <2>4. \A s \in {"parse", "embed", "extract"} :
          Exists(p) /\ row'[p][s] = "running" => s \in orphaned'[p] \/ Before(p, s)' > 0
    BY <1>1, <2>2 DEF PaperInv, Unstalled, Stages
  <2> QED
    BY <2>3, <2>4 DEF Unstalled
<1>17. Single(p)'
  BY <1>1, <1>3, EnqueuedSingle DEF Enqueue, PaperInv
<1>18. Firm
  <2>1. ASSUME Exists(p)
        PROVE  /\ \A s \in Stages : row[p][s] = "done" => row'[p][s] = "done"
               /\ ~IsStub(p) => row'[p]["fetch"] # "skipped"
    BY <2>1 DEF IsStub, Stages
  <2> QED
    BY <2>1 DEF Firm, IsStub
<1> QED
  BY <1>7, <1>8, <1>10, <1>11, <1>12, <1>13, <1>14, <1>15, <1>16, <1>17, <1>18, OnePaper
  DEF Kept, PaperInv

LEMMA AddPaperKeeps ==
    ASSUME TypeOK, PipelineInv, NEW p \in Papers, AddPaper(p)
    PROVE  Kept
<1>1. /\ adding' \in [Papers -> BOOLEAN] /\ \A q \in Papers \ {p} : adding'[q] = adding[q]
      /\ {"fetch"} \in SUBSET Stages
      /\ {"fetch"} \cap {"embed", "extract"} = {}
  BY DEF AddPaper, TypeOK, Stages
<1> QED
  BY <1>1, EnqueueStep DEF AddPaper, tables, TypeOK, Exists

LEMMA OpenPaperKeeps ==
    ASSUME TypeOK, PipelineInv, NEW p \in Papers, OpenPaper(p)
    PROVE  Kept
<1>1. {"references"} \in SUBSET Stages /\ {"references"} \cap {"embed", "extract"} = {}
  BY DEF Stages
<1>2. trouble' \in 0 .. MaxTrouble
  BY PaperPipelineAssumption DEF OpenPaper, Trouble, TypeOK
<1>3. ~adding[p]
  BY DEF OpenPaper, PipelineInv, PaperInv, Rowed
<1> QED
  BY <1>1, <1>2, <1>3, EnqueueStep DEF OpenPaper, tables, TypeOK, Exists

\* A stage that may be re-driven has its input, and is not done.
LEMMA RedrivenFed ==
    ASSUME TypeOK, PipelineInv, NEW p \in Papers, Exists(p)
    PROVE  /\ Redriven(p) \in SUBSET Stages
           /\ \A s \in Redriven(p) : row[p][s] # "done"
           /\ "parse" \in Redriven(p) => pdf[p]
           /\ Redriven(p) \cap {"embed", "extract"} # {} => content[p]
  BY DEF Redriven, Stages, Terminal, PipelineInv, PaperInv, Text

LEMMA ReprocessKeeps ==
    ASSUME TypeOK, PipelineInv, NEW p \in Papers, Reprocess(p)
    PROVE  Kept
<1>1. Exists(p) /\ ~adding[p] /\ row[p] \in Rows
  BY DEF Reprocess, PipelineInv, PaperInv, Rowed, TypeOK, Exists
<1> DEFINE r == [s \in Stages |-> IF s \in Redriven(p) THEN "queued" ELSE row[p][s]]
<1>2. r \in Rows /\ \A s \in Stages : r[s] = IF s \in Redriven(p) THEN "queued" ELSE row[p][s]
  BY <1>1 DEF Rows, States
<1>3. row' = [row EXCEPT ![p] = r]
  BY DEF Reprocess
<1> HIDE DEF r
<1>4. /\ row' \in [Papers -> Rows \cup {NoRow}] /\ row'[p] = r
      /\ \A q \in Papers \ {p} : row'[q] = row[q]
      /\ Exists(p)'
  BY <1>2, <1>3, NoRowAssumption DEF TypeOK, Exists
<1>5. /\ Redriven(p) \in SUBSET Stages
      /\ \A s \in Redriven(p) : row[p][s] # "done"
      /\ "parse" \in Redriven(p) => pdf[p]
      /\ Redriven(p) \cap {"embed", "extract"} # {} => content[p]
  BY <1>1, RedrivenFed
<1>6. \A s \in Stages : \/ row'[p][s] = row[p][s]
                        \/ s \in Redriven(p) /\ row'[p][s] = "queued" /\ row[p][s] # "done"
  BY <1>2, <1>4, <1>5
<1>7. /\ reembed \subseteq reembed' /\ reembed' \subseteq reembed \cup {p}
      /\ "embed" \in Redriven(p) => p \in reembed'
  BY DEF Reprocess
<1>8. trouble' \in 0 .. MaxTrouble
  BY PaperPipelineAssumption DEF Reprocess, Trouble, TypeOK
<1>9. Enqueue(p, Redriven(p)) /\ UNCHANGED <<pdf, content, chunks, cards, adding>>
  BY DEF Reprocess
<1> QED
  BY <1>1, <1>4, <1>5, <1>6, <1>7, <1>8, <1>9, EnqueueStep DEF TypeOK

\* A job at next enqueues it, and stands at to.
HandsOn(p, k, next, to) ==
    /\ At(p, k, next)
    /\ jobs' = [pl \in Places |->
                   CASE pl = <<p, k, next>>            -> jobs[pl] - 1
                     [] pl = <<p, next, "waiting">>    -> jobs[pl] + 1
                     [] pl = <<p, k, to>>              -> jobs[pl] + 1
                     [] OTHER                          -> jobs[pl]]
    /\ NoteRepeats(p, {next})
    /\ orphaned' = [orphaned EXCEPT ![p] = @ \ {next}]
    /\ UNCHANGED <<tables, adding, reembed, trouble>>

\* The five hand-offs there are.
LEMMA HandOffIs ==
    ASSUME NEW p \in Papers, NEW k \in Kinds, HandOff(p, k)
    PROVE  \/ k = "fetch" /\ HandsOn(p, k, "parse", "end")
           \/ k = "parse" /\ HandsOn(p, k, "extract", "embed")
           \/ k = "parse" /\ HandsOn(p, k, "embed", "references")
           \/ k = "parse" /\ HandsOn(p, k, "references", "end")
           \/ k = "extract" /\ HandsOn(p, k, "enrich", "end")
<1>1. /\ HandOffs("fetch") = <<"parse">>
      /\ HandOffs("parse") = <<"extract", "embed", "references">>
      /\ HandOffs("extract") = <<"enrich">>
      /\ HandOffs("embed") = << >> /\ HandOffs("references") = << >>
      /\ HandOffs("enrich") = << >>
  BY DEF HandOffs
<1>2. PICK i \in DOMAIN HandOffs(k) :
        HandsOn(p, k, HandOffs(k)[i],
                IF i < Len(HandOffs(k)) THEN HandOffs(k)[i + 1] ELSE "end")
  BY DEF HandOff, HandsOn
<1>3. CASE k = "fetch"
  BY <1>1, <1>2, <1>3
<1>4. CASE k = "parse"
  <2>1. i \in {1, 2, 3} /\ Len(HandOffs(k)) = 3
    BY <1>1, <1>2, <1>4
  <2>2. CASE i = 1
    BY <1>1, <1>2, <1>4, <2>1, <2>2
  <2>3. CASE i = 2
    BY <1>1, <1>2, <1>4, <2>1, <2>3
  <2>4. CASE i = 3
    BY <1>1, <1>2, <1>4, <2>1, <2>4
  <2> QED
    BY <2>1, <2>2, <2>3, <2>4
<1>5. CASE k = "extract"
  BY <1>1, <1>2, <1>5
<1>6. CASE k \in {"embed", "references", "enrich"}
  BY <1>1, <1>2, <1>6
<1> QED
  BY <1>3, <1>4, <1>5, <1>6 DEF Kinds, Stages

LEMMA HandsOnEffect ==
    ASSUME TypeOK, NEW p \in Papers, NEW k \in Kinds, NEW next \in Kinds, NEW to,
           k # next, next \in Points(k), "waiting" # next, to # next, to # "waiting",
           HandsOn(p, k, next, to)
    PROVE  /\ jobs' \in [Places -> Nat]
           /\ \A q \in Papers \ {p} : JobsStay(q)
           /\ Count(p, k, next) > 0 /\ Count(p, k, next)' = Count(p, k, next) - 1
           /\ Count(p, next, "waiting")' = Count(p, next, "waiting") + 1
           /\ to \in Points(k) => Count(p, k, to)' = Count(p, k, to) + 1
           /\ \A at \in Points(k) \ {next, to} : Count(p, k, at)' = Count(p, k, at)
           /\ \A at \in Points(next) \ {"waiting"} : Count(p, next, at)' = Count(p, next, at)
           /\ \A k2 \in Kinds \ {k, next} : \A at \in Points(k2) :
                 Count(p, k2, at)' = Count(p, k2, at)
<1>1. \A q \in Papers, k2 \in Kinds : \A at \in Points(k2) : <<q, k2, at>> \in Places
  BY PlaceIs
<1>2. "waiting" \in Points(next)
  BY DEF Points
<1>3. jobs \in [Places -> Nat] /\ Count(p, k, next) > 0
  BY DEF TypeOK, HandsOn, At
<1>4. \A pl \in Places : /\ jobs[pl] \in Nat
                         /\ pl = <<p, k, next>> => jobs[pl] > 0
  BY <1>3 DEF Count
<1>5. jobs' = [pl \in Places |->
                  IF pl = <<p, k, next>> THEN jobs[pl] - 1
                  ELSE IF pl = <<p, next, "waiting">> THEN jobs[pl] + 1
                  ELSE IF pl = <<p, k, to>> THEN jobs[pl] + 1 ELSE jobs[pl]]
  BY DEF HandsOn
<1>6. /\ jobs' \in [Places -> Nat]
      /\ \A pl \in Places :
            jobs'[pl] = IF pl = <<p, k, next>> THEN jobs[pl] - 1
                        ELSE IF pl = <<p, next, "waiting">> THEN jobs[pl] + 1
                        ELSE IF pl = <<p, k, to>> THEN jobs[pl] + 1 ELSE jobs[pl]
  BY <1>4, <1>5
<1>7. \A q \in Papers \ {p} : JobsStay(q)
  BY <1>1, <1>6 DEF JobsStay, Count
<1>8. /\ Count(p, k, next)' = Count(p, k, next) - 1
      /\ Count(p, next, "waiting")' = Count(p, next, "waiting") + 1
      /\ to \in Points(k) => Count(p, k, to)' = Count(p, k, to) + 1
  BY <1>1, <1>2, <1>6 DEF Count
<1>9. /\ \A at \in Points(k) \ {next, to} : Count(p, k, at)' = Count(p, k, at)
      /\ \A at \in Points(next) \ {"waiting"} : Count(p, next, at)' = Count(p, next, at)
      /\ \A k2 \in Kinds \ {k, next} : \A at \in Points(k2) :
            Count(p, k2, at)' = Count(p, k2, at)
  BY <1>1, <1>6 DEF Count
<1> QED
  BY <1>3, <1>6, <1>7, <1>8, <1>9

LEMMA HandOffKeeps ==
    ASSUME TypeOK, PipelineInv, NEW p \in Papers, NEW k \in Kinds, HandOff(p, k)
    PROVE  Kept
<1>1. PaperInv(p)
  BY DEF PipelineInv
<1>2. PICK next \in {"parse", "extract", "embed", "references", "enrich"},
           to \in {"embed", "references", "end"} :
        /\ HandsOn(p, k, next, to)
        /\ \/ k = "fetch" /\ next = "parse" /\ to = "end"
           \/ k = "parse" /\ next = "extract" /\ to = "embed"
           \/ k = "parse" /\ next = "embed" /\ to = "references"
           \/ k = "parse" /\ next = "references" /\ to = "end"
           \/ k = "extract" /\ next = "enrich" /\ to = "end"
  BY HandOffIs
<1>3. /\ next \in Kinds /\ k # next /\ next \in Points(k) /\ next # "waiting"
      /\ to # next /\ to # "waiting"
  BY <1>2, PointsAre DEF Kinds, Stages
<1>4. /\ jobs' \in [Places -> Nat]
      /\ \A q \in Papers \ {p} : JobsStay(q)
      /\ Count(p, k, next) > 0 /\ Count(p, k, next)' = Count(p, k, next) - 1
      /\ Count(p, next, "waiting")' = Count(p, next, "waiting") + 1
      /\ to \in Points(k) => Count(p, k, to)' = Count(p, k, to) + 1
      /\ \A at \in Points(k) \ {next, to} : Count(p, k, at)' = Count(p, k, at)
      /\ \A at \in Points(next) \ {"waiting"} : Count(p, next, at)' = Count(p, next, at)
      /\ \A k2 \in Kinds \ {k, next} : \A at \in Points(k2) : Count(p, k2, at)' = Count(p, k2, at)
  BY <1>2, <1>3, HandsOnEffect
<1>5. Exists(p) /\ Live(p, k)
  BY <1>2, <1>3, HasRow DEF HandsOn
<1>6. /\ UNCHANGED <<row, pdf, content, chunks, cards, adding, reembed, trouble>>
      /\ NoteRepeats(p, {next}) /\ orphaned' = [orphaned EXCEPT ![p] = @ \ {next}]
  BY <1>2 DEF HandsOn, tables
<1>7. /\ next = "parse" => pdf[p]
      /\ next # "parse" => content[p]
  BY <1>1, <1>2, <1>4, <1>5 DEF PaperInv, Fed
<1>8. ~IsStub(p)
  BY <1>1, <1>7 DEF PaperInv, Blank
<1>9. \A s \in Stages : Before(p, s)' = Before(p, s) + (IF s = next THEN 1 ELSE 0)
  <2>1. ASSUME NEW s \in Stages, s # next
        PROVE  Before(p, s)' = Before(p, s)
    <3>1. /\ s \in Kinds /\ "waiting" \in Points(s) /\ "working" \in Points(s)
          /\ s = "embed" => "abstracted" \in Points(s) /\ "indexed" \in Points(s)
      BY PointsAre DEF Kinds, Stages
    <3>2. CASE s = k
      BY <1>2, <1>4, <2>1, <3>1, <3>2 DEF Before
    <3>3. CASE s # k
      BY <1>2, <1>4, <2>1, <3>1, <3>3 DEF Before
    <3> QED
      BY <3>2, <3>3
  <2>2. ASSUME next \in Stages
        PROVE  Before(p, next)' = Before(p, next) + 1
    <3>1. /\ "waiting" \in Points(next) /\ "working" \in Points(next)
          /\ next = "embed" => "abstracted" \in Points(next) /\ "indexed" \in Points(next)
      BY <2>2, PointsAre DEF Kinds, Stages
    <3> QED
      BY <1>3, <1>4, <2>2, <3>1, Counts DEF Before
  <2> QED
    BY <2>1, <2>2, Befores
<1>10. \A k2 \in Kinds \ {next} : Live(p, k2)' => Live(p, k2)
  BY <1>4, <1>5 DEF Live
<1>11. /\ orphaned' \in [Papers -> SUBSET Stages]
       /\ orphaned'[p] = orphaned[p] \ {next}
       /\ \A q \in Papers \ {p} : orphaned'[q] = orphaned[q]
       /\ doubled' \subseteq Papers
       /\ \A q \in Papers \ {p} : q \in doubled' <=> q \in doubled
  BY <1>6 DEF TypeOK, NoteRepeats
<1>12. TypeOK'
  BY <1>4, <1>6, <1>11 DEF TypeOK
<1>13. RowsStay /\ Exists(p)' /\ \A q \in Papers \ {p} : Stays(q)
  BY <1>4, <1>5, <1>6, <1>11 DEF RowsStay, Exists, Stays
<1>14. Rowed(p)' /\ RowShape(p)' /\ Blank(p)'
  BY <1>1, <1>5, <1>6, <1>8, <1>13 DEF PaperInv, Rowed, RowShape, Blank, IsStub, Exists
<1>15. Fed(p)'
  <2>1. Count(p, "fetch", "parse")' > 0 \/ Live(p, "parse")' => pdf[p]
    <3>1. CASE next = "parse"
      BY <1>7, <3>1
    <3>2. CASE next # "parse"
      <4>1. Count(p, "fetch", "parse")' = Count(p, "fetch", "parse")
        BY <1>2, <1>4, <3>2, PointsAre DEF Kinds, Stages
      <4>2. Live(p, "parse")' => Live(p, "parse")
        BY <1>10, <3>2 DEF Kinds, Stages
      <4> QED
        BY <1>1, <4>1, <4>2 DEF PaperInv, Fed
    <3> QED
      BY <3>1, <3>2
  <2>2. \/ Live(p, "embed")' \/ Live(p, "extract")'
        \/ \E at \in {"extract", "embed", "references"} : Count(p, "parse", at)' > 0
        => content[p]
    <3>1. CASE next # "parse"
      BY <1>7, <3>1
    <3>2. CASE next = "parse"
      <4>1. \A at \in {"extract", "embed", "references"} :
              Count(p, "parse", at)' = Count(p, "parse", at)
        BY <1>4, <3>2, PointsAre
      <4>2. (Live(p, "embed")' => Live(p, "embed")) /\ (Live(p, "extract")' => Live(p, "extract"))
        BY <1>10, <3>2 DEF Kinds, Stages
      <4> QED
        BY <1>1, <4>1, <4>2 DEF PaperInv, Fed
    <3> QED
      BY <3>1, <3>2
  <2>3. \A at \in {"abstracted", "indexed"} : Count(p, "embed", at)' = Count(p, "embed", at)
    BY <1>2, <1>4, PointsAre DEF Kinds, Stages
  <2> QED
    BY <1>1, <1>6, <2>1, <2>2, <2>3 DEF PaperInv, Fed
<1>16. Once(p)'
  <2>1. /\ Coming1(p)' = Coming1(p)
        /\ Count(p, "embed", "abstracted")' = Count(p, "embed", "abstracted")
    <3>1. \A at \in {"extract", "embed"} : Count(p, "parse", at) \in Nat
      BY PointsAre, Counts DEF Kinds, Stages
    <3>2. \A at \in {"waiting", "working", "abstracted"} : Count(p, "embed", at) \in Nat
      BY PointsAre, Counts DEF Kinds, Stages
    <3>3. CASE k = "parse"
      BY <1>2, <1>4, <3>1, <3>2, <3>3, PointsAre DEF Coming1, Kinds, Stages
    <3>4. CASE k # "parse"
      BY <1>2, <1>4, <3>1, <3>2, <3>4, PointsAre DEF Coming1, Kinds, Stages
    <3> QED
      BY <3>3, <3>4
  <2> QED
    BY <1>1, <1>6, <2>1 DEF PaperInv, Once
<1>17. Text(p)'
  <2>1. \A c \in Cites[p] : c \in Papers
    BY PaperPipelineAssumption
  <2> QED
    BY <1>1, <1>5, <1>6, <1>13, <2>1 DEF PaperInv, Text, RowsStay, Exists
<1>18. Unstalled(p)'
  <2>1. \A s \in Stages : (s \in orphaned[p] \/ Before(p, s) > 0)
                             => (s \in orphaned'[p] \/ Before(p, s)' > 0)
    BY <1>9, <1>11, Befores
  <2> QED
    BY <1>1, <1>5, <1>6, <2>1 DEF PaperInv, Unstalled, Exists, Stages
<1>19. Single(p)'
  <2>1. /\ \A s \in Stages \cap {next} : Before(p, s)' = Before(p, s) + 1
        /\ \A s \in Stages \ {next} : Before(p, s)' = Before(p, s)
    BY <1>9, Befores
  <2>2. \A s \in Stages : Exists(p)' /\ row'[p][s] = "done" => Exists(p) /\ row[p][s] = "done"
    BY <1>5, <1>6
  <2> QED
    BY <1>1, <1>6, <2>1, <2>2, EnqueuedSingle DEF PaperInv
<1>20. Firm
  BY <1>6 DEF Firm, IsStub
<1> QED
  BY <1>12, <1>13, <1>14, <1>15, <1>16, <1>17, <1>18, <1>19, <1>20, OnePaper
  DEF Kept, PaperInv

-----------------------------------------------------------------------------
(* The requests that end, and the failures.                                 *)

LEMMA CommitAddKeeps ==
    ASSUME TypeOK, PipelineInv, NEW p \in Papers, CommitAdd(p)
    PROVE  Kept
<1>1. PaperInv(p) /\ ~Exists(p)
  BY DEF PipelineInv, PaperInv, Rowed, CommitAdd
<1>2. /\ FreshRow("queued") \in Rows
      /\ \A s \in Stages : FreshRow("queued")[s] = "queued"
  BY DEF FreshRow, Rows, Stages, States
<1>3. /\ row' \in [Papers -> Rows \cup {NoRow}] /\ row'[p] = FreshRow("queued")
      /\ \A q \in Papers \ {p} : row'[q] = row[q]
      /\ adding' \in [Papers -> BOOLEAN] /\ ~adding'[p]
      /\ \A q \in Papers \ {p} : adding'[q] = adding[q]
      /\ UNCHANGED <<pdf, content, chunks, cards, jobs, reembed, doubled, orphaned, trouble>>
  BY <1>2 DEF CommitAdd, TypeOK, history
<1>4. TypeOK'
  BY <1>3 DEF TypeOK
<1>5. \A q \in Papers : JobsStay(q)
  BY <1>3 DEF JobsStay, Count
<1>6. Exists(p)' /\ RowsStay /\ \A q \in Papers \ {p} : Stays(q)
  BY <1>2, <1>3, <1>5, NoRowAssumption DEF Exists, RowsStay, Stays
<1>7. /\ \A k \in Kinds : Live(p, k)' <=> Live(p, k)
      /\ \A s \in Stages : Before(p, s)' = Before(p, s)
      /\ Coming1(p)' = Coming1(p)
  BY <1>3 DEF Live, Before, Coming1, Count
<1>8. Rowed(p)' /\ RowShape(p)' /\ Blank(p)'
  BY <1>2, <1>3, <1>6 DEF Rowed, RowShape, Blank, IsStub, Stages
<1>9. Fed(p)' /\ Once(p)'
  BY <1>1, <1>3, <1>7 DEF PaperInv, Fed, Once, Count, Kinds, Stages
<1>10. Text(p)'
  BY <1>2, <1>3 DEF Text, Stages
<1>11. Unstalled(p)'
  BY <1>1, <1>2, <1>3, <1>7 DEF PaperInv, Unstalled, CommitAdd, Stages
<1>12. Single(p)'
  <2>1. \A s \in Stages : row'[p][s] # "done"
    BY <1>2, <1>3
  <2> QED
    BY <1>1, <1>3, <1>7, <2>1 DEF PaperInv, Single
<1>13. Firm
  BY <1>1, <1>3 DEF Firm, IsStub
<1> QED
  BY <1>4, <1>6, <1>8, <1>9, <1>10, <1>11, <1>12, <1>13, OnePaper DEF Kept, PaperInv

LEMMA AbortAddKeeps ==
    ASSUME TypeOK, PipelineInv, NEW p \in Papers, AbortAdd(p)
    PROVE  Kept
<1>1. /\ adding' \in [Papers -> BOOLEAN] /\ ~adding'[p]
      /\ \A q \in Papers \ {p} : adding'[q] = adding[q]
      /\ UNCHANGED <<row, pdf, content, chunks, cards, jobs, reembed, doubled, orphaned>>
      /\ trouble' \in 0 .. MaxTrouble
  BY PaperPipelineAssumption DEF AbortAdd, Trouble, TypeOK, tables, history
<1>2. TypeOK'
  BY <1>1 DEF TypeOK
<1>3. /\ \A q \in Papers : JobsStay(q)
      /\ \A s \in Stages : Before(p, s)' = Before(p, s)
  BY <1>1 DEF JobsStay, Count, Before
<1>4. RowsStay /\ \A q \in Papers \ {p} : Stays(q)
  BY <1>1, <1>3 DEF RowsStay, Exists, Stays
<1>5. \A k \in Kinds : \A at \in Points(k) : Count(p, k, at)' <= Count(p, k, at)
  BY <1>3, Counts DEF JobsStay
<1>6. PaperInv(p)'
  BY <1>1, <1>2, <1>3, <1>4, <1>5, Fading DEF PipelineInv
<1>7. Firm
  BY <1>1 DEF Firm, IsStub
<1> QED
  BY <1>2, <1>4, <1>6, <1>7, OnePaper DEF Kept

LEMMA JobDiesKeeps ==
    ASSUME TypeOK, PipelineInv, NEW p \in Papers, JobDies(p)
    PROVE  Kept
<1>1. trouble' \in 0 .. MaxTrouble /\ UNCHANGED <<tables, adding, reembed, doubled>>
  BY PaperPipelineAssumption DEF JobDies, Trouble, TypeOK
<1>2. PICK k \in Kinds : \E at \in Points(k) \ {"waiting"} :
        /\ At(p, k, at) /\ Leave(p, k, at)
        /\ Orphan(p, IF at \in Unfinished THEN k ELSE "enrich")
  BY DEF JobDies
<1>3. PICK at \in Points(k) \ {"waiting"} :
        /\ At(p, k, at) /\ Leave(p, k, at)
        /\ Orphan(p, IF at \in Unfinished THEN k ELSE "enrich")
  BY <1>2
<1>4. JobGoes(p, k, at, "end")
  BY <1>3 DEF JobGoes
<1>5. CASE at \in Unfinished
  BY <1>1, <1>3, <1>4, <1>5, JobVanishes
<1>6. CASE at \notin Unfinished
  BY <1>1, <1>3, <1>4, <1>6, JobVanishes
<1> QED
  BY <1>5, <1>6

LEMMA CrashKeeps ==
    ASSUME TypeOK, PipelineInv, Crash
    PROVE  Kept
<1>1. /\ trouble' \in 0 .. MaxTrouble
      /\ UNCHANGED <<row, pdf, content, chunks, cards, reembed, doubled>>
  BY PaperPipelineAssumption DEF Crash, Trouble, TypeOK, tables
<1>2. /\ jobs' \in [Places -> Nat]
      /\ \A q \in Papers, k \in Kinds : \A at \in Points(k) :
            Count(q, k, at)' = IF at = "waiting" THEN Count(q, k, at) ELSE 0
  <2>1. \A q \in Papers, k \in Kinds : \A at \in Points(k) : <<q, k, at>> \in Places
    BY PlaceIs
  <2> QED
    BY <2>1 DEF Crash, TypeOK, Count
<1>3. /\ adding' \in [Papers -> BOOLEAN] /\ \A q \in Papers : ~adding'[q]
      /\ orphaned' \in [Papers -> SUBSET Stages]
      /\ \A q \in Papers : orphaned'[q] = orphaned[q] \cup
            {s \in Stages : \E at \in Unfinished \cap Points(s) : Count(q, s, at) > 0}
  BY DEF Crash, TypeOK
<1>4. TypeOK'
  BY <1>1, <1>2, <1>3 DEF TypeOK
<1>5. RowsStay
  BY <1>1 DEF RowsStay, Exists
<1>6. ASSUME NEW q \in Papers
      PROVE  PaperInv(q)'
  <2>1. \A k \in Kinds : \A at \in Points(k) : Count(q, k, at)' <= Count(q, k, at)
    BY <1>2, Counts
  <2>2. ASSUME NEW s \in Stages, s \notin orphaned'[q]
        PROVE  Before(q, s)' = Before(q, s)
    <3>1. /\ s \in Kinds /\ "waiting" \in Points(s) /\ "working" \in Points(s)
          /\ s = "embed" => "abstracted" \in Points(s) /\ "indexed" \in Points(s)
      BY PointsAre DEF Kinds, Stages
    <3>2. \A at \in Unfinished \cap Points(s) : Count(q, s, at) = 0
      BY <1>3, <2>2, <3>1, Counts
    <3> QED
      BY <1>2, <3>1, <3>2 DEF Before, Unfinished
  <2>3. orphaned[q] \subseteq orphaned'[q]
    BY <1>3
  <2> QED
    BY <1>1, <1>3, <1>4, <1>5, <2>1, <2>2, <2>3, Fading DEF PipelineInv
<1>7. Firm
  BY <1>1 DEF Firm, IsStub
<1> QED
  BY <1>4, <1>6, <1>7 DEF Kept, PipelineInv

LEMMA StageFailsKeeps ==
    ASSUME TypeOK, PipelineInv, NEW p \in Papers, StageFails(p)
    PROVE  Kept
<1>1. PaperInv(p)
  BY DEF PipelineInv
<1>2. PICK k \in {"embed", "extract", "references"}, at \in {"working", "abstracted"} :
        /\ at = "abstracted" => k = "embed"
        /\ At(p, k, at) /\ Leave(p, k, at) /\ SetStage(p, k, "failed")
  BY DEF StageFails
<1>3. k \in Kinds /\ k \in Stages /\ at \in Points(k)
  BY <1>2, PointsAre DEF Kinds, Stages
<1>4. Exists(p) /\ Live(p, k) /\ (k # "references" => ~IsStub(p))
  BY <1>2, <1>3, HasRow
<1>5. JobGoes(p, k, at, "end")
  BY <1>2, <1>3 DEF JobGoes
<1>6. StageMay(p, k)
  BY <1>2, <1>3, PaperPipelineAssumption DEF StageFails, StageMay, Trouble, history, TypeOK
<1>7. /\ \A k2 \in Kinds \ {k} : \A at2 \in Points(k2) : Count(p, k2, at2)' = Count(p, k2, at2)
      /\ Count(p, k, at) > 0 /\ Count(p, k, at)' = Count(p, k, at) - 1
      /\ \A at2 \in Points(k) \ {at} : Count(p, k, at2)' = Count(p, k, at2)
      /\ \A k2 \in Kinds \ {k} : Live(p, k2)' <=> Live(p, k2)
  <2>1. "end" \notin Points(k)
    BY <1>3, PointsAre DEF Kinds, Stages
  <2> QED
    BY <1>5, <2>1, JobGoesEffect
<1>8. /\ \A k2 \in Kinds : \A at2 \in Points(k2) :
           /\ Count(p, k2, at2) \in Nat /\ Count(p, k2, at2)' \in Nat
           /\ Count(p, k2, at2)' <= Count(p, k2, at2)
      /\ \A k2 \in Kinds : Live(p, k2)' => Live(p, k2)
  <2>1. \A k2 \in Kinds : \A at2 \in Points(k2) :
           /\ Count(p, k2, at2) \in Nat /\ Count(p, k2, at2)' \in Nat
           /\ Count(p, k2, at2)' <= Count(p, k2, at2)
    BY <1>3, <1>7, Counts
  <2> QED
    BY <2>1 DEF Live
<1>9. Before(p, k)' < Before(p, k) /\ Before(p, k) \in Nat /\ Before(p, k) > 0
  <2>1. /\ "waiting" \in Points(k) /\ "working" \in Points(k)
        /\ k = "embed" => "abstracted" \in Points(k) /\ "indexed" \in Points(k)
    BY <1>2, PointsAre
  <2> QED
    BY <1>2, <1>3, <1>7, <1>8, <2>1 DEF Before
<1>10. /\ row'[p][k] = "failed" /\ Exists(p)' /\ RowsStay
       /\ \A t \in Stages \ {k} : row'[p][t] = row[p][t]
  BY <1>2, <1>3, <1>4, StageSet, NoRowAssumption DEF Exists, RowsStay, States
<1>11. UNCHANGED <<pdf, content, chunks, cards, reembed>>
  BY DEF StageFails, history
<1>12. Blank(p)'
  BY <1>1, <1>2, <1>4, <1>8, <1>10, <1>11 DEF PaperInv, Blank, IsStub, Kinds, Stages
<1>13. Fed(p)'
  <2>1. /\ \A at2 \in {"extract", "embed", "references"} :
             Count(p, "parse", at2)' > 0 => Count(p, "parse", at2) > 0
        /\ Count(p, "fetch", "parse")' > 0 => Count(p, "fetch", "parse") > 0
        /\ \A at2 \in {"abstracted", "indexed"} :
             Count(p, "embed", at2)' > 0 => Count(p, "embed", at2) > 0
    BY <1>8, PointsAre DEF Kinds, Stages
  <2> QED
    BY <1>1, <1>8, <1>11, <2>1 DEF PaperInv, Fed, Kinds, Stages
<1>14. Once(p)'
  <2>1. \A at2 \in {"extract", "embed"} :
          /\ Count(p, "parse", at2) \in Nat /\ Count(p, "parse", at2)' \in Nat
          /\ Count(p, "parse", at2)' <= Count(p, "parse", at2)
    BY <1>8, PointsAre DEF Kinds, Stages
  <2>2. \A at2 \in {"waiting", "working", "abstracted"} :
          /\ Count(p, "embed", at2) \in Nat /\ Count(p, "embed", at2)' \in Nat
          /\ Count(p, "embed", at2)' <= Count(p, "embed", at2)
    BY <1>8, PointsAre DEF Kinds, Stages
  <2>3. Coming1(p) \in Nat /\ Coming1(p)' \in Nat /\ Coming1(p)' <= Coming1(p)
    BY <2>1, <2>2 DEF Coming1
  <2>4. chunks[p]["abstract"] \in Nat /\ chunks[p]["paper_section"] \in Nat
    BY DEF TypeOK, Sources
  <2> QED
    BY <1>1, <1>11, <2>2, <2>3, <2>4 DEF PaperInv, Once
<1>15. Text(p)'
  <2>1. k # "references" => content[p]
    BY <1>1, <1>4 DEF PaperInv, Fed
  <2>2. row'[p]["fetch"] = row[p]["fetch"] /\ row'[p]["parse"] = row[p]["parse"]
    BY <1>2, <1>10 DEF Stages
  <2>3. \A t \in {"embed", "extract", "references"} :
          row'[p][t] = row[p][t] \/ (t = k /\ row'[p][t] = "failed")
    BY <1>10 DEF Stages
  <2> QED
    BY <1>1, <1>4, <1>11, <2>1, <2>2, <2>3, <1>10, PaperPipelineAssumption
    DEF PaperInv, Text, RowsStay
<1>16. /\ Before(p, k)' <= Before(p, k)
       /\ row'[p][k] = "done" => row[p][k] = "done" \/ Before(p, k)' < Before(p, k)
       /\ row'[p][k] \notin {"queued", "running"}
       /\ row'[p][k] = row[p][k] \/ Before(p, k) > 0
  <2>1. Before(p, k)' \in Nat
    <3>1. /\ "waiting" \in Points(k) /\ "working" \in Points(k)
          /\ k = "embed" => "abstracted" \in Points(k) /\ "indexed" \in Points(k)
      BY <1>2, PointsAre
    <3> QED
      BY <1>3, <1>8, <3>1 DEF Before
  <2> QED
    BY <1>9, <1>10, <2>1
<1> QED
  BY <1>4, <1>5, <1>6, <1>12, <1>13, <1>14, <1>15, <1>16, WorkerStep

-----------------------------------------------------------------------------
(* The theorems.                                                            *)

LEMMA InitInv == Init => TypeOK /\ PipelineInv
<1> SUFFICES ASSUME Init
             PROVE  TypeOK /\ PipelineInv
  OBVIOUS
<1>1. TypeOK
  BY PaperPipelineAssumption DEF Init, TypeOK, Sources
<1>2. ASSUME NEW p \in Papers
      PROVE  PaperInv(p)
  <2>1. ~Exists(p) /\ ~adding[p]
    BY DEF Init, Exists
  <2>2. /\ \A k \in Kinds : \A at \in Points(k) : Count(p, k, at) = 0
        /\ \A k \in Kinds : ~Live(p, k)
    <3>1. \A k \in Kinds : \A at \in Points(k) : Count(p, k, at) = 0
      BY PlaceIs DEF Init, Count
    <3> QED
      BY <3>1 DEF Live
  <2>3. /\ \A at \in {"extract", "embed", "references"} : Count(p, "parse", at) = 0
        /\ \A at \in {"waiting", "working", "parse"} : Count(p, "fetch", at) = 0
        /\ \A at \in {"waiting", "working", "abstracted", "indexed"} : Count(p, "embed", at) = 0
    BY <2>2, PointsAre DEF Kinds, Stages
  <2>4. chunks[p]["abstract"] = 0 /\ chunks[p]["paper_section"] = 0
    BY DEF Init, Sources
  <2>5. \A s \in Stages : Before(p, s) = 0
    <3>1. \A s \in Stages : /\ s \in Kinds /\ "waiting" \in Points(s) /\ "working" \in Points(s)
      BY PointsAre DEF Kinds, Stages
    <3> QED
      BY <2>2, <2>3, <3>1 DEF Before
  <2>6. Rowed(p) /\ RowShape(p)
    BY <2>1, <2>2, <2>3 DEF Rowed, RowShape
  <2>7. Blank(p)
    BY <2>2 DEF Blank, Init, Kinds, Stages
  <2>8. Fed(p)
    BY <2>2, <2>3, <2>4 DEF Fed, Kinds, Stages
  <2>9. Once(p)
    BY <2>3, <2>4 DEF Once, Coming1
  <2>10. Text(p) /\ Unstalled(p) /\ Single(p)
    BY <2>1, <2>5 DEF Text, Unstalled, Single
  <2> QED
    BY <2>6, <2>7, <2>8, <2>9, <2>10 DEF PaperInv
<1> QED
  BY <1>1, <1>2 DEF PipelineInv

\* Every step of the pipeline keeps the invariant, and is firm.
LEMMA StepInv ==
    ASSUME TypeOK, PipelineInv, Next
    PROVE  Kept
<1>1. CASE Crash
  BY <1>1, CrashKeeps
<1>2. ASSUME NEW p \in Papers, Researcher(p)
      PROVE  Kept
  BY <1>2, AddPaperKeeps, ReprocessKeeps, OpenPaperKeeps DEF Researcher, Retry, Promote
<1>3. ASSUME NEW p \in Papers, CommitAdd(p)
      PROVE  Kept
  BY <1>3, CommitAddKeeps
<1>4. ASSUME NEW p \in Papers, Worker(p)
      PROVE  Kept
  BY <1>4, FetchStartKeeps, FetchEndKeeps, ParseStartKeeps, ParseEndKeeps,
     ParseDuplicateKeeps, EmbedStartKeeps, EmbedAbstractKeeps, EmbedSectionsKeeps,
     EmbedEndKeeps, ExtractStartKeeps, ExtractEndKeeps, ExtractDuplicateKeeps,
     WriteEdgesKeeps, EnrichKeeps, TraceStartKeeps, TraceEndKeeps, HandOffKeeps
  DEF Worker
<1>5. ASSUME NEW p \in Papers, Failure(p)
      PROVE  Kept
  BY <1>5, AbortAddKeeps, StageFailsKeeps, JobDiesKeeps DEF Failure
<1> QED
  BY <1>1, <1>2, <1>3, <1>4, <1>5 DEF Next

\* A step that changes nothing.
LEMMA StutterInv ==
    ASSUME TypeOK, PipelineInv, UNCHANGED vars
    PROVE  Kept
<1>1. UNCHANGED <<row, pdf, content, chunks, cards, adding, jobs, reembed, doubled,
                  orphaned, trouble>>
  BY DEF vars
<1>2. TypeOK'
  BY <1>1 DEF TypeOK
<1>3. RowsStay /\ \A q \in Papers : Stays(q)
  BY <1>1 DEF RowsStay, Exists, Stays, JobsStay, Count
<1>4. PipelineInv'
  BY <1>3, Undisturbed DEF PipelineInv
<1>5. Firm
  BY <1>1 DEF Firm, IsStub
<1> QED
  BY <1>2, <1>4, <1>5 DEF Kept

\* What holds in every state, and what every step does.
LEMMA SpecInv == Spec => [](TypeOK /\ PipelineInv) /\ [][Firm]_vars
<1>1. Init => TypeOK /\ PipelineInv
  BY InitInv
<1>2. TypeOK /\ PipelineInv /\ [Next]_vars => (TypeOK /\ PipelineInv)'
  BY StepInv, StutterInv DEF Kept
<1>3. TypeOK /\ PipelineInv /\ [Next]_vars => [Firm]_vars
  BY StepInv DEF Kept
<1> QED
  BY <1>1, <1>2, <1>3, PTL DEF Spec

\* The tables, the queue and the records of a library have their types.
THEOREM TypeCorrect == Spec => []TypeOK
  BY SpecInv, PTL

\* The status columns are honest: a stage that ran has its input and its
\* output, a paper is indexed once unless its embedding was retried, and a
\* stub that nobody promoted costs nothing.
THEOREM ColumnsAreHonest == Spec => []StatusHonest
<1>1. TypeOK /\ PipelineInv => StatusHonest
  <2> SUFFICES ASSUME TypeOK, PipelineInv
               PROVE  StatusHonest
    OBVIOUS
  <2>1. TextBehindStages
    BY DEF TextBehindStages, PipelineInv, PaperInv, Text, Sources
  <2>2. IndexedOnce
    <3> SUFFICES ASSUME NEW p \in Papers, NEW src \in Sources, chunks[p][src] > 1,
                        p \notin reembed
                 PROVE  FALSE
      BY DEF IndexedOnce
    <3>1. /\ Coming1(p) + chunks[p]["abstract"] <= 1
          /\ Coming1(p) + Count(p, "embed", "abstracted") + chunks[p]["paper_section"] <= 1
      BY DEF PipelineInv, PaperInv, Once
    <3>2. Coming1(p) \in Nat /\ Count(p, "embed", "abstracted") \in Nat
      <4>1. \A at \in {"extract", "embed"} : Count(p, "parse", at) \in Nat
        BY PointsAre, Counts DEF Kinds, Stages
      <4>2. \A at \in {"waiting", "working", "abstracted"} : Count(p, "embed", at) \in Nat
        BY PointsAre, Counts DEF Kinds, Stages
      <4> QED
        BY <4>1, <4>2 DEF Coming1
    <3>3. chunks[p]["abstract"] \in Nat /\ chunks[p]["paper_section"] \in Nat
      BY DEF TypeOK, Sources
    <3> QED
      BY <3>1, <3>2, <3>3 DEF Sources
  <2>3. StubsInert
    BY DEF StubsInert, PipelineInv, PaperInv, Blank
  <2> QED
    BY <2>1, <2>2, <2>3 DEF StatusHonest
<1> QED
  BY <1>1, SpecInv, PTL

\* A paper never stalls unseen: what is due is done, has a job coming or shows
\* Retry, but for a stage whose job vanished in the middle of its work.
THEOREM StallsAreSeen == Spec => []NoSilentStall
<1>1. TypeOK /\ PipelineInv => NoSilentStall
  <2> SUFFICES ASSUME TypeOK, PipelineInv, NEW p \in Papers, Exists(p), ~IsStub(p),
                      NEW s \in Stages \ orphaned[p], Due(p, s), row[p][s] \notin Terminal
               PROVE  Coming(p, s) \/ needsRetry(p)
    BY DEF NoSilentStall
  <2>1. /\ row[p] \in Rows /\ row[p]["fetch"] \in {"queued", "done", "degraded", "skipped"}
        /\ \A t \in Stages \ {"fetch"} : row[p][t] # "skipped"
    BY DEF PipelineInv, PaperInv, RowShape
  <2>2. ASSUME NEW t \in Stages, Before(p, t) > 0
        PROVE  Coming(p, t)
    <3>1. /\ t \in Kinds /\ "waiting" \in Points(t) /\ "working" \in Points(t)
          /\ t = "embed" => "abstracted" \in Points(t) /\ "indexed" \in Points(t)
      BY PointsAre DEF Kinds, Stages
    <3>2. \E at \in Points(t) : Count(p, t, at) > 0
      BY <2>2, <3>1, Counts DEF Before
    <3> QED
      BY <3>2 DEF Coming, Live
  <2>3. CASE s = "fetch"
    <3>1. row[p]["fetch"] = "queued"
      BY <2>1, <2>3 DEF Terminal, IsStub
    <3> QED
      BY <2>2, <2>3, <3>1 DEF PipelineInv, PaperInv, Unstalled
  <2>4. CASE s \in {"parse", "embed", "extract"}
    <3>1. row[p][s] \in {"queued", "failed", "running"}
      BY <2>1, <2>4 DEF Rows, States, Terminal, Stages
    <3>2. CASE row[p][s] = "running"
      BY <2>2, <2>4, <3>2 DEF PipelineInv, PaperInv, Unstalled
    <3>3. CASE row[p][s] \in {"queued", "failed"}
      BY <2>4, <3>3 DEF needsRetry, Due, Stages
    <3> QED
      BY <3>1, <3>2, <3>3
  <2>5. CASE s = "references"
    BY <2>5 DEF Due
  <2> QED
    BY <2>3, <2>4, <2>5 DEF Stages
<1> QED
  BY <1>1, SpecInv, PTL

\* A finished stage stays finished unless the paper's stages were enqueued
\* twice, and no paper turns back into a stub because another cites it.
THEOREM DoneStaysDone == Spec => NeverRegresses
<1>1. Firm => (\A p \in Papers : Exists(p) =>
        /\ p \notin doubled => \A s \in Stages : row[p][s] = "done" => row'[p][s] = "done"
        /\ ~IsStub(p) => row'[p]["fetch"] # "skipped")
  BY DEF Firm
<1> QED
  BY <1>1, SpecInv, PTL DEF NeverRegresses
=============================================================================

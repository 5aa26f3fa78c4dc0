--------------------------- MODULE Sandbox_proof ---------------------------
(* The safety of Sandbox for every value of its constants: the types, then  *)
(* the consent gate, the registry of runs and the live notebook servers.    *)
(* Each part has the inductive invariant it needs, and rests on the part    *)
(* before.                                                                  *)
EXTENDS Sandbox, TLAPS

-----------------------------------------------------------------------------
(* Types.  A record's None-able field is set wherever a step reads it.      *)

\* A job past its request, or with a container, has an experiment and a token;
\* and there is no container before it is launched.
Unlaunched == {"absent", "queued", "loading", "consuming", "launching", "rejected"}
JobShape ==
    \A r \in Runs :
        /\ job[r].pc \in Unlaunched => box[r] = "none"
        /\ box[r] # "none" \/ job[r].pc \notin {"absent", "rejected", "failed", "lost"}
             => job[r].exp \in Experiments /\ job[r].tok \in Tokens

\* A prompted token has the experiment of its prompt.
TokenShape ==
    \A t \in Tokens : tokens[t].st # "unminted" => tokens[t].exp \in Experiments

\* A request under way has an experiment, and a server where it reads one.
OpShape ==
    \A p \in Procs :
        /\ op[p].pc # "idle" => op[p].exp \in Experiments
        /\ op[p].pc \in {"probing", "saving", "writing", "removing"}
             => op[p].srv \in Servers

Typed == TypeOK /\ JobShape /\ TokenShape /\ OpShape

LEMMA EmptyContents == Missing \in Contents /\ {} \in Contents
<1>1. Missing \in Contents BY Zenon DEF Contents
<1>2. {} \in Contents BY Zenon DEF Contents
<1> QED BY <1>1, <1>2

LEMMA BlankJobTyped ==
    ASSUME NEW pc \in JobStates
    PROVE  BlankJob(pc) \in JobRecords /\ BlankJob(pc).pc = pc
BY EmptyContents DEF BlankJob, JobRecords

LEMMA OpAtTyped ==
    ASSUME NEW pc \in OpStates, NEW e \in Experiments \cup {None},
           NEW s \in Servers \cup {None}, NEW bytes \in Contents
    PROVE  /\ OpAt(pc, e, s, bytes) \in OpRecords
           /\ OpAt(pc, e, s, bytes).pc = pc
           /\ OpAt(pc, e, s, bytes).exp = e
           /\ OpAt(pc, e, s, bytes).srv = s
BY DEF OpAt, OpRecords

LEMMA IdleTyped == IdleOp \in OpRecords /\ IdleOp.pc = "idle"
BY OpAtTyped, EmptyContents DEF IdleOp, OpStates

LEMMA TypedInit == Init => Typed
<1> SUFFICES ASSUME Init PROVE Typed OBVIOUS
<1>1. job \in [Runs -> JobRecords] /\ \A r \in Runs : job[r].pc = "absent"
  BY BlankJobTyped DEF Init, JobStates
<1>2. op \in [Procs -> OpRecords] /\ \A p \in Procs : op[p].pc = "idle"
  BY IdleTyped DEF Init
<1>3. tokens \in [Tokens -> TokenRecords] /\ TokenShape
  BY DEF Init, TokenRecords, TokenStates, TokenShape
<1>4. server \in [Servers -> ServerRecords]
  BY DEF Init, ServerRecords, ServerStates
<1>5. TypeOK BY <1>1, <1>2, <1>3, <1>4, EmptyContents DEF Init, TypeOK, BoxStates
<1>6. JobShape BY <1>1 DEF Init, JobShape
<1>7. OpShape BY <1>2 DEF OpShape
<1> QED BY <1>3, <1>4, <1>5, <1>6, <1>7 DEF Typed

\* What EXCEPT does to the records, stated once.
LEMMA JobAtPc ==
    ASSUME NEW j \in JobRecords, NEW pc \in JobStates
    PROVE  /\ [j EXCEPT !.pc = pc] \in JobRecords
           /\ [j EXCEPT !.pc = pc].pc = pc
           /\ [j EXCEPT !.pc = pc].exp = j.exp
           /\ [j EXCEPT !.pc = pc].tok = j.tok
BY DEF JobRecords

\* One job moves on: it keeps its experiment and token, or ends without one.
LEMMA JobMoves ==
    ASSUME Typed, NEW r \in Runs, NEW j \in JobRecords,
           job' = [job EXCEPT ![r] = j],
           box' \in [Runs -> BoxStates],
           \A q \in Runs \ {r} : box'[q] = box[q],
           j.pc \in Unlaunched => box'[r] = "none",
           \/ j.exp \in Experiments /\ j.tok \in Tokens
           \/ j.pc \in {"absent", "rejected", "failed", "lost"} /\ box'[r] = "none"
    PROVE  job' \in [Runs -> JobRecords] /\ JobShape'
<1>1. job' \in [Runs -> JobRecords] BY DEF Typed, TypeOK
<1>2. JobShape' BY DEF Typed, TypeOK, JobShape
<1> QED BY <1>1, <1>2

LEMMA OpAtPc ==
    ASSUME NEW x \in OpRecords, NEW pc \in OpStates
    PROVE  /\ [x EXCEPT !.pc = pc] \in OpRecords
           /\ [x EXCEPT !.pc = pc].pc = pc
           /\ [x EXCEPT !.pc = pc].exp = x.exp
           /\ [x EXCEPT !.pc = pc].srv = x.srv
BY DEF OpRecords

\* One request or ceiling task moves on.
LEMMA OpMoves ==
    ASSUME Typed, NEW p \in Procs, NEW x \in OpRecords,
           op' = [op EXCEPT ![p] = x],
           x.pc # "idle" => x.exp \in Experiments,
           x.pc \in {"probing", "saving", "writing", "removing"} => x.srv \in Servers
    PROVE  op' \in [Procs -> OpRecords] /\ OpShape'
<1>1. op' \in [Procs -> OpRecords] BY DEF Typed, TypeOK
<1>2. OpShape' BY DEF Typed, TypeOK, OpShape
<1> QED BY <1>1, <1>2

LEMMA TypedGate ==
    ASSUME Typed
    PROVE  /\ \A e \in Experiments : UpdateExperiment(e) => Typed'
           /\ \A t \in Tokens, e \in Experiments : Preview(t, e) => Typed'
           /\ \A t \in Tokens : MintConfirmation(t) \/ ExpireToken(t) => Typed'
<1> USE DEF Typed, JobShape, OpShape, disk, runs, serving
<1>1. ASSUME NEW e \in Experiments, UpdateExperiment(e) PROVE Typed'
  BY <1>1 DEF UpdateExperiment, TypeOK, TokenShape
<1>2. ASSUME NEW t \in Tokens, NEW e \in Experiments, Preview(t, e) PROVE Typed'
  <2>1. [st |-> "prompted", exp |-> e, net |-> FALSE,
         seen |-> [net |-> netOptin[e], cells |-> notebook[e]]] \in TokenRecords
    BY DEF TypeOK, TokenRecords, TokenStates, Prompts
  <2> QED BY <1>2, <2>1 DEF Preview, TypeOK, TokenShape
<1>3. ASSUME NEW t \in Tokens, MintConfirmation(t) PROVE Typed'
  <2>1. tokens[t] \in TokenRecords /\ tokens[t].exp \in Experiments
    BY <1>3 DEF MintConfirmation, TypeOK, TokenShape
  <2>2. [tokens[t] EXCEPT !.st = "valid", !.net = netOptin[tokens[t].exp]] \in TokenRecords
    BY <2>1 DEF TokenRecords, TokenStates, TypeOK
  <2> QED BY <1>3, <2>1, <2>2 DEF MintConfirmation, TypeOK, TokenShape, TokenRecords
<1>4. ASSUME NEW t \in Tokens, ExpireToken(t) PROVE Typed'
  <2>1. tokens[t] \in TokenRecords BY DEF TypeOK
  <2>2. [tokens[t] EXCEPT !.st = "expired"] \in TokenRecords
    BY <2>1 DEF TokenRecords, TokenStates
  <2> QED BY <1>4, <2>1, <2>2 DEF ExpireToken, TypeOK, TokenShape, TokenRecords
<1> QED BY <1>1, <1>2, <1>3, <1>4

LEMMA TypedPost ==
    ASSUME Typed, NEW r \in Runs, NEW e \in Experiments, NEW t \in Tokens,
           NEW f \in BOOLEAN, PostRunAll(r, e, t, f)
    PROVE  Typed'
<1> DEFINE j == [job[r] EXCEPT !.pc = "queued", !.exp = e, !.tok = t, !.flag = f]
<1>1. job[r] \in JobRecords BY DEF Typed, TypeOK
<1>2. j \in JobRecords /\ j.pc = "queued" /\ j.exp = e /\ j.tok = t
  BY <1>1 DEF JobRecords, JobStates
<1>3. job[r].pc = "absent" /\ box' = box /\ box[r] = "none"
  BY DEF PostRunAll, InPc, runs, Typed, JobShape, Unlaunched
<1>4. job' = [job EXCEPT ![r] = j] BY DEF PostRunAll
<1> HIDE DEF j
<1>5. job' \in [Runs -> JobRecords] /\ JobShape'
  BY <1>2, <1>3, <1>4, JobMoves DEF Typed, TypeOK
<1>6. TypeOK' BY <1>5 DEF PostRunAll, Typed, TypeOK, disk, serving
<1>7. TokenShape' /\ OpShape'
  BY DEF PostRunAll, Typed, TokenShape, OpShape, serving
<1> QED BY <1>5, <1>6, <1>7 DEF Typed

LEMMA TypedRun ==
    ASSUME Typed, NEW r \in Runs, RunStep(r) \/ RunFails(r) \/ RunnerExits(r)
    PROVE  Typed'
<1> USE DEF JobStates, BoxStates
<1>1. job[r] \in JobRecords BY DEF Typed, TypeOK
<1>2. job[r].pc \notin {"absent", "rejected", "failed", "lost"} \/ box[r] # "none"
      => job[r].exp \in Experiments /\ job[r].tok \in Tokens
  BY DEF Typed, JobShape
<1>3. job[r].pc \in Unlaunched => box[r] = "none"
  BY DEF Typed, JobShape
<1>4. box \in [Runs -> BoxStates] BY DEF Typed, TypeOK
<1>5. CASE RunCheck(r)
  <2>0. box' = box /\ job[r].pc = "queued"
    BY <1>5 DEF RunCheck, InPc
  <2>1. job' \in [Runs -> JobRecords] /\ JobShape'
    <3>1. CASE job' = [job EXCEPT ![r] = [job[r] EXCEPT !.pc = "loading"]]
      BY <1>1, <1>2, <1>3, <1>4, <2>0, <3>1, JobAtPc, JobMoves DEF Unlaunched
    <3>2. CASE job' = [job EXCEPT ![r] = BlankJob("rejected")]
      BY <1>3, <1>4, <2>0, <3>2, BlankJobTyped, JobMoves DEF Unlaunched
    <3> QED BY <1>5, <3>1, <3>2 DEF RunCheck
  <2>2. TypeOK' BY <1>5, <2>1 DEF RunCheck, Typed, TypeOK, disk, serving
  <2>3. TokenShape' /\ OpShape'
    BY <1>5 DEF RunCheck, Typed, TokenShape, OpShape, serving
  <2> QED BY <2>1, <2>2, <2>3 DEF Typed
<1>6. CASE LoadRunSpec(r)
  <2> DEFINE j == [job[r] EXCEPT !.pc = "consuming", !.net = netOptin[job[r].exp]]
  <2>0. job[r].pc = "loading" /\ job' = [job EXCEPT ![r] = j] /\ box' = box
    BY <1>6 DEF LoadRunSpec, InPc
  <2>1. netOptin[job[r].exp] \in BOOLEAN BY <1>2, <2>0 DEF Typed, TypeOK
  <2>2. /\ j \in JobRecords /\ j.pc = "consuming"
        /\ j.exp = job[r].exp /\ j.tok = job[r].tok
    BY <1>1, <2>1 DEF JobRecords
  <2> HIDE DEF j
  <2>3. job' \in [Runs -> JobRecords] /\ JobShape'
    BY <1>2, <1>3, <1>4, <2>0, <2>2, JobMoves DEF Unlaunched
  <2>4. TypeOK' BY <1>6, <2>3 DEF LoadRunSpec, Typed, TypeOK, disk, serving
  <2>5. TokenShape' /\ OpShape'
    BY <1>6 DEF LoadRunSpec, Typed, TokenShape, OpShape, serving
  <2> QED BY <2>3, <2>4, <2>5 DEF Typed
<1>7. CASE ConsumeToken(r)
  <2> DEFINE j == [job[r] EXCEPT !.pc = "launching", !.hash = notebook[job[r].exp]]
  <2>0. job[r].pc = "consuming" /\ box' = box
    BY <1>7 DEF ConsumeToken, InPc
  <2>1. notebook[job[r].exp] \in Contents BY <1>2, <2>0 DEF Typed, TypeOK
  <2>2. /\ j \in JobRecords /\ j.pc = "launching"
        /\ j.exp = job[r].exp /\ j.tok = job[r].tok
    BY <1>1, <2>1 DEF JobRecords
  <2>3. \/ job' = [job EXCEPT ![r] = j]
        \/ job' = [job EXCEPT ![r] = BlankJob("rejected")]
    BY <1>7 DEF ConsumeToken
  <2> HIDE DEF j
  <2>4. job' \in [Runs -> JobRecords] /\ JobShape'
    <3>1. CASE job' = [job EXCEPT ![r] = j]
      BY <1>2, <1>3, <1>4, <2>0, <2>2, <3>1, JobMoves DEF Unlaunched
    <3>2. CASE job' = [job EXCEPT ![r] = BlankJob("rejected")]
      BY <1>3, <1>4, <2>0, <3>2, BlankJobTyped, JobMoves DEF Unlaunched
    <3> QED BY <2>3, <3>1, <3>2
  <2>5. tokens' \in [Tokens -> TokenRecords] /\ TokenShape'
    <3>1. tokens[job[r].tok] \in TokenRecords BY <1>2, <2>0 DEF Typed, TypeOK
    <3>2. CASE tokens' = tokens BY <3>2 DEF Typed, TypeOK, TokenShape
    <3>3. CASE /\ tokens' = [tokens EXCEPT ![job[r].tok].st = "used"]
               /\ tokens[job[r].tok].st = "valid"
      <4>1. [tokens[job[r].tok] EXCEPT !.st = "used"] \in TokenRecords
        BY <3>1 DEF TokenRecords, TokenStates
      <4> QED
        BY <1>2, <2>0, <3>1, <3>3, <4>1 DEF Typed, TypeOK, TokenShape, TokenRecords
    <3> QED BY <1>7, <3>2, <3>3 DEF ConsumeToken, TokenAccepted
  <2>6. TypeOK' BY <1>7, <2>4, <2>5 DEF ConsumeToken, Typed, TypeOK, disk, serving
  <2>7. OpShape'
    BY <1>7 DEF ConsumeToken, Typed, OpShape, serving
  <2> QED BY <2>4, <2>5, <2>6, <2>7 DEF Typed
<1>8. CASE LaunchContainer(r)
  <2> DEFINE j == [job[r] EXCEPT !.pc = "created", !.wired = NetworkEnabled(r),
                                 !.ran = notebook[job[r].exp]]
  <2>0. /\ job[r].pc = "launching" /\ job' = [job EXCEPT ![r] = j]
        /\ box' = [box EXCEPT ![r] = "running"]
    BY <1>8 DEF LaunchContainer, InPc
  <2>1. notebook[job[r].exp] \in Contents BY <1>2, <2>0 DEF Typed, TypeOK
  <2>2. NetworkEnabled(r) \in BOOLEAN BY <1>1 DEF NetworkEnabled, JobRecords
  <2>3. /\ j \in JobRecords /\ j.pc = "created"
        /\ j.exp = job[r].exp /\ j.tok = job[r].tok
    BY <1>1, <2>1, <2>2 DEF JobRecords
  <2> HIDE DEF j
  <2>4. box' \in [Runs -> BoxStates] /\ \A q \in Runs \ {r} : box'[q] = box[q]
    BY <1>4, <2>0
  <2>5. job' \in [Runs -> JobRecords] /\ JobShape'
    BY <1>2, <2>0, <2>3, <2>4, JobMoves DEF Unlaunched
  <2>6. TypeOK' BY <1>8, <2>4, <2>5 DEF LaunchContainer, Typed, TypeOK, disk, serving
  <2>7. TokenShape' /\ OpShape'
    BY <1>8 DEF LaunchContainer, Typed, TokenShape, OpShape, serving
  <2> QED BY <2>5, <2>6, <2>7 DEF Typed
<1>9. CASE RegisterRun(r)
  <2>0. /\ job[r].pc = "created"
        /\ job' = [job EXCEPT ![r] = [job[r] EXCEPT !.pc = "announcing"]]
        /\ box' = box
    BY <1>9 DEF RegisterRun, InPc
  <2>1. box' \in [Runs -> BoxStates] /\ \A q \in Runs \ {r} : box'[q] = box[q]
    BY <1>4, <2>0
  <2>2. job' \in [Runs -> JobRecords] /\ JobShape'
    BY <1>1, <1>2, <2>0, <2>1, JobAtPc, JobMoves DEF Unlaunched
  <2>3. TypeOK' BY <1>9, <2>1, <2>2 DEF RegisterRun, Typed, TypeOK, disk, serving
  <2>4. TokenShape' /\ OpShape'
    BY <1>9 DEF RegisterRun, Typed, TokenShape, OpShape, serving
  <2> QED BY <2>2, <2>3, <2>4 DEF Typed
<1>10. CASE AnnounceRunning(r)
  <2>0. /\ job[r].pc = "announcing"
        /\ job' = [job EXCEPT ![r] = [job[r] EXCEPT !.pc = "streaming"]]
        /\ box' = box
    BY <1>10 DEF AnnounceRunning, InPc
  <2>1. box' \in [Runs -> BoxStates] /\ \A q \in Runs \ {r} : box'[q] = box[q]
    BY <1>4, <2>0
  <2>2. job' \in [Runs -> JobRecords] /\ JobShape'
    BY <1>1, <1>2, <2>0, <2>1, JobAtPc, JobMoves DEF Unlaunched
  <2>3. TypeOK' BY <1>10, <2>1, <2>2 DEF AnnounceRunning, Typed, TypeOK, disk, serving
  <2>4. TokenShape' /\ OpShape'
    BY <1>10 DEF AnnounceRunning, Typed, TokenShape, OpShape, serving
  <2> QED BY <2>2, <2>3, <2>4 DEF Typed
<1>11. CASE StreamEnds(r)
  <2>0. /\ job[r].pc = "streaming"
        /\ job' = [job EXCEPT ![r] = [job[r] EXCEPT !.pc = "reaping"]]
        /\ box' = box
    BY <1>11 DEF StreamEnds, InPc
  <2>1. box' \in [Runs -> BoxStates] /\ \A q \in Runs \ {r} : box'[q] = box[q]
    BY <1>4, <2>0
  <2>2. job' \in [Runs -> JobRecords] /\ JobShape'
    BY <1>1, <1>2, <2>0, <2>1, JobAtPc, JobMoves DEF Unlaunched
  <2>3. TypeOK' BY <1>11, <2>1, <2>2 DEF StreamEnds, Typed, TypeOK, disk, serving
  <2>4. TokenShape' /\ OpShape'
    BY <1>11 DEF StreamEnds, Typed, TokenShape, OpShape, serving
  <2> QED BY <2>2, <2>3, <2>4 DEF Typed
<1>12. CASE ReapContainer(r)
  <2>0. /\ job[r].pc = "reaping"
        /\ job' = [job EXCEPT ![r] = [job[r] EXCEPT !.pc = "popping"]]
        /\ box' = [box EXCEPT ![r] = "removed"]
    BY <1>12 DEF ReapContainer, InPc
  <2>1. box' \in [Runs -> BoxStates] /\ \A q \in Runs \ {r} : box'[q] = box[q]
    BY <1>4, <2>0
  <2>2. job' \in [Runs -> JobRecords] /\ JobShape'
    BY <1>1, <1>2, <2>0, <2>1, JobAtPc, JobMoves DEF Unlaunched
  <2>3. TypeOK' BY <1>12, <2>1, <2>2 DEF ReapContainer, Typed, TypeOK, disk, serving
  <2>4. TokenShape' /\ OpShape'
    BY <1>12 DEF ReapContainer, Typed, TokenShape, OpShape, serving
  <2> QED BY <2>2, <2>3, <2>4 DEF Typed
<1>13. CASE BroadcastRaises(r)
  <2>0. /\ job[r].pc = "announcing" \/ job[r].pc = "streaming" \/ job[r].pc = "committing"
        /\ job' = [job EXCEPT ![r] = [job[r] EXCEPT !.pc = "failed"]]
        /\ box' = box
    BY <1>13 DEF BroadcastRaises, InPc
  <2>1. box' \in [Runs -> BoxStates] /\ \A q \in Runs \ {r} : box'[q] = box[q]
    BY <1>4, <2>0
  <2>2. job' \in [Runs -> JobRecords] /\ JobShape'
    BY <1>1, <1>2, <2>0, <2>1, JobAtPc, JobMoves DEF Unlaunched
  <2>3. TypeOK' BY <1>13, <2>1, <2>2 DEF BroadcastRaises, Typed, TypeOK, disk, serving
  <2>4. TokenShape' /\ OpShape'
    BY <1>13 DEF BroadcastRaises, Typed, TokenShape, OpShape, serving
  <2> QED BY <2>2, <2>3, <2>4 DEF Typed
<1>14. CASE ReapFails(r)
  <2>0. /\ job[r].pc = "reaping"
        /\ job' = [job EXCEPT ![r] = [job[r] EXCEPT !.pc = "failed"]]
        /\ box' = box
    BY <1>14 DEF ReapFails, InPc
  <2>1. box' \in [Runs -> BoxStates] /\ \A q \in Runs \ {r} : box'[q] = box[q]
    BY <1>4, <2>0
  <2>2. job' \in [Runs -> JobRecords] /\ JobShape'
    BY <1>1, <1>2, <2>0, <2>1, JobAtPc, JobMoves DEF Unlaunched
  <2>3. TypeOK' BY <1>14, <2>1, <2>2 DEF ReapFails, Typed, TypeOK, disk, serving
  <2>4. TokenShape' /\ OpShape'
    BY <1>14 DEF ReapFails, Typed, TokenShape, OpShape, serving
  <2> QED BY <2>2, <2>3, <2>4 DEF Typed
<1>15. CASE WriteRunFiles(r)
  <2>0. /\ job[r].pc = "writing"
        /\ job' = [job EXCEPT ![r] = [job[r] EXCEPT !.pc = "committing"]]
        /\ box' = box
    BY <1>15 DEF WriteRunFiles, InPc
  <2>1. box' \in [Runs -> BoxStates] /\ \A q \in Runs \ {r} : box'[q] = box[q]
    BY <1>4, <2>0
  <2>2. job' \in [Runs -> JobRecords] /\ JobShape'
    BY <1>1, <1>2, <2>0, <2>1, JobAtPc, JobMoves DEF Unlaunched
  <2>3. TypeOK' BY <1>1, <1>15, <2>1, <2>2 DEF WriteRunFiles, Typed, TypeOK, JobRecords, disk, serving
  <2>4. TokenShape' /\ OpShape'
    BY <1>15 DEF WriteRunFiles, Typed, TokenShape, OpShape, serving
  <2> QED BY <2>2, <2>3, <2>4 DEF Typed
<1>16. CASE CommitRun(r)
  <2>0. /\ job[r].pc = "committing"
        /\ job' = [job EXCEPT ![r] = [job[r] EXCEPT !.pc = "done"]]
        /\ box' = box
    BY <1>16 DEF CommitRun, InPc
  <2>1. box' \in [Runs -> BoxStates] /\ \A q \in Runs \ {r} : box'[q] = box[q]
    BY <1>4, <2>0
  <2>2. job' \in [Runs -> JobRecords] /\ JobShape'
    BY <1>1, <1>2, <2>0, <2>1, JobAtPc, JobMoves DEF Unlaunched
  <2>3. TypeOK' BY <1>16, <2>1, <2>2 DEF CommitRun, Typed, TypeOK, disk, serving
  <2>4. TokenShape' /\ OpShape'
    BY <1>16 DEF CommitRun, Typed, TokenShape, OpShape, serving
  <2> QED BY <2>2, <2>3, <2>4 DEF Typed
<1>17. CASE StreamTimesOut(r)
  <2>0. /\ job[r].pc = "streaming"
        /\ \/ /\ job' = [job EXCEPT ![r] = [job[r] EXCEPT !.pc = "reaping"]]
              /\ box' = [box EXCEPT ![r] = "exited"]
           \/ /\ job' = [job EXCEPT ![r] = [job[r] EXCEPT !.pc = "failed"]]
              /\ box' = box
    BY <1>17 DEF StreamTimesOut, InPc
  <2>1. box' \in [Runs -> BoxStates] /\ \A q \in Runs \ {r} : box'[q] = box[q]
    BY <1>4, <2>0
  <2>2. job' \in [Runs -> JobRecords] /\ JobShape'
    <3>1. CASE job' = [job EXCEPT ![r] = [job[r] EXCEPT !.pc = "reaping"]]
      BY <1>1, <1>2, <2>0, <2>1, <3>1, JobAtPc, JobMoves DEF Unlaunched
    <3>2. CASE job' = [job EXCEPT ![r] = [job[r] EXCEPT !.pc = "failed"]]
      BY <1>1, <1>2, <2>0, <2>1, <3>2, JobAtPc, JobMoves DEF Unlaunched
    <3> QED BY <2>0, <3>1, <3>2
  <2>3. TypeOK' BY <1>17, <2>1, <2>2 DEF StreamTimesOut, Typed, TypeOK, disk, serving
  <2>4. TokenShape' /\ OpShape'
    BY <1>17 DEF StreamTimesOut, Typed, TokenShape, OpShape, serving
  <2> QED BY <2>2, <2>3, <2>4 DEF Typed
<1>18. CASE PopRun(r)
  <2> DEFINE j == [job[r] EXCEPT !.pc = "writing", !.out = notebook[job[r].exp]]
  <2>0. job[r].pc = "popping" /\ job' = [job EXCEPT ![r] = j] /\ box' = box
    BY <1>18 DEF PopRun, InPc
  <2>1. notebook[job[r].exp] \in Contents BY <1>2, <2>0 DEF Typed, TypeOK
  <2>2. /\ j \in JobRecords /\ j.pc = "writing"
        /\ j.exp = job[r].exp /\ j.tok = job[r].tok
    BY <1>1, <2>1 DEF JobRecords
  <2> HIDE DEF j
  <2>3. job' \in [Runs -> JobRecords] /\ JobShape'
    BY <1>2, <1>4, <2>0, <2>2, JobMoves DEF Unlaunched
  <2>4. TypeOK' BY <1>18, <2>3 DEF PopRun, Typed, TypeOK, disk, serving
  <2>5. TokenShape' /\ OpShape'
    BY <1>18 DEF PopRun, Typed, TokenShape, OpShape, serving
  <2> QED BY <2>3, <2>4, <2>5 DEF Typed
<1>19. CASE LaunchFails(r)
  <2>0. /\ job[r].pc = "launching" /\ box' = box
        /\ job' = [job EXCEPT ![r] = BlankJob("failed")]
    BY <1>19 DEF LaunchFails, InPc
  <2>1. job' \in [Runs -> JobRecords] /\ JobShape'
    BY <1>3, <1>4, <2>0, BlankJobTyped, JobMoves DEF Unlaunched
  <2>2. TypeOK' BY <1>19, <2>1 DEF LaunchFails, Typed, TypeOK, disk, serving
  <2>3. TokenShape' /\ OpShape'
    BY <1>19 DEF LaunchFails, Typed, TokenShape, OpShape, serving
  <2> QED BY <2>1, <2>2, <2>3 DEF Typed
<1>20. CASE RunnerExits(r)
  <2>1. JobShape' BY <1>20, <1>4 DEF RunnerExits, Typed, JobShape, Unlaunched
  <2>2. job[r].ran \in Contents BY <1>1 DEF JobRecords
  <2>3. TypeOK' BY <1>20, <2>2 DEF RunnerExits, Typed, TypeOK, serving
  <2>4. TokenShape' /\ OpShape'
    BY <1>20 DEF RunnerExits, Typed, TokenShape, OpShape, serving
  <2> QED BY <2>1, <2>3, <2>4 DEF Typed
<1>21. CASE WaitFails(r)
  <2>0. /\ job[r].pc = "popping"
        /\ job' = [job EXCEPT ![r] = [job[r] EXCEPT !.pc = "failed"]]
        /\ box' = box
    BY <1>21 DEF WaitFails, InPc
  <2>1. box' \in [Runs -> BoxStates] /\ \A q \in Runs \ {r} : box'[q] = box[q]
    BY <1>4, <2>0
  <2>2. job' \in [Runs -> JobRecords] /\ JobShape'
    BY <1>1, <1>2, <2>0, <2>1, JobAtPc, JobMoves DEF Unlaunched
  <2>3. TypeOK' BY <1>21, <2>1, <2>2 DEF WaitFails, Typed, TypeOK, disk, serving
  <2>4. TokenShape' /\ OpShape'
    BY <1>21 DEF WaitFails, Typed, TokenShape, OpShape, serving
  <2> QED BY <2>2, <2>3, <2>4 DEF Typed
<1>22. CASE WriteFails(r)
  <2>0. /\ job[r].pc = "writing"
        /\ job' = [job EXCEPT ![r] = [job[r] EXCEPT !.pc = "failed"]]
        /\ box' = box
    BY <1>22 DEF WriteFails, InPc
  <2>1. box' \in [Runs -> BoxStates] /\ \A q \in Runs \ {r} : box'[q] = box[q]
    BY <1>4, <2>0
  <2>2. job' \in [Runs -> JobRecords] /\ JobShape'
    BY <1>1, <1>2, <2>0, <2>1, JobAtPc, JobMoves DEF Unlaunched
  <2>3. TypeOK' BY <1>22, <2>1, <2>2 DEF WriteFails, Typed, TypeOK, disk, serving
  <2>4. TokenShape' /\ OpShape'
    BY <1>22 DEF WriteFails, Typed, TokenShape, OpShape, serving
  <2> QED BY <2>2, <2>3, <2>4 DEF Typed
<1> QED
  BY <1>5, <1>6, <1>7, <1>8, <1>9, <1>10, <1>11, <1>12, <1>13, <1>14, <1>15, <1>16,
     <1>17, <1>18, <1>19, <1>20, <1>21, <1>22
  DEF RunStep, RunFails

LEMMA TypedKernel ==
    ASSUME Typed, NEW e \in Experiments, StopKernel(e)
    PROVE  Typed'
<1>1. running[e] \in Runs /\ box[running[e]] = "running"
      /\ box' = [box EXCEPT ![running[e]] = "exited"] /\ job' = job
  BY DEF StopKernel, Typed, TypeOK
<1>2. JobShape' BY <1>1 DEF Typed, TypeOK, JobShape, Unlaunched
<1>3. TypeOK' BY <1>1 DEF StopKernel, Typed, TypeOK, BoxStates, disk, serving
<1>4. TokenShape' /\ OpShape'
  BY DEF StopKernel, Typed, TokenShape, OpShape, serving
<1> QED BY <1>2, <1>3, <1>4 DEF Typed

\* The requests that start, stop and propose, and the ceiling tasks.
LEMMA TypedServe ==
    ASSUME Typed, NEW p \in Procs
    PROVE  /\ \A e \in Experiments :
                 p \in Ops /\ (ProposeRead(p, e) \/ StartEnter(p, e)) => Typed'
           /\ \A e \in Experiments : StopEnter(p, e) => Typed'
           /\ \A c \in Cells : ProposeWrite(p, c) => Typed'
           /\ ServeStep(p) \/ ProbeFails(p) \/ SaveFails(p) \/ RemoveFails(p) => Typed'
           /\ p \in Servers /\ WakeCeiling(p) => Typed'
<1> USE DEF OpStates, Acquire, Release
<1>1. op[p] \in OpRecords BY DEF Typed, TypeOK
<1>2. op[p].pc # "idle" => op[p].exp \in Experiments
  BY DEF Typed, OpShape
<1>3. op[p].pc \in {"probing", "saving", "writing", "removing"} => op[p].srv \in Servers
  BY DEF Typed, OpShape
<1>4. lock' \in [Experiments -> Procs \cup {None}]
      => \A e : [lock EXCEPT ![e] = None] \in [Experiments -> Procs \cup {None}]
  BY DEF Typed, TypeOK
<1>5. ASSUME NEW e \in Experiments, p \in Ops, ProposeRead(p, e) PROVE Typed'
  <2>1. op' \in [Procs -> OpRecords] /\ OpShape'
    <3> DEFINE x == OpAt("proposing", e, None, notebook[e])
    <3>0. notebook[e] \in Contents BY DEF Typed, TypeOK
    <3>1. x \in OpRecords /\ x.pc = "proposing" /\ x.exp = e
      BY <3>0, OpAtTyped
    <3>2. op' = [op EXCEPT ![p] = x] BY <1>5 DEF ProposeRead
    <3> HIDE DEF x
    <3> QED BY <3>1, <3>2, OpMoves
  <2>7. JobShape' /\ TokenShape'
    BY <1>5 DEF ProposeRead, Typed, JobShape, TokenShape, runs
  <2>9. TypeOK' BY <1>5, <2>1 DEF ProposeRead, Typed, TypeOK, disk, runs
  <2> QED BY <2>1, <2>7, <2>9 DEF Typed
<1>6. ASSUME NEW e \in Experiments, p \in Ops, StartEnter(p, e) PROVE Typed'
  <2>1. op' \in [Procs -> OpRecords] /\ OpShape'
    <3> DEFINE x == OpAt("starting", e, None, Missing)
    <3>1. x \in OpRecords /\ x.pc = "starting" /\ x.exp = e
      BY EmptyContents, OpAtTyped
    <3>2. op' = [op EXCEPT ![p] = x] BY <1>6 DEF StartEnter
    <3> HIDE DEF x
    <3> QED BY <3>1, <3>2, OpMoves
  <2>7. JobShape' /\ TokenShape'
    BY <1>6 DEF StartEnter, Typed, JobShape, TokenShape, runs
  <2>9. TypeOK' BY <1>6, <2>1 DEF StartEnter, Typed, TypeOK, disk, runs
  <2> QED BY <2>1, <2>7, <2>9 DEF Typed
<1>7. ASSUME NEW e \in Experiments, StopEnter(p, e) PROVE Typed'
  <2>0. live[e] \in Servers BY <1>7 DEF StopEnter, Typed, TypeOK
  <2>1. op' \in [Procs -> OpRecords] /\ OpShape'
    <3> DEFINE x == OpAt("saving", e, live[e], Missing)
    <3>1. x \in OpRecords /\ x.pc = "saving" /\ x.exp = e /\ x.srv = live[e]
      BY <2>0, EmptyContents, OpAtTyped
    <3>2. op' = [op EXCEPT ![p] = x] BY <1>7 DEF StopEnter
    <3> HIDE DEF x
    <3> QED BY <2>0, <3>1, <3>2, OpMoves
  <2>7. JobShape' /\ TokenShape'
    BY <1>7 DEF StopEnter, Typed, JobShape, TokenShape, runs
  <2>9. TypeOK' BY <1>7, <2>1 DEF StopEnter, Typed, TypeOK, disk, runs
  <2> QED BY <2>1, <2>7, <2>9 DEF Typed
<1>8. ASSUME NEW c \in Cells, ProposeWrite(p, c) PROVE Typed'
  <2>1. op' \in [Procs -> OpRecords] /\ OpShape'
    BY <1>8, IdleTyped, OpMoves DEF ProposeWrite
  <2>2. notebook' \in [Experiments -> Contents]
    <3>1. op[p].bytes \in Contents BY <1>1 DEF OpRecords
    <3>2. ((IF op[p].bytes = Missing THEN {} ELSE op[p].bytes) \cup {c}) \in Contents
      BY <1>8, <3>1 DEF Contents
    <3> QED BY <1>8, <3>2 DEF ProposeWrite, Typed, TypeOK
  <2>7. JobShape' /\ TokenShape'
    BY <1>8 DEF ProposeWrite, Typed, JobShape, TokenShape, runs
  <2>9. TypeOK' BY <1>8, <2>1, <2>2 DEF ProposeWrite, Typed, TypeOK, disk, runs
  <2> QED BY <2>1, <2>7, <2>9 DEF Typed
<1>9. ASSUME StartLoad(p) PROVE Typed'
  <2>1. op' \in [Procs -> OpRecords] /\ OpShape'
    <3>0. op[p].exp \in Experiments BY <1>2, <1>9 DEF StartLoad
    <3>1. CASE op' = [op EXCEPT ![p] = [op[p] EXCEPT !.pc = "creating"]]
      BY <1>1, <3>0, <3>1, OpAtPc, OpMoves
    <3>2. CASE op' = [op EXCEPT ![p] = [op[p] EXCEPT !.pc = "launching"]]
      BY <1>1, <3>0, <3>2, OpAtPc, OpMoves
    <3> QED BY <1>9, <3>1, <3>2 DEF StartLoad
  <2>7. JobShape' /\ TokenShape'
    BY <1>9 DEF StartLoad, Typed, JobShape, TokenShape, runs
  <2>9. TypeOK' BY <1>9, <2>1 DEF StartLoad, Typed, TypeOK, disk, runs
  <2> QED BY <2>1, <2>7, <2>9 DEF Typed
<1>10. ASSUME CreateNotebook(p) PROVE Typed'
  <2>0. op' = [op EXCEPT ![p] = [op[p] EXCEPT !.pc = "launching"]] /\ op[p].pc # "idle"
    BY <1>10 DEF CreateNotebook
  <2>1. op' \in [Procs -> OpRecords] /\ OpShape'
    BY <1>1, <1>2, <1>3, <2>0, OpAtPc, OpMoves DEF CreateNotebook
  <2>7. JobShape' /\ TokenShape'
    BY <1>10 DEF CreateNotebook, Typed, JobShape, TokenShape, runs
  <2>9. TypeOK' BY <1>10, <2>1, EmptyContents DEF CreateNotebook, Typed, TypeOK, disk, runs
  <2> QED BY <2>1, <2>7, <2>9 DEF Typed
<1>11. ASSUME NEW s \in Servers, StartContainer(p, s) PROVE Typed'
  <2> DEFINE x == [op[p] EXCEPT !.pc = "probing", !.srv = s]
  <2>0. x \in OpRecords /\ x.pc = "probing" /\ x.exp = op[p].exp /\ x.srv = s
    BY <1>1 DEF OpRecords
  <2>1. op' = [op EXCEPT ![p] = x] /\ op[p].pc = "launching"
    BY <1>11 DEF StartContainer
  <2> HIDE DEF x
  <2>2. op' \in [Procs -> OpRecords] /\ OpShape'
    BY <1>2, <2>0, <2>1, OpMoves
  <2>3. server' \in [Servers -> ServerRecords]
    BY <1>11, <1>2 DEF StartContainer, Typed, TypeOK, ServerRecords, ServerStates
  <2>4. JobShape' /\ TokenShape'
    BY <1>11 DEF StartContainer, Typed, JobShape, TokenShape, runs
  <2>5. TypeOK' BY <1>11, <2>2, <2>3 DEF StartContainer, Typed, TypeOK, disk, runs
  <2> QED BY <2>2, <2>3, <2>4, <2>5 DEF Typed
<1>12. ASSUME StartFails(p) PROVE Typed'
  <2>1. op' \in [Procs -> OpRecords] /\ OpShape'
    BY <1>12, IdleTyped, OpMoves DEF StartFails
  <2>7. JobShape' /\ TokenShape'
    BY <1>12 DEF StartFails, Typed, JobShape, TokenShape, runs
  <2>9. TypeOK' BY <1>12, <2>1 DEF StartFails, Typed, TypeOK, disk, runs
  <2> QED BY <2>1, <2>7, <2>9 DEF Typed
<1>13. ASSUME ProbeFails(p) PROVE Typed'
  <2>1. op' \in [Procs -> OpRecords] /\ OpShape'
    BY <1>13, IdleTyped, OpMoves DEF ProbeFails
  <2>2. server' \in [Servers -> ServerRecords]
    BY <1>13 DEF ProbeFails, Typed, TypeOK, ServerRecords, ServerStates
  <2>7. JobShape' /\ TokenShape'
    BY <1>13 DEF ProbeFails, Typed, JobShape, TokenShape, runs
  <2>9. TypeOK' BY <1>13, <2>1, <2>2 DEF ProbeFails, Typed, TypeOK, disk, runs
  <2> QED BY <2>1, <2>7, <2>9 DEF Typed
<1>14. ASSUME StopRemove(p) PROVE Typed'
  <2>1. op' \in [Procs -> OpRecords] /\ OpShape'
    BY <1>14, IdleTyped, OpMoves DEF StopRemove
  <2>2. server' \in [Servers -> ServerRecords]
    BY <1>14 DEF StopRemove, Typed, TypeOK, ServerRecords, ServerStates
  <2>7. JobShape' /\ TokenShape'
    BY <1>14 DEF StopRemove, Typed, JobShape, TokenShape, runs
  <2>9. TypeOK' BY <1>14, <2>1, <2>2 DEF StopRemove, Typed, TypeOK, disk, runs
  <2> QED BY <2>1, <2>7, <2>9 DEF Typed
<1>15. ASSUME RemoveFails(p) PROVE Typed'
  <2>1. op' \in [Procs -> OpRecords] /\ OpShape'
    BY <1>15, IdleTyped, OpMoves DEF RemoveFails
  <2>2. server' \in [Servers -> ServerRecords]
    BY <1>15 DEF RemoveFails, Typed, TypeOK, ServerRecords, ServerStates
  <2>7. JobShape' /\ TokenShape'
    BY <1>15 DEF RemoveFails, Typed, JobShape, TokenShape, runs
  <2>9. TypeOK' BY <1>15, <2>1, <2>2 DEF RemoveFails, Typed, TypeOK, disk, runs
  <2> QED BY <2>1, <2>7, <2>9 DEF Typed
<1>16. ASSUME SaveFails(p) PROVE Typed'
  <2>1. op' \in [Procs -> OpRecords] /\ OpShape'
    BY <1>16, IdleTyped, OpMoves DEF SaveFails
  <2>7. JobShape' /\ TokenShape'
    BY <1>16 DEF SaveFails, Typed, JobShape, TokenShape, runs
  <2>9. TypeOK' BY <1>16, <2>1 DEF SaveFails, Typed, TypeOK, disk, runs
  <2> QED BY <2>1, <2>7, <2>9 DEF Typed
<1>17. ASSUME StartRegister(p) PROVE Typed'
  <2> DEFINE s == op[p].srv
  <2> DEFINE x == OpAt("armed", op[p].exp, None, Missing)
  <2>0. s \in Servers /\ s \in Procs /\ op[p].exp \in Experiments
    BY <1>17, <1>2, <1>3 DEF StartRegister, Procs
  <2>1. x \in OpRecords /\ x.pc = "armed" /\ x.exp \in Experiments
    <3> HIDE DEF s
    <3>1. PICK e \in Experiments : e = op[p].exp BY <2>0
    <3>2. /\ OpAt("armed", e, None, Missing) \in OpRecords
          /\ OpAt("armed", e, None, Missing).pc = "armed"
          /\ OpAt("armed", e, None, Missing).exp = e
      BY EmptyContents, OpAtTyped
    <3> QED BY <3>1, <3>2
  <2>2. op' = [op EXCEPT ![p] = IdleOp, ![s] = x] BY <1>17 DEF StartRegister
  <2> HIDE DEF s, x
  <2>3. op' \in [Procs -> OpRecords] BY <2>0, <2>1, <2>2, IdleTyped DEF Typed, TypeOK
  <2>4. OpShape' BY <2>0, <2>1, <2>2, IdleTyped DEF Typed, TypeOK, OpShape
  <2>5. live' \in [Experiments -> Servers \cup {None}]
    BY <1>17, <2>0 DEF StartRegister, Typed, TypeOK, s
  <2>6. JobShape' /\ TokenShape'
    BY <1>17 DEF StartRegister, Typed, JobShape, TokenShape, runs
  <2>7. TypeOK' BY <1>17, <2>3, <2>5 DEF StartRegister, Typed, TypeOK, disk, runs
  <2> QED BY <2>3, <2>4, <2>6, <2>7 DEF Typed
<1>18. ASSUME SaveRead(p) PROVE Typed'
  <2> DEFINE x == [op[p] EXCEPT !.pc = "writing", !.bytes = notebook[op[p].exp]]
  <2>0. op[p].pc = "saving" /\ op' = [op EXCEPT ![p] = x]
    BY <1>18 DEF SaveRead
  <2>1. notebook[op[p].exp] \in Contents BY <1>2, <2>0 DEF Typed, TypeOK
  <2>2. x \in OpRecords /\ x.pc = "writing" /\ x.exp = op[p].exp /\ x.srv = op[p].srv
    BY <1>1, <2>1 DEF OpRecords
  <2> HIDE DEF x
  <2>3. op' \in [Procs -> OpRecords] /\ OpShape'
    BY <1>2, <1>3, <2>0, <2>2, OpMoves
  <2>4. JobShape' /\ TokenShape'
    BY <1>18 DEF SaveRead, Typed, JobShape, TokenShape, runs
  <2>5. TypeOK' BY <1>18, <2>3 DEF SaveRead, Typed, TypeOK, disk, runs
  <2> QED BY <2>3, <2>4, <2>5 DEF Typed
<1>19. ASSUME StopPop(p) PROVE Typed'
  <2> DEFINE x == [op[p] EXCEPT !.pc = "removing"]
  <2>1. /\ x \in OpRecords /\ x.pc = "removing"
        /\ x.exp \in Experiments /\ x.srv \in Servers
    BY <1>19, <1>1, <1>2, <1>3, OpAtPc DEF StopPop
  <2>2. op' = [q \in Procs |-> CASE q = p -> x
                                 [] q = op[p].srv /\ q # p -> IdleOp
                                 [] OTHER -> op[q]]
    BY <1>19 DEF StopPop
  <2> HIDE DEF x
  <2>3. op' \in [Procs -> OpRecords] BY <2>1, <2>2, IdleTyped DEF Typed, TypeOK
  <2>4. OpShape' BY <2>1, <2>2, IdleTyped DEF Typed, TypeOK, OpShape
  <2>5. op[p].bytes \in Contents BY <1>1 DEF OpRecords
  <2>6. JobShape' /\ TokenShape'
    BY <1>19 DEF StopPop, Typed, JobShape, TokenShape, runs
  <2>7. TypeOK' BY <1>19, <2>3, <2>5 DEF StopPop, Typed, TypeOK, runs
  <2> QED BY <2>3, <2>4, <2>6, <2>7 DEF Typed
<1>20. ASSUME p \in Servers, WakeCeiling(p) PROVE Typed'
  <2>1. op' \in [Procs -> OpRecords] /\ OpShape'
    <3>1. CASE op' = [op EXCEPT ![p] = IdleOp]
      BY <3>1, IdleTyped, OpMoves
    <3>2. CASE op' = [op EXCEPT ![p] = [op[p] EXCEPT !.pc = "woken"]]
      <4>1. op[p].exp \in Experiments BY <1>2, <1>20 DEF WakeCeiling
      <4> QED BY <1>1, <3>2, <4>1, OpAtPc, OpMoves
    <3> QED BY <1>20, <3>1, <3>2 DEF WakeCeiling
  <2>2. JobShape' /\ TokenShape'
    BY <1>20 DEF WakeCeiling, Typed, JobShape, TokenShape, runs
  <2>3. TypeOK' BY <1>20, <2>1 DEF WakeCeiling, Typed, TypeOK, disk, runs
  <2> QED BY <2>1, <2>2, <2>3 DEF Typed
<1> QED
  BY <1>5, <1>6, <1>7, <1>8, <1>9, <1>10, <1>11, <1>12, <1>13, <1>14, <1>15, <1>16, <1>17, <1>18, <1>19, <1>20 DEF ServeStep

LEMMA TypedWorld ==
    ASSUME Typed
    PROVE  /\ \A s \in Servers, c \in Cells : LiveEdit(s, c) => Typed'
           /\ \A s \in Servers : SweepOne(s) => Typed'
           /\ ProcessExits \/ Boot => Typed'
<1>1. ASSUME NEW s \in Servers, NEW c \in Cells, LiveEdit(s, c) PROVE Typed'
  <2>1. server[s].exp \in Experiments
        => (notebook[server[s].exp] \cup {c}) \in Contents
    BY <1>1 DEF LiveEdit, Typed, TypeOK, Contents
  <2>2. notebook' \in [Experiments -> Contents]
    BY <1>1, <2>1 DEF LiveEdit, Typed, TypeOK
  <2>3. TypeOK' BY <1>1, <2>2 DEF LiveEdit, Typed, TypeOK, runs, serving
  <2> QED
    BY <1>1, <2>3 DEF LiveEdit, Typed, JobShape, TokenShape, OpShape, runs, serving
<1>2. ASSUME NEW s \in Servers, SweepOne(s) PROVE Typed'
  <2>1. server' \in [Servers -> ServerRecords]
    BY <1>2 DEF SweepOne, Alive, Typed, TypeOK, ServerRecords, ServerStates
  <2>2. TypeOK' BY <1>2, <2>1 DEF SweepOne, Typed, TypeOK, disk, runs
  <2> QED
    BY <1>2, <2>1, <2>2 DEF SweepOne, Typed, JobShape, TokenShape, OpShape, runs
<1>3. ASSUME ProcessExits PROVE Typed'
  <2>1. tokens' \in [Tokens -> TokenRecords] /\ TokenShape'
    <3>1. \A t \in Tokens : [tokens[t] EXCEPT !.st = "void"] \in TokenRecords
      BY DEF Typed, TypeOK, TokenRecords, TokenStates
    <3> QED BY <1>3, <3>1 DEF ProcessExits, Typed, TypeOK, TokenShape, TokenRecords
  <2>2. \A r \in Runs : /\ [job[r] EXCEPT !.pc = "lost"] \in JobRecords
                        /\ [job[r] EXCEPT !.pc = "lost"].pc = "lost"
                        /\ [job[r] EXCEPT !.pc = "lost"].exp = job[r].exp
                        /\ [job[r] EXCEPT !.pc = "lost"].tok = job[r].tok
    BY JobAtPc DEF Typed, TypeOK, JobStates
  <2>3. job' \in [Runs -> JobRecords] BY <1>3, <2>2 DEF ProcessExits, Typed, TypeOK
  <2>4. JobShape' BY <1>3, <2>2 DEF ProcessExits, Typed, TypeOK, JobShape, Unlaunched
  <2>5. op' \in [Procs -> OpRecords] /\ OpShape'
    BY <1>3, IdleTyped DEF ProcessExits, OpShape
  <2>7. TypeOK' BY <1>3, <2>1, <2>3, <2>5 DEF ProcessExits, Typed, TypeOK, disk
  <2> QED BY <2>1, <2>4, <2>5, <2>7 DEF Typed
<1>4. ASSUME Boot PROVE Typed'
  BY <1>4 DEF Boot, Typed, TypeOK, JobShape, TokenShape, OpShape,
              disk, runs, serving
<1> QED BY <1>1, <1>2, <1>3, <1>4

LEMMA TypedStep == Typed /\ [Next]_vars => Typed'
<1> SUFFICES ASSUME Typed, [Next]_vars PROVE Typed' OBVIOUS
<1>1. CASE UNCHANGED vars
  BY <1>1 DEF vars, Typed, TypeOK, JobShape, TokenShape, OpShape
<1>2. CASE Next
  <2>1. \A p \in Ops \cup Servers : p \in Procs BY DEF Procs
  <2> QED
    BY <1>2, <2>1, TypedGate, TypedPost, TypedRun, TypedKernel, TypedServe, TypedWorld
       DEF Next, CeilingStep
<1> QED BY <1>1, <1>2

\* Every variable keeps its type.
THEOREM TypeCorrect == Spec => []TypeOK
<1>1. Init => Typed BY TypedInit
<1>2. Typed /\ [Next]_vars => Typed' BY TypedStep
<1>3. Typed => TypeOK BY DEF Typed
<1> QED BY <1>1, <1>2, <1>3, PTL DEF Spec

-----------------------------------------------------------------------------
(* The consent gate.                                                        *)

\* The container was created; and before that, the token check was passed.
Launched(r) == job[r].pc \in {"created", "announcing", "streaming", "reaping"}
                 \/ box[r] # "none"
Held(r) == job[r].pc = "launching" \/ Launched(r)

\* The token of a held run is spent and matches it ...
HeldToken ==
    \A r \in Runs : Held(r) =>
        /\ tokens[job[r].tok].st \in {"used", "void"}
        /\ tokens[job[r].tok].exp = job[r].exp
        /\ tokens[job[r].tok].net = job[r].net

\* ... no other held run has it ...
HeldOnce ==
    \A r1, r2 \in Runs : r1 # r2 /\ Held(r1) /\ Held(r2) => job[r1].tok # job[r2].tok

\* ... and the container's network is no wider than the spec.
HeldNetwork == \A r \in Runs : Launched(r) => (job[r].wired => job[r].net)

Consented == HeldToken /\ HeldOnce /\ HeldNetwork

LEMMA ConsentedInit == Init => Consented
BY DEF Init, Consented, HeldToken, HeldOnce, HeldNetwork, Held, Launched, BlankJob

\* What all steps but two do: a spent token stays so, and a run is held only
\* if it was before, by the same token and for the same spec.
TokensStay ==
    \A t \in Tokens : tokens[t].st \in {"used", "void"} =>
        /\ tokens'[t].st \in {"used", "void"}
        /\ tokens'[t].exp = tokens[t].exp
        /\ tokens'[t].net = tokens[t].net

SameRequest(r) == job'[r].exp = job[r].exp /\ job'[r].tok = job[r].tok
                    /\ job'[r].net = job[r].net

HeldStay == \A r \in Runs : Held(r)' => Held(r) /\ SameRequest(r)

NetworkStays ==
    \A r \in Runs : Launched(r)' => Launched(r) /\ job'[r].wired = job[r].wired

LEMMA ConsentedStays ==
    ASSUME Typed, Consented, TokensStay, HeldStay
    PROVE  HeldToken' /\ HeldOnce' /\ (NetworkStays => HeldNetwork')
<1>1. \A r \in Runs : Held(r) => job[r].tok \in Tokens
  BY DEF Typed, JobShape, Held, Launched
<1>2. HeldToken' BY <1>1 DEF Consented, HeldToken, TokensStay, HeldStay, SameRequest
<1>3. HeldOnce' BY DEF Consented, HeldOnce, HeldStay, SameRequest
<1>4. NetworkStays => HeldNetwork'
  BY DEF Consented, HeldNetwork, NetworkStays, HeldStay, SameRequest, Held, Launched
<1> QED BY <1>2, <1>3, <1>4

\* The steps of one run.
LEMMA ConsentedRun ==
    ASSUME Typed, Consented, NEW r \in Runs,
           RunStep(r) \/ RunFails(r) \/ RunnerExits(r)
    PROVE  Consented'
<1>1. job \in [Runs -> JobRecords] /\ box \in [Runs -> BoxStates]
  BY DEF Typed, TypeOK
<1>2. job[r].pc \in Unlaunched => box[r] = "none" BY DEF Typed, JobShape
<1>3. CASE RunCheck(r)
  <2>1. TokensStay /\ HeldStay /\ NetworkStays
    BY <1>1, <1>2, <1>3 DEF RunCheck, InPc, Held, Launched, TokensStay, HeldStay, NetworkStays,
       SameRequest, BlankJob, Unlaunched, JobRecords, runs
  <2> QED BY <2>1, ConsentedStays DEF Consented
<1>4. CASE LoadRunSpec(r)
  <2>1. TokensStay /\ HeldStay /\ NetworkStays
    BY <1>1, <1>2, <1>4 DEF LoadRunSpec, InPc, Held, Launched, TokensStay, HeldStay, NetworkStays,
       SameRequest, Unlaunched, JobRecords
  <2> QED BY <2>1, ConsentedStays DEF Consented
<1>5. CASE ConsumeToken(r)
  <2>1. CASE TokenAccepted(r) /\ notebook[job[r].exp] # Missing
    <3> DEFINE t == job[r].tok
    <3>1. /\ job[r].pc = "consuming" /\ box[r] = "none" /\ box' = box
          /\ t \in Tokens /\ tokens[t].st = "valid"
          /\ tokens[t].exp = job[r].exp /\ tokens[t].net = job[r].net
      BY <1>2, <1>5, <2>1 DEF ConsumeToken, InPc, TokenAccepted, Unlaunched, Typed, JobShape
    <3>2. tokens' = [tokens EXCEPT ![t].st = "used"]
      BY <1>5, <2>1 DEF ConsumeToken
    <3>3. tokens'[t].st = "used" /\ tokens'[t].exp = tokens[t].exp
            /\ tokens'[t].net = tokens[t].net
      BY <3>1, <3>2 DEF Typed, TypeOK, TokenRecords
    <3>4. TokensStay BY <3>1, <3>2, <3>3 DEF TokensStay
    <3>5. /\ SameRequest(r) /\ job'[r].pc = "launching"
          /\ \A q \in Runs \ {r} : job'[q] = job[q]
      <4>1. job' = [job EXCEPT ![r] = [job[r] EXCEPT !.pc = "launching",
                                                     !.hash = notebook[job[r].exp]]]
        BY <1>5, <2>1 DEF ConsumeToken
      <4> QED BY <1>1, <4>1 DEF SameRequest, JobRecords
    <3>6. \A q \in Runs \ {r} : Held(q)' => Held(q) /\ job'[q] = job[q]
      BY <3>1, <3>5 DEF Held, Launched
    <3>7. \A q \in Runs : Held(q) => job[q].tok \in Tokens /\ job[q].tok # t
      BY <3>1 DEF Consented, HeldToken, Held, Launched, Typed, JobShape
    <3>8. HeldToken'
      BY <3>1, <3>3, <3>4, <3>5, <3>6, <3>7 DEF HeldToken, Consented, TokensStay, SameRequest
    <3>9. HeldOnce'
      BY <3>5, <3>6, <3>7 DEF HeldOnce, Consented, SameRequest
    <3>10. HeldNetwork'
      BY <3>1, <3>5 DEF HeldNetwork, Launched, Consented
    <3> QED BY <3>8, <3>9, <3>10 DEF Consented
  <2>2. CASE ~ (TokenAccepted(r) /\ notebook[job[r].exp] # Missing)
    <3>1. /\ job' = [job EXCEPT ![r] = BlankJob("rejected")]
          /\ job[r].pc = "consuming" /\ box' = box /\ box[r] = "none"
      BY <1>2, <1>5, <2>2 DEF ConsumeToken, InPc, Unlaunched
    <3>2. \/ tokens' = tokens
          \/ /\ tokens[job[r].tok].st = "valid"
             /\ tokens' = [tokens EXCEPT ![job[r].tok].st = "used"]
      BY <1>5, <2>2 DEF ConsumeToken, TokenAccepted
    <3>3. TokensStay BY <3>2 DEF TokensStay, Typed, TypeOK
    <3>4. HeldStay /\ NetworkStays
      BY <1>1, <3>1 DEF HeldStay, NetworkStays, Held, Launched, SameRequest, BlankJob
    <3> QED BY <3>3, <3>4, ConsentedStays DEF Consented
  <2> QED BY <2>1, <2>2
<1>6. CASE LaunchContainer(r)
  <2>1. /\ job[r].pc = "launching" /\ tokens' = tokens
        /\ SameRequest(r) /\ job'[r].wired = NetworkEnabled(r)
        /\ \A q \in Runs \ {r} : job'[q] = job[q] /\ box'[q] = box[q]
    BY <1>1, <1>6 DEF LaunchContainer, InPc, SameRequest, JobRecords
  <2>2. TokensStay /\ HeldStay
    BY <2>1 DEF TokensStay, HeldStay, Held, Launched, SameRequest
  <2>3. HeldNetwork'
    BY <2>1 DEF HeldNetwork, Launched, Consented, NetworkEnabled, SameRequest
  <2> QED BY <2>2, <2>3, ConsentedStays DEF Consented
<1>7. CASE RegisterRun(r)
  <2>1. TokensStay /\ HeldStay /\ NetworkStays
    BY <1>1, <1>7 DEF RegisterRun, InPc, Held, Launched, TokensStay, HeldStay, NetworkStays,
       SameRequest, JobRecords
  <2> QED BY <2>1, ConsentedStays DEF Consented
<1>8. CASE AnnounceRunning(r)
  <2>1. TokensStay /\ HeldStay /\ NetworkStays
    BY <1>1, <1>8 DEF AnnounceRunning, InPc, Held, Launched, TokensStay, HeldStay, NetworkStays,
       SameRequest, JobRecords
  <2> QED BY <2>1, ConsentedStays DEF Consented
<1>9. CASE StreamEnds(r)
  <2>1. TokensStay /\ HeldStay /\ NetworkStays
    BY <1>1, <1>9 DEF StreamEnds, InPc, Held, Launched, TokensStay, HeldStay, NetworkStays,
       SameRequest, JobRecords
  <2> QED BY <2>1, ConsentedStays DEF Consented
<1>10. CASE StreamTimesOut(r)
  <2>1. TokensStay /\ HeldStay /\ NetworkStays
    BY <1>1, <1>10 DEF StreamTimesOut, InPc, Held, Launched, TokensStay, HeldStay, NetworkStays,
       SameRequest, JobRecords
  <2> QED BY <2>1, ConsentedStays DEF Consented
<1>11. CASE ReapContainer(r)
  <2>1. TokensStay /\ HeldStay /\ NetworkStays
    BY <1>1, <1>11 DEF ReapContainer, InPc, Held, Launched, TokensStay, HeldStay, NetworkStays,
       SameRequest, JobRecords
  <2> QED BY <2>1, ConsentedStays DEF Consented
<1>12. CASE PopRun(r)
  <2>1. TokensStay /\ HeldStay /\ NetworkStays
    BY <1>1, <1>12 DEF PopRun, InPc, Held, Launched, TokensStay, HeldStay, NetworkStays,
       SameRequest, JobRecords
  <2> QED BY <2>1, ConsentedStays DEF Consented
<1>13. CASE WriteRunFiles(r)
  <2>1. TokensStay /\ HeldStay /\ NetworkStays
    BY <1>1, <1>13 DEF WriteRunFiles, InPc, Held, Launched, TokensStay, HeldStay, NetworkStays,
       SameRequest, JobRecords
  <2> QED BY <2>1, ConsentedStays DEF Consented
<1>14. CASE CommitRun(r)
  <2>1. TokensStay /\ HeldStay /\ NetworkStays
    BY <1>1, <1>14 DEF CommitRun, InPc, Held, Launched, TokensStay, HeldStay, NetworkStays,
       SameRequest, JobRecords
  <2> QED BY <2>1, ConsentedStays DEF Consented
<1>15. CASE LaunchFails(r)
  <2>1. TokensStay /\ HeldStay /\ NetworkStays
    BY <1>1, <1>2, <1>15 DEF LaunchFails, Unlaunched, InPc, Held, Launched, TokensStay, HeldStay, NetworkStays,
       SameRequest, JobRecords, BlankJob
  <2> QED BY <2>1, ConsentedStays DEF Consented
<1>16. CASE BroadcastRaises(r)
  <2>1. TokensStay /\ HeldStay /\ NetworkStays
    BY <1>1, <1>16 DEF BroadcastRaises, InPc, Held, Launched, TokensStay, HeldStay, NetworkStays,
       SameRequest, JobRecords
  <2> QED BY <2>1, ConsentedStays DEF Consented
<1>17. CASE ReapFails(r)
  <2>1. TokensStay /\ HeldStay /\ NetworkStays
    BY <1>1, <1>17 DEF ReapFails, InPc, Held, Launched, TokensStay, HeldStay, NetworkStays,
       SameRequest, JobRecords
  <2> QED BY <2>1, ConsentedStays DEF Consented
<1>18. CASE RunnerExits(r)
  <2>1. TokensStay /\ HeldStay /\ NetworkStays
    BY <1>1, <1>18 DEF RunnerExits, Held, Launched, TokensStay, HeldStay, NetworkStays, SameRequest
  <2> QED BY <2>1, ConsentedStays DEF Consented
<1>19. CASE WaitFails(r)
  <2>1. TokensStay /\ HeldStay /\ NetworkStays
    BY <1>1, <1>19 DEF WaitFails, InPc, Held, Launched, TokensStay, HeldStay, NetworkStays,
       SameRequest, JobRecords
  <2> QED BY <2>1, ConsentedStays DEF Consented
<1>20. CASE WriteFails(r)
  <2>1. TokensStay /\ HeldStay /\ NetworkStays
    BY <1>1, <1>20 DEF WriteFails, InPc, Held, Launched, TokensStay, HeldStay, NetworkStays,
       SameRequest, JobRecords
  <2> QED BY <2>1, ConsentedStays DEF Consented
<1> QED
  BY <1>3, <1>4, <1>5, <1>6, <1>7, <1>8, <1>9, <1>10, <1>11, <1>12, <1>13, <1>14, <1>15,
     <1>16, <1>17, <1>18, <1>19, <1>20
  DEF RunStep, RunFails

\* The steps that make tokens, ask for a run, or stop one.
LEMMA ConsentedGate ==
    ASSUME Typed, Consented
    PROVE  /\ \A t \in Tokens, e \in Experiments : Preview(t, e) => Consented'
           /\ \A t \in Tokens : MintConfirmation(t) \/ ExpireToken(t) => Consented'
           /\ \A r \in Runs, e \in Experiments, t \in Tokens, f \in BOOLEAN :
                PostRunAll(r, e, t, f) => Consented'
           /\ \A e \in Experiments : StopKernel(e) => Consented'
           /\ ProcessExits => Consented'
<1>1. tokens \in [Tokens -> TokenRecords] /\ job \in [Runs -> JobRecords]
        /\ box \in [Runs -> BoxStates] /\ running \in [Experiments -> Runs \cup {None}]
  BY DEF Typed, TypeOK
<1>2. ASSUME NEW t \in Tokens, NEW e \in Experiments, Preview(t, e) PROVE Consented'
  <2>1. TokensStay /\ HeldStay /\ NetworkStays
    BY <1>1, <1>2 DEF Preview, Held, Launched, TokensStay, HeldStay, NetworkStays, SameRequest, runs
  <2> QED BY <2>1, ConsentedStays DEF Consented
<1>3. ASSUME NEW t \in Tokens, MintConfirmation(t) PROVE Consented'
  <2>1. TokensStay /\ HeldStay /\ NetworkStays
    BY <1>1, <1>3 DEF MintConfirmation, Held, Launched, TokensStay, HeldStay, NetworkStays,
       SameRequest, runs
  <2> QED BY <2>1, ConsentedStays DEF Consented
<1>4. ASSUME NEW t \in Tokens, ExpireToken(t) PROVE Consented'
  <2>1. TokensStay /\ HeldStay /\ NetworkStays
    BY <1>1, <1>4 DEF ExpireToken, Held, Launched, TokensStay, HeldStay, NetworkStays,
       SameRequest, runs
  <2> QED BY <2>1, ConsentedStays DEF Consented
<1>5. ASSUME NEW r \in Runs, NEW e \in Experiments, NEW t \in Tokens, NEW f \in BOOLEAN,
             PostRunAll(r, e, t, f)
      PROVE  Consented'
  <2>1. job[r].pc = "absent" /\ box[r] = "none" /\ box' = box /\ tokens' = tokens
    BY <1>5 DEF PostRunAll, InPc, Typed, JobShape, Unlaunched
  <2>2. job'[r].pc = "queued" /\ \A q \in Runs \ {r} : job'[q] = job[q]
    BY <1>1, <1>5 DEF PostRunAll, JobRecords
  <2>3. TokensStay /\ HeldStay /\ NetworkStays
    BY <2>1, <2>2 DEF Held, Launched, TokensStay, HeldStay, NetworkStays, SameRequest
  <2> QED BY <2>3, ConsentedStays DEF Consented
<1>6. ASSUME NEW e \in Experiments, StopKernel(e) PROVE Consented'
  <2>1. TokensStay /\ HeldStay /\ NetworkStays
    BY <1>1, <1>6 DEF StopKernel, Held, Launched, TokensStay, HeldStay, NetworkStays, SameRequest
  <2> QED BY <2>1, ConsentedStays DEF Consented
<1>7. ASSUME ProcessExits PROVE Consented'
  <2>1. TokensStay
    BY <1>1, <1>7 DEF ProcessExits, TokensStay, TokenRecords
  <2>2. \A r \in Runs : \/ job'[r] = job[r]
                        \/ job'[r] = [job[r] EXCEPT !.pc = "lost"]
    BY <1>7 DEF ProcessExits
  <2>3. HeldStay /\ NetworkStays
    BY <1>1, <1>7, <2>2 DEF ProcessExits, Held, Launched, HeldStay, NetworkStays, SameRequest, JobRecords
  <2> QED BY <2>1, <2>3, ConsentedStays DEF Consented
<1> QED BY <1>2, <1>3, <1>4, <1>5, <1>6, <1>7

\* Everything else leaves tokens, jobs and containers alone.
LEMMA ConsentedFrame ==
    ASSUME Consented, UNCHANGED <<tokens, job, box>>
    PROVE  Consented'
BY DEF Consented, HeldToken, HeldOnce, HeldNetwork, Held, Launched

LEMMA ServeKeepsRuns ==
    ASSUME NEW p \in Procs, ServeStep(p) \/ ProbeFails(p) \/ SaveFails(p) \/ RemoveFails(p)
    PROVE  UNCHANGED <<tokens, job, box>>
BY DEF ServeStep, StartLoad, CreateNotebook, StartRegister, SaveRead, StopPop, StopRemove,
       StartFails, StartContainer, ProbeFails, SaveFails, RemoveFails, runs

LEMMA ConsentedStep == Typed /\ Consented /\ [Next]_vars => Consented'
<1> SUFFICES ASSUME Typed, Consented, [Next]_vars PROVE Consented' OBVIOUS
<1>1. CASE UNCHANGED vars BY <1>1, ConsentedFrame DEF vars
<1>2. CASE Next
  <2>1. ASSUME NEW e \in Experiments, UpdateExperiment(e) PROVE Consented'
    BY <2>1, ConsentedFrame DEF UpdateExperiment, runs
  <2>2. ASSUME NEW e \in Experiments, NEW o \in Ops, ProposeRead(o, e) \/ StartEnter(o, e)
        PROVE  Consented'
    BY <2>2, ConsentedFrame DEF ProposeRead, StartEnter, runs
  <2>3. ASSUME NEW e \in Experiments, NEW p \in Procs, StopEnter(p, e) PROVE Consented'
    BY <2>3, ConsentedFrame DEF StopEnter, runs
  <2>4. ASSUME NEW o \in Ops, NEW c \in Cells, ProposeWrite(o, c) PROVE Consented'
    BY <2>4, ConsentedFrame DEF ProposeWrite, runs
  <2>5. ASSUME NEW s \in Servers, NEW c \in Cells, LiveEdit(s, c) PROVE Consented'
    BY <2>5, ConsentedFrame DEF LiveEdit, runs
  <2>6. ASSUME NEW s \in Servers, WakeCeiling(s) \/ SweepOne(s) PROVE Consented'
    BY <2>6, ConsentedFrame DEF WakeCeiling, SweepOne, runs
  <2>7. ASSUME Boot PROVE Consented'
    BY <2>7, ConsentedFrame DEF Boot, runs
  <2>8. \A p \in Ops \cup Servers : p \in Procs BY DEF Procs
  <2> QED
    BY <1>2, <2>1, <2>2, <2>3, <2>4, <2>5, <2>6, <2>7, <2>8, ConsentedRun, ConsentedGate,
       ConsentedFrame, ServeKeepsRuns DEF Next, CeilingStep
<1> QED BY <1>1, <1>2

LEMMA ConsentInvariant == Spec => [](Typed /\ Consented)
<1>1. Init => Typed /\ Consented BY TypedInit, ConsentedInit
<1>2. Typed /\ Consented /\ [Next]_vars => (Typed /\ Consented)'
  BY TypedStep, ConsentedStep
<1> QED BY <1>1, <1>2, PTL DEF Spec

\* A token starts at most one container.
THEOREM TokensAreOneShot == Spec => []TokenOneShot
<1>1. Consented => TokenOneShot BY DEF Consented, HeldOnce, TokenOneShot, Held, Launched
<1> QED BY <1>1, ConsentInvariant, PTL

\* No container without a spent, matching token; no network beyond its spec.
THEOREM NothingRunsUnconfirmed == Spec => []ConsentGate
<1>1. Consented => ConsentGate
  BY DEF Consented, HeldToken, HeldNetwork, ConsentGate, Held, Launched
<1> QED BY <1>1, ConsentInvariant, PTL

-----------------------------------------------------------------------------
(* The registry of measured runs.                                          *)

\* Run q has put itself in _running_containers for e, or is beyond that point.
\* A run never takes this back, so the second run of an experiment spoils the
\* registry for the first one only once it is touched.
Untouched == {"absent", "queued", "loading", "consuming", "launching", "created", "rejected"}
Touched(q, e) == job[q].exp = e /\ job[q].pc \notin Untouched

Registered == {"announcing", "streaming", "reaping", "popping"}
Popped     == {"writing", "committing", "done"}

\* What an experiment's entry names has registered itself there ...
EntryHolds ==
    \A e \in Experiments : running[e] # None =>
        /\ job[running[e]].exp = e
        /\ job[running[e]].pc \in Registered \cup {"failed"}

\* ... a container is reaped after it exited and popped after its removal ...
BoxBehind ==
    \A r \in Runs :
        /\ job[r].pc = "reaping" => box[r] = "exited"
        /\ job[r].pc \in {"popping"} \cup Popped => box[r] = "removed"

\* ... and the entry of a run no other run interfered with is its own from the
\* registration to the pop, and empty after it.
EntryOwn(r) ==
    (\A q \in Runs \ {r} : ~ Touched(q, job[r].exp)) =>
        /\ job[r].pc \in Registered => running[job[r].exp] = r
        /\ job[r].pc = "failed" /\ box[r] = "running" => running[job[r].exp] = r
        /\ job[r].pc \in Popped => running[job[r].exp] = None

Registry == EntryHolds /\ BoxBehind /\ \A r \in Runs : EntryOwn(r)

LEMMA RegistryInit == Init => Registry
BY DEF Init, Registry, EntryHolds, BoxBehind, EntryOwn, Registered, Popped, BlankJob

\* What all steps but the registration and the pop do to the one run they are
\* about: it is touched or not as before, an entry that names it still may, and
\* it reaches no state that promises more than the one it came from.
Steady(r) ==
    /\ running' = running
    /\ \A q \in Runs \ {r} : job'[q] = job[q] /\ box'[q] = box[q]
    /\ \A e \in Experiments : Touched(r, e)' <=> Touched(r, e)
    /\ \A e \in Experiments : running[e] = r =>
            job'[r].exp = job[r].exp /\ job'[r].pc \in Registered \cup {"failed"}
    /\ job'[r].pc \in Registered => job[r].pc \in Registered
    /\ job'[r].pc = "failed" /\ box'[r] = "running" =>
            job[r].pc \in Registered \/ (job[r].pc = "failed" /\ box[r] = "running")
    /\ job'[r].pc \in Popped => job[r].pc \in Popped
    /\ job'[r].pc # "failed" \/ box'[r] = "running" =>
            job[r].pc \in Untouched \/ job'[r].exp = job[r].exp
    /\ job'[r].pc = "reaping" => box'[r] = "exited"
    /\ job'[r].pc \in {"popping"} \cup Popped => box'[r] = "removed"

LEMMA RegistrySteady ==
    ASSUME Typed, Registry, NEW r \in Runs, Steady(r)
    PROVE  Registry'
<1>1. /\ job \in [Runs -> JobRecords] /\ running \in [Experiments -> Runs \cup {None}]
      /\ None \notin Runs /\ None \notin Experiments
  BY SandboxAssumption DEF Typed, TypeOK
<1>2. EntryHolds'
  BY <1>1 DEF Registry, EntryHolds, Steady
<1>3. BoxBehind' BY DEF Registry, BoxBehind, Steady
<1>4. ASSUME NEW q \in Runs, q # r PROVE EntryOwn(q)'
  <2>1. job'[q] = job[q] /\ box'[q] = box[q] BY <1>4 DEF Steady
  <2>2. CASE job[q].exp \in Experiments
    <3>1. (\A p \in Runs \ {q} : ~ Touched(p, job[q].exp))'
            => \A p \in Runs \ {q} : ~ Touched(p, job[q].exp)
      BY <2>1, <2>2 DEF Steady, Touched
    <3> QED BY <2>1, <3>1 DEF Registry, EntryOwn, Steady
  <2>3. CASE job[q].exp \notin Experiments
    <3>1. box[q] = "none" /\ job[q].pc \in {"absent", "rejected", "failed", "lost"}
      BY <2>3 DEF Typed, JobShape
    <3> QED BY <2>1, <3>1 DEF EntryOwn, Registered, Popped
  <2> QED BY <2>2, <2>3
<1>5. EntryOwn(r)'
  <2>1. CASE job'[r].exp = job[r].exp
    <3>1. (\A p \in Runs \ {r} : ~ Touched(p, job[r].exp))'
            => \A p \in Runs \ {r} : ~ Touched(p, job[r].exp)
      BY <2>1 DEF Steady, Touched
    <3> QED BY <2>1, <3>1 DEF Registry, EntryOwn, Steady
  <2>2. CASE job'[r].exp # job[r].exp
    <3>1. \/ job[r].pc \in Untouched
          \/ job'[r].pc = "failed" /\ box'[r] # "running"
      BY <2>2 DEF Steady
    <3>2. job[r].pc \in Untouched =>
            /\ job'[r].pc \notin Registered \cup Popped
            /\ ~ (job'[r].pc = "failed" /\ box'[r] = "running")
      BY DEF Steady, Untouched, Registered, Popped
    <3> QED BY <3>1, <3>2 DEF EntryOwn, Registered, Popped
  <2> QED BY <2>1, <2>2
<1> QED BY <1>2, <1>3, <1>4, <1>5 DEF Registry

\* A run that only moves its pc and its box, by the steps that leave
\* _running_containers alone.
LEMMA RunStaysSteady ==
    ASSUME Typed, Registry, NEW r \in Runs,
           \/ RunCheck(r) \/ LoadRunSpec(r) \/ ConsumeToken(r) \/ LaunchContainer(r)
           \/ AnnounceRunning(r) \/ StreamEnds(r) \/ StreamTimesOut(r)
           \/ ReapContainer(r) \/ WriteRunFiles(r) \/ CommitRun(r)
           \/ LaunchFails(r) \/ BroadcastRaises(r) \/ ReapFails(r) \/ WriteFails(r)
           \/ RunnerExits(r)
    PROVE  Steady(r)
<1> USE DEF Steady, Touched, Untouched, Registered, Popped, InPc
<1>1. /\ job \in [Runs -> JobRecords] /\ box \in [Runs -> BoxStates]
      /\ None \notin Experiments /\ None \notin Runs
  BY SandboxAssumption DEF Typed, TypeOK
<1>2. /\ job[r].pc \in Unlaunched => box[r] = "none"
      /\ job[r].pc = "reaping" => box[r] = "exited"
      /\ job[r].pc \in {"popping"} \cup Popped => box[r] = "removed"
  BY DEF Typed, JobShape, Registry, BoxBehind
<1>3. \A e \in Experiments : running[e] = r =>
        job[r].pc \in Registered \cup {"failed"}
  BY <1>1 DEF Registry, EntryHolds
<1>4. CASE RunCheck(r)
  BY <1>1, <1>2, <1>3, <1>4 DEF RunCheck, Unlaunched, JobRecords, BlankJob
<1>5. CASE LoadRunSpec(r)
  BY <1>1, <1>2, <1>3, <1>5 DEF LoadRunSpec, Unlaunched, JobRecords
<1>6. CASE ConsumeToken(r)
  <2>1. /\ job[r].pc = "consuming" /\ box[r] = "none"
        /\ box' = box /\ running' = running
    BY <1>2, <1>6 DEF ConsumeToken, Unlaunched
  <2>2. \/ job' = [job EXCEPT ![r] = BlankJob("rejected")]
        \/ job' = [job EXCEPT ![r] = [job[r] EXCEPT !.pc = "launching",
                                                    !.hash = notebook[job[r].exp]]]
    BY <1>6 DEF ConsumeToken
  <2>3. job'[r].pc \in {"rejected", "launching"} /\ \A q \in Runs \ {r} : job'[q] = job[q]
    <3>1. BlankJob("rejected").pc = "rejected" BY DEF BlankJob
    <3>2. [job[r] EXCEPT !.pc = "launching", !.hash = notebook[job[r].exp]].pc = "launching"
      BY <1>1 DEF JobRecords
    <3> QED BY <1>1, <2>2, <3>1, <3>2
  <2> QED BY <1>1, <1>3, <2>1, <2>3
<1>7. CASE LaunchContainer(r)
  BY <1>1, <1>2, <1>3, <1>7 DEF LaunchContainer, Unlaunched, JobRecords
<1>8. CASE AnnounceRunning(r)
  BY <1>1, <1>2, <1>3, <1>8 DEF AnnounceRunning, Unlaunched, JobRecords
<1>9. CASE StreamEnds(r)
  BY <1>1, <1>2, <1>3, <1>9 DEF StreamEnds, Unlaunched, JobRecords
<1>10. CASE StreamTimesOut(r)
  BY <1>1, <1>2, <1>3, <1>10 DEF StreamTimesOut, Unlaunched, JobRecords
<1>11. CASE ReapContainer(r)
  BY <1>1, <1>2, <1>3, <1>11 DEF ReapContainer, Unlaunched, JobRecords
<1>12. CASE WriteRunFiles(r)
  BY <1>1, <1>2, <1>3, <1>12 DEF WriteRunFiles, Unlaunched, JobRecords
<1>13. CASE CommitRun(r)
  BY <1>1, <1>2, <1>3, <1>13 DEF CommitRun, Unlaunched, JobRecords
<1>14. CASE LaunchFails(r)
  BY <1>1, <1>2, <1>3, <1>14 DEF LaunchFails, Unlaunched, JobRecords, BlankJob
<1>15. CASE BroadcastRaises(r)
  BY <1>1, <1>2, <1>3, <1>15 DEF BroadcastRaises, Unlaunched, JobRecords
<1>16. CASE ReapFails(r)
  BY <1>1, <1>2, <1>3, <1>16 DEF ReapFails, Unlaunched, JobRecords
<1>17. CASE WriteFails(r)
  BY <1>1, <1>2, <1>3, <1>17 DEF WriteFails, Unlaunched, JobRecords
<1>18. CASE RunnerExits(r)
  BY <1>1, <1>2, <1>3, <1>18 DEF RunnerExits, Unlaunched
<1> QED BY <1>4, <1>5, <1>6, <1>7, <1>8, <1>9, <1>10, <1>11, <1>12, <1>13, <1>14, <1>15, <1>16, <1>17, <1>18

\* The registration and the two ways to pop.
LEMMA RegistryRun ==
    ASSUME Typed, Registry, NEW r \in Runs,
           RunStep(r) \/ RunFails(r) \/ RunnerExits(r)
    PROVE  Registry'
<1> USE DEF Touched, Untouched, Registered, Popped, InPc
<1>1. /\ job \in [Runs -> JobRecords] /\ running \in [Experiments -> Runs \cup {None}]
      /\ None \notin Experiments /\ None \notin Runs
  BY SandboxAssumption DEF Typed, TypeOK
<1>2. job[r].pc \in {"created", "popping"} => job[r].exp \in Experiments
  BY DEF Typed, JobShape
<1>3. CASE RegisterRun(r)
  <2>1. /\ job[r].pc = "created" /\ box' = box
        /\ running' = [running EXCEPT ![job[r].exp] = r]
        /\ \A q \in Runs \ {r} : job'[q] = job[q]
        /\ job'[r].pc = "announcing" /\ job'[r].exp = job[r].exp
    BY <1>1, <1>3 DEF RegisterRun, JobRecords
  <2>2. EntryHolds' BY <1>1, <1>2, <2>1 DEF Registry, EntryHolds
  <2>3. BoxBehind' BY <2>1 DEF Registry, BoxBehind
  <2>4. EntryOwn(r)' BY <1>1, <1>2, <2>1 DEF EntryOwn
  <2>5. ASSUME NEW q \in Runs, q # r PROVE EntryOwn(q)'
    <3>1. CASE job[q].exp = job[r].exp
      BY <2>1, <2>5, <3>1 DEF EntryOwn
    <3>2. CASE job[q].exp # job[r].exp
      <4>1. job[q].exp \in Experiments \/ (job[q].pc \notin Registered \cup Popped
              /\ ~ (job[q].pc = "failed" /\ box[q] = "running"))
        BY DEF Typed, JobShape
      <4> QED BY <1>1, <1>2, <2>1, <2>5, <3>2, <4>1 DEF Registry, EntryOwn
    <3> QED BY <3>1, <3>2
  <2> QED BY <2>2, <2>3, <2>4, <2>5 DEF Registry
<1>4. CASE PopRun(r) \/ WaitFails(r)
  <2>1. /\ job[r].pc = "popping" /\ box' = box
        /\ running' = [running EXCEPT ![job[r].exp] = None]
        /\ \A q \in Runs \ {r} : job'[q] = job[q]
        /\ job'[r].pc \in {"writing", "failed"} /\ job'[r].exp = job[r].exp
    <3>1. CASE PopRun(r) BY <1>1, <3>1 DEF PopRun, JobRecords
    <3>2. CASE WaitFails(r) BY <1>1, <3>2 DEF WaitFails, JobRecords
    <3> QED BY <1>4, <3>1, <3>2
  <2>2. box[r] = "removed" BY <2>1 DEF Registry, BoxBehind
  <2>3. EntryHolds' BY <1>1, <1>2, <2>1 DEF Registry, EntryHolds
  <2>4. BoxBehind' BY <2>1, <2>2 DEF Registry, BoxBehind
  <2>5. EntryOwn(r)' BY <1>1, <1>2, <2>1, <2>2 DEF EntryOwn
  <2>6. ASSUME NEW q \in Runs, q # r PROVE EntryOwn(q)'
    <3>1. CASE job[q].exp = job[r].exp
      BY <2>1, <2>6, <3>1 DEF EntryOwn
    <3>2. CASE job[q].exp # job[r].exp
      <4>1. job[q].exp \in Experiments \/ (job[q].pc \notin Registered \cup Popped
              /\ ~ (job[q].pc = "failed" /\ box[q] = "running"))
        BY DEF Typed, JobShape
      <4> QED BY <1>1, <1>2, <2>1, <2>6, <3>2, <4>1 DEF Registry, EntryOwn
    <3> QED BY <3>1, <3>2
  <2> QED BY <2>3, <2>4, <2>5, <2>6 DEF Registry
<1> QED BY <1>3, <1>4, RunStaysSteady, RegistrySteady DEF RunStep, RunFails

\* A request for a run, a stop of one, and the end of the process.
LEMMA RegistryGate ==
    ASSUME Typed, Registry
    PROVE  /\ \A r \in Runs, e \in Experiments, t \in Tokens, f \in BOOLEAN :
                PostRunAll(r, e, t, f) => Registry'
           /\ \A e \in Experiments : StopKernel(e) => Registry'
           /\ ProcessExits => Registry'
<1> USE DEF Touched, Untouched, Registered, Popped
<1>1. /\ job \in [Runs -> JobRecords] /\ running \in [Experiments -> Runs \cup {None}]
      /\ box \in [Runs -> BoxStates] /\ None \notin Experiments /\ None \notin Runs
  BY SandboxAssumption DEF Typed, TypeOK
<1>2. \A r \in Runs, e \in Experiments : running[e] = r =>
        job[r].pc \in Registered \cup {"failed"}
  BY <1>1 DEF Registry, EntryHolds
<1>3. ASSUME NEW r \in Runs, NEW e \in Experiments, NEW t \in Tokens, NEW f \in BOOLEAN,
             PostRunAll(r, e, t, f)
      PROVE  Registry'
  <2>1. /\ job[r].pc = "absent" /\ job'[r].pc = "queued"
        /\ box' = box /\ running' = running
        /\ \A q \in Runs \ {r} : job'[q] = job[q]
    BY <1>1, <1>3 DEF PostRunAll, InPc, JobRecords
  <2>2. Steady(r) BY <1>1, <1>2, <2>1 DEF Steady
  <2> QED BY <2>2, RegistrySteady
<1>4. ASSUME NEW e \in Experiments, StopKernel(e) PROVE Registry'
  <2>1. PICK r \in Runs : r = running[e] BY <1>1, <1>4 DEF StopKernel
  <2>2. /\ box[r] = "running" /\ box' = [box EXCEPT ![r] = "exited"]
        /\ job' = job /\ running' = running
    BY <1>4, <2>1 DEF StopKernel, runs
  <2>3. job[r].pc \notin {"reaping", "popping"} \cup Popped
    BY <2>2 DEF Registry, BoxBehind
  <2>4. /\ \A q \in Runs \ {r} : box'[q] = box[q]
        /\ box'[r] = "exited"
    BY <1>1, <2>2
  <2>5. Steady(r) BY <1>2, <2>2, <2>3, <2>4 DEF Steady
  <2> QED BY <2>5, RegistrySteady
<1>5. ASSUME ProcessExits PROVE Registry'
  <2>1. /\ box' = box /\ \A e \in Experiments : running'[e] = None
        /\ \A r \in Runs : job'[r].pc \in {"absent", "queued", "done", "rejected", "lost"}
        /\ \A r \in Runs : job'[r].pc # "lost" => job'[r] = job[r]
    BY <1>1, <1>5 DEF ProcessExits, JobRecords
  <2>2. \A r \in Runs : job'[r].pc = "done" => job'[r].exp \in Experiments
    BY <2>1 DEF Typed, JobShape
  <2> QED BY <2>1, <2>2 DEF Registry, EntryHolds, BoxBehind, EntryOwn
<1> QED BY <1>3, <1>4, <1>5

LEMMA RegistryFrame ==
    ASSUME Registry, UNCHANGED <<job, box, running>>
    PROVE  Registry'
BY DEF Registry, EntryHolds, BoxBehind, EntryOwn, Touched

LEMMA ServeKeepsRegistry ==
    ASSUME NEW p \in Procs, ServeStep(p) \/ ProbeFails(p) \/ SaveFails(p) \/ RemoveFails(p)
    PROVE  UNCHANGED <<job, box, running>>
BY DEF ServeStep, StartLoad, CreateNotebook, StartRegister, SaveRead, StopPop, StopRemove,
       StartFails, StartContainer, ProbeFails, SaveFails, RemoveFails, runs

LEMMA RegistryStep == Typed /\ Registry /\ [Next]_vars => Registry'
<1> SUFFICES ASSUME Typed, Registry, [Next]_vars PROVE Registry' OBVIOUS
<1>1. CASE UNCHANGED vars BY <1>1, RegistryFrame DEF vars
<1>2. CASE Next
  <2>1. ASSUME NEW e \in Experiments, UpdateExperiment(e) PROVE Registry'
    BY <2>1, RegistryFrame DEF UpdateExperiment, runs
  <2>2. ASSUME NEW e \in Experiments, NEW o \in Ops, ProposeRead(o, e) \/ StartEnter(o, e)
        PROVE  Registry'
    BY <2>2, RegistryFrame DEF ProposeRead, StartEnter, runs
  <2>3. ASSUME NEW e \in Experiments, NEW p \in Procs, StopEnter(p, e) PROVE Registry'
    BY <2>3, RegistryFrame DEF StopEnter, runs
  <2>4. ASSUME NEW o \in Ops, NEW c \in Cells, ProposeWrite(o, c) PROVE Registry'
    BY <2>4, RegistryFrame DEF ProposeWrite, runs
  <2>5. ASSUME NEW s \in Servers, NEW c \in Cells, LiveEdit(s, c) PROVE Registry'
    BY <2>5, RegistryFrame DEF LiveEdit, runs
  <2>6. ASSUME NEW s \in Servers, WakeCeiling(s) \/ SweepOne(s) PROVE Registry'
    BY <2>6, RegistryFrame DEF WakeCeiling, SweepOne, runs
  <2>7. ASSUME Boot PROVE Registry'
    BY <2>7, RegistryFrame DEF Boot, runs
  <2>8. \A p \in Ops \cup Servers : p \in Procs BY DEF Procs
  <2>9. ASSUME NEW t \in Tokens, NEW e \in Experiments, Preview(t, e) PROVE Registry'
    BY <2>9, RegistryFrame DEF Preview, runs
  <2>10. ASSUME NEW t \in Tokens, MintConfirmation(t) \/ ExpireToken(t) PROVE Registry'
    BY <2>10, RegistryFrame DEF MintConfirmation, ExpireToken, runs
  <2> QED
    BY <1>2, <2>1, <2>2, <2>3, <2>4, <2>5, <2>6, <2>7, <2>8, <2>9, <2>10, RegistryRun,
       RegistryGate, RegistryFrame, ServeKeepsRegistry DEF Next, CeilingStep
<1> QED BY <1>1, <1>2

\* A run no second run of its experiment was asked for is the registered one
\* while its container lives, and leaves nothing registered behind.
THEOREM RegistryIsHonest == Spec => []RegistryHonest
<1>1. Init => Typed /\ Registry BY TypedInit, RegistryInit
<1>2. Typed /\ Registry /\ [Next]_vars => (Typed /\ Registry)'
  BY TypedStep, RegistryStep
<1>3. Typed /\ Registry => RegistryHonest
  <2> SUFFICES ASSUME Typed, Registry, NEW r \in Runs, OnlyRunOf(r)
               PROVE  /\ box[r] = "running" /\ job[r].pc \notin {"created", "lost"}
                            => running[job[r].exp] = r
                      /\ job[r].pc \in {"writing", "committing", "done"}
                            => running[job[r].exp] = None
    BY DEF RegistryHonest
  <2>1. \A q \in Runs \ {r} : ~ Touched(q, job[r].exp)
    BY DEF OnlyRunOf, Touched
  <2>2. job[r].pc \in JobStates BY DEF Typed, TypeOK, JobRecords
  <2>3. job[r].pc \in Unlaunched => box[r] = "none" BY DEF Typed, JobShape
  <2>4. /\ job[r].pc = "reaping" => box[r] = "exited"
        /\ job[r].pc \in {"popping"} \cup Popped => box[r] = "removed"
    BY DEF Registry, BoxBehind
  <2>5. EntryOwn(r) BY DEF Registry
  <2> QED
    BY <2>1, <2>2, <2>3, <2>4, <2>5 DEF EntryOwn, Registered, Popped, JobStates, Unlaunched
<1> QED BY <1>1, <1>2, <1>3, PTL DEF Spec

-----------------------------------------------------------------------------
(* The live notebook servers: no server is forgotten, none has a twin, and  *)
(* no ceiling stops another's.  What makes it so is the lock: whoever is    *)
(* between two awaits of a start or a stop holds it, and knows what the     *)
(* registry says meanwhile.                                                 *)

Starting == {"starting", "creating", "launching", "probing"}
Stopping == {"saving", "writing", "removing"}

\* Between its entry and its exit a start or stop holds its experiment's lock.
HoldersLock ==
    \A p \in Procs : op[p].pc \in Starting \cup Stopping => lock[op[p].exp] = p

\* Nothing is registered while a start is under way or once a stop has popped;
\* until it pops, a stop saves the server that is registered.
HoldersKnow ==
    \A p \in Procs :
        /\ op[p].pc \in Starting \cup {"removing"} => live[op[p].exp] = None
        /\ op[p].pc \in {"saving", "writing"} => live[op[p].exp] = op[p].srv

\* A server in somebody's hands is up and belongs to that experiment.
HandsUp ==
    \A p \in Procs : op[p].pc \in {"probing", "removing"} =>
        server[op[p].srv].st = "up" /\ server[op[p].srv].exp = op[p].exp

\* So is a registered one.
LiveUp ==
    \A e \in Experiments : live[e] # None =>
        server[live[e]].st = "up" /\ server[live[e]].exp = e

\* A ceiling task that has not ended is the ceiling of a registered server, or
\* is stopping its own.
CeilingsOwn ==
    /\ \A s \in Servers :
         /\ op[s].pc \in {"idle", "armed", "woken"} \cup Stopping
         /\ op[s].pc \in {"armed", "woken"} => live[op[s].exp] = s
         /\ op[s].pc \in {"idle", "armed", "woken"} => op[s].srv = None
         /\ op[s].pc \in Stopping => op[s].srv = s
    /\ \A o \in Ops : op[o].pc \notin {"armed", "woken"}

\* A process that is down has nothing in it.
DownEmpty ==
    ~ up => /\ \A e \in Experiments : live[e] = None /\ lock[e] = None
            /\ \A p \in Procs : op[p] = IdleOp

\* A running server has an experiment.
UpOwned == \A s \in Servers : server[s].st = "up" => server[s].exp \in Experiments

Serve == UpOwned /\ HoldersLock /\ HoldersKnow /\ HandsUp /\ LiveUp
            /\ CeilingsOwn /\ DownEmpty /\ ServerTracked

-----------------------------------------------------------------------------
LEMMA ServeInit == Init => Serve
<1> SUFFICES ASSUME Init PROVE Serve OBVIOUS
<1>1. \A p \in Procs : op[p] = IdleOp /\ op[p].pc = "idle" /\ op[p].srv = None
  BY DEF Init, IdleOp, OpAt
<1>2. HoldersLock /\ HoldersKnow /\ HandsUp
  BY <1>1 DEF HoldersLock, HoldersKnow, HandsUp, Starting, Stopping
<1>3. LiveUp /\ DownEmpty BY DEF Init, LiveUp, DownEmpty
<1>4. CeilingsOwn
  BY <1>1 DEF CeilingsOwn, Starting, Stopping, Procs
<1>5. UpOwned /\ ServerTracked BY DEF Init, UpOwned, ServerTracked
<1> QED BY <1>2, <1>3, <1>4, <1>5 DEF Serve

\* What the types say of the servers, the lock and the requests.
LEMMA TypedServing ==
    ASSUME Typed
    PROVE  /\ live \in [Experiments -> Servers \cup {None}]
           /\ lock \in [Experiments -> Procs \cup {None}]
           /\ op \in [Procs -> OpRecords] /\ server \in [Servers -> ServerRecords]
           /\ Procs = Ops \cup Servers /\ Ops \cap Servers = {} /\ None \notin Procs
           /\ \A q \in Procs :
                /\ op[q].pc # "idle" => op[q].exp \in Experiments
                /\ op[q].pc \in {"probing", "saving", "writing", "removing"}
                     => op[q].srv \in Servers
BY SandboxAssumption DEF Typed, TypeOK, OpShape, Procs

\* A step that leaves all of it alone.
LEMMA ServeFrame ==
    ASSUME Serve, UNCHANGED <<live, lock, op, server, up>>
    PROVE  Serve'
<1>1. HoldersLock' /\ HoldersKnow' /\ HandsUp'
  BY DEF Serve, HoldersLock, HoldersKnow, HandsUp
<1>2. LiveUp' /\ CeilingsOwn' /\ DownEmpty'
  BY DEF Serve, LiveUp, CeilingsOwn, DownEmpty
<1>3. UpOwned' /\ ServerTracked' BY DEF Serve, UpOwned, ServerTracked
<1> QED BY <1>1, <1>2, <1>3 DEF Serve

\* What one request or ceiling task writes into op.
LEMMA OpWrites ==
    ASSUME Typed, NEW p \in Procs, NEW x, op' = [op EXCEPT ![p] = x]
    PROVE  op'[p] = x /\ \A q \in Procs \ {p} : op'[q] = op[q]
BY DEF Typed, TypeOK

\* A request under way means that the process is up.
LEMMA BusyUp ==
    ASSUME Serve, NEW p \in Procs, op[p].pc # "idle"
    PROVE  up
BY DEF Serve, DownEmpty, IdleOp, OpAt

\* A proposal holds no lock and touches no server.
LEMMA ServeProposeRead ==
    ASSUME Typed, Serve, NEW o \in Ops, NEW e \in Experiments, ProposeRead(o, e)
    PROVE  Serve'
<1>1. UNCHANGED <<live, lock, server, up>> /\ o \in Procs /\ up
  BY DEF ProposeRead, Procs
<1>2. op[o].pc \in {"idle", "proposing"} /\ op'[o].pc \in {"idle", "proposing"}
      /\ \A q \in Procs \ {o} : op'[q] = op[q]
  BY DEF ProposeRead, OpAt
<1>3. UpOwned'
  BY <1>1 DEF Serve, UpOwned
<1>4. HoldersLock'
  BY <1>1, <1>2 DEF Serve, HoldersLock, Starting, Stopping
<1>5. HoldersKnow'
  BY <1>1, <1>2 DEF Serve, HoldersKnow, Starting
<1>6. HandsUp'
  BY <1>1, <1>2 DEF Serve, HandsUp
<1>7. LiveUp'
  BY <1>1 DEF Serve, LiveUp
<1>8. CeilingsOwn'
  BY TypedServing, <1>1, <1>2 DEF Serve, CeilingsOwn, Stopping
<1>9. DownEmpty'
  BY <1>1 DEF Serve, DownEmpty
<1>10. ServerTracked'
  BY <1>1, <1>2 DEF Serve, ServerTracked
<1> QED BY <1>3, <1>4, <1>5, <1>6, <1>7, <1>8, <1>9, <1>10 DEF Serve

\* A proposal holds no lock and touches no server.
LEMMA ServeProposeWrite ==
    ASSUME Typed, Serve, NEW o \in Ops, NEW c \in Cells, ProposeWrite(o, c)
    PROVE  Serve'
<1>1. UNCHANGED <<live, lock, server, up>> /\ o \in Procs /\ up
  BY BusyUp DEF ProposeRead, ProposeWrite, Procs
<1>2. op[o].pc \in {"idle", "proposing"} /\ op'[o].pc \in {"idle", "proposing"}
      /\ \A q \in Procs \ {o} : op'[q] = op[q]
  BY IdleTyped DEF ProposeRead, ProposeWrite, OpAt
<1>3. UpOwned'
  BY <1>1 DEF Serve, UpOwned
<1>4. HoldersLock'
  BY <1>1, <1>2 DEF Serve, HoldersLock, Starting, Stopping
<1>5. HoldersKnow'
  BY <1>1, <1>2 DEF Serve, HoldersKnow, Starting
<1>6. HandsUp'
  BY <1>1, <1>2 DEF Serve, HandsUp
<1>7. LiveUp'
  BY <1>1 DEF Serve, LiveUp
<1>8. CeilingsOwn'
  BY TypedServing, <1>1, <1>2 DEF Serve, CeilingsOwn, Stopping
<1>9. DownEmpty'
  BY <1>1 DEF Serve, DownEmpty
<1>10. ServerTracked'
  BY <1>1, <1>2 DEF Serve, ServerTracked
<1> QED BY <1>3, <1>4, <1>5, <1>6, <1>7, <1>8, <1>9, <1>10 DEF Serve

\* A start takes the lock with nothing registered.
LEMMA ServeStartEnter ==
    ASSUME Typed, Serve, NEW o \in Ops, NEW e \in Experiments, StartEnter(o, e)
    PROVE  Serve'
<1>1. /\ UNCHANGED <<live, server, up>> /\ o \in Procs /\ up
      /\ op[o].pc = "idle" /\ live[e] = None /\ lock[e] = None
      /\ lock'[e] = o /\ \A d \in Experiments \ {e} : lock'[d] = lock[d]
  BY TypedServing DEF StartEnter, Acquire, Procs
<1>2. /\ op'[o].pc = "starting" /\ op'[o].exp = e
      /\ \A q \in Procs \ {o} : op'[q] = op[q]
  BY TypedServing DEF StartEnter, OpAt
<1>3. UpOwned'
  BY <1>1 DEF Serve, UpOwned
<1>4. HoldersLock'
  BY TypedServing, <1>1, <1>2 DEF Serve, HoldersLock, Starting, Stopping
<1>5. HoldersKnow'
  BY <1>1, <1>2 DEF Serve, HoldersKnow, Starting
<1>6. HandsUp'
  BY <1>1, <1>2 DEF Serve, HandsUp
<1>7. LiveUp'
  BY <1>1 DEF Serve, LiveUp
<1>8. CeilingsOwn'
  BY TypedServing, <1>1, <1>2 DEF Serve, CeilingsOwn, Stopping
<1>9. DownEmpty'
  BY <1>1 DEF Serve, DownEmpty
<1>10. ServerTracked'
  <2> SUFFICES ASSUME NEW z \in Servers, up', server'[z].st = "up"
               PROVE  \/ live'[server'[z].exp] = z
                      \/ \E q \in Procs : /\ op'[q].pc \in {"probing", "removing"}
                                         /\ op'[q].srv = z
                                         /\ lock'[server'[z].exp] = q
    BY DEF ServerTracked
  <2>1. server[z].st = "up" /\ server'[z] = server[z] /\ server[z].exp \in Experiments
    BY <1>1 DEF Serve, UpOwned
  <2>2. CASE live[server[z].exp] = z
    BY <2>1, <2>2, <1>1
  <2>3. ASSUME NEW q \in Procs, op[q].pc \in {"probing", "removing"}, op[q].srv = z,
               lock[server[z].exp] = q
        PROVE  \/ live'[server'[z].exp] = z
               \/ \E p2 \in Procs : /\ op'[p2].pc \in {"probing", "removing"}
                                   /\ op'[p2].srv = z
                                   /\ lock'[server'[z].exp] = p2
    BY TypedServing, <1>1, <1>2, <2>1, <2>3
  <2> QED BY <1>1, <2>1, <2>2, <2>3 DEF Serve, ServerTracked
<1> QED BY <1>3, <1>4, <1>5, <1>6, <1>7, <1>8, <1>9, <1>10 DEF Serve

\* Between its awaits a start only moves on.
LEMMA ServeStartMoves ==
    ASSUME Typed, Serve, NEW o \in Procs, StartLoad(o) \/ CreateNotebook(o)
    PROVE  Serve'
<1>1. /\ UNCHANGED <<live, lock, server, up>>
      /\ op[o].pc \in {"starting", "creating"}
  BY DEF StartLoad, CreateNotebook
<1>2. /\ op'[o].pc \in {"creating", "launching"} /\ op'[o].exp = op[o].exp
      /\ op'[o].srv = op[o].srv /\ \A q \in Procs \ {o} : op'[q] = op[q]
  <2>1. \/ op' = [op EXCEPT ![o] = [op[o] EXCEPT !.pc = "creating"]]
        \/ op' = [op EXCEPT ![o] = [op[o] EXCEPT !.pc = "launching"]]
    BY DEF StartLoad, CreateNotebook
  <2>2. op[o] \in OpRecords BY TypedServing
  <2>3. CASE op' = [op EXCEPT ![o] = [op[o] EXCEPT !.pc = "creating"]]
    BY TypedServing, <2>3 DEF OpStates
  <2>4. CASE op' = [op EXCEPT ![o] = [op[o] EXCEPT !.pc = "launching"]]
    BY TypedServing, <2>4 DEF OpStates
  <2> QED BY <2>1, <2>3, <2>4
<1>3. up BY <1>1, BusyUp
<1>4. UpOwned'
  BY <1>1 DEF Serve, UpOwned
<1>5. HoldersLock'
  BY <1>1, <1>2 DEF Serve, HoldersLock, Starting, Stopping
<1>6. HoldersKnow'
  BY <1>1, <1>2 DEF Serve, HoldersKnow, Starting
<1>7. HandsUp'
  BY <1>1, <1>2 DEF Serve, HandsUp
<1>8. LiveUp'
  BY <1>1 DEF Serve, LiveUp
<1>9. CeilingsOwn'
  BY TypedServing, <1>1, <1>2 DEF Serve, CeilingsOwn, Stopping
<1>10. DownEmpty'
  BY <1>1, <1>3 DEF Serve, DownEmpty
<1>11. ServerTracked'
  BY <1>1, <1>2 DEF Serve, ServerTracked
<1> QED BY <1>4, <1>5, <1>6, <1>7, <1>8, <1>9, <1>10, <1>11 DEF Serve

\* The container is started under the lock.
LEMMA ServeStartContainer ==
    ASSUME Typed, Serve, NEW o \in Procs, NEW s \in Servers, StartContainer(o, s)
    PROVE  Serve'
<1>1. /\ UNCHANGED <<live, lock, up>> /\ op[o].pc = "launching" /\ server[s].st = "unused"
      /\ server'[s].st = "up" /\ server'[s].exp = op[o].exp
      /\ \A q \in Servers \ {s} : server'[q] = server[q]
  BY TypedServing DEF StartContainer
<1>2. /\ op'[o].pc = "probing" /\ op'[o].exp = op[o].exp /\ op'[o].srv = s
      /\ \A q \in Procs \ {o} : op'[q] = op[q]
  BY TypedServing DEF StartContainer, OpRecords
<1>3. up /\ op[o].exp \in Experiments BY <1>1, BusyUp DEF Typed, OpShape
<1>4. UpOwned'
  BY <1>1, <1>3 DEF Serve, UpOwned
<1>5. HoldersLock'
  BY <1>1, <1>2 DEF Serve, HoldersLock, Starting, Stopping
<1>6. HoldersKnow'
  BY <1>1, <1>2 DEF Serve, HoldersKnow, Starting
<1>7. HandsUp'
  BY TypedServing, <1>1, <1>2 DEF Serve, HandsUp
<1>8. LiveUp'
  BY TypedServing, <1>1 DEF Serve, LiveUp
<1>9. CeilingsOwn'
  BY TypedServing, <1>1, <1>2 DEF Serve, CeilingsOwn, Stopping
<1>10. DownEmpty'
  BY <1>1, <1>3 DEF Serve, DownEmpty
<1>11. ServerTracked'
  <2> SUFFICES ASSUME NEW z \in Servers, up', server'[z].st = "up"
               PROVE  \/ live'[server'[z].exp] = z
                      \/ \E q \in Procs : /\ op'[q].pc \in {"probing", "removing"}
                                         /\ op'[q].srv = z
                                         /\ lock'[server'[z].exp] = q
    BY DEF ServerTracked
  <2>0. CASE z = s BY TypedServing, <1>1, <1>2, <1>3, <2>0 DEF Serve, HoldersLock, Starting
  <2> SUFFICES ASSUME z # s PROVE \/ live'[server'[z].exp] = z
                      \/ \E q \in Procs : /\ op'[q].pc \in {"probing", "removing"}
                                         /\ op'[q].srv = z
                                         /\ lock'[server'[z].exp] = q
    BY <2>0
  <2>1. server[z].st = "up" /\ server'[z] = server[z] /\ server[z].exp \in Experiments
    BY <1>1 DEF Serve, UpOwned
  <2>2. CASE live[server[z].exp] = z
    BY <2>1, <2>2, <1>1
  <2>3. ASSUME NEW q \in Procs, op[q].pc \in {"probing", "removing"}, op[q].srv = z,
               lock[server[z].exp] = q
        PROVE  \/ live'[server'[z].exp] = z
               \/ \E p2 \in Procs : /\ op'[p2].pc \in {"probing", "removing"}
                                   /\ op'[p2].srv = z
                                   /\ lock'[server'[z].exp] = p2
    BY <1>1, <1>2, <2>1, <2>3
  <2> QED BY <1>3, <2>1, <2>2, <2>3 DEF Serve, ServerTracked
<1> QED BY <1>4, <1>5, <1>6, <1>7, <1>8, <1>9, <1>10, <1>11 DEF Serve

\* A start or a stop that fails early gives the lock back with nothing changed.
LEMMA ServeGivesUp ==
    ASSUME Typed, Serve, NEW o \in Procs, StartFails(o) \/ SaveFails(o)
    PROVE  Serve'
<1>1. /\ UNCHANGED <<live, server, up>> /\ op[o].pc \in {"starting", "creating", "launching", "saving", "writing"}
      /\ lock' = [lock EXCEPT ![op[o].exp] = None]
  BY DEF StartFails, SaveFails, Release
<1>2. /\ op'[o].pc = "idle" /\ op'[o].srv = None /\ \A q \in Procs \ {o} : op'[q] = op[q]
  BY OpWrites DEF StartFails, SaveFails, IdleOp, OpAt
<1>3. up /\ op[o].exp \in Experiments BY <1>1, BusyUp DEF Typed, OpShape
<1>4. /\ lock'[op[o].exp] = None /\ lock[op[o].exp] = o
      /\ \A d \in Experiments \ {op[o].exp} : lock'[d] = lock[d]
  BY TypedServing, <1>1 DEF Serve, HoldersLock, Starting, Stopping
<1>5. UpOwned'
  BY <1>1 DEF Serve, UpOwned
<1>6. HoldersLock'
  BY <1>1, <1>2 DEF Serve, HoldersLock, Starting, Stopping
<1>7. HoldersKnow'
  BY <1>1, <1>2 DEF Serve, HoldersKnow, Starting
<1>8. HandsUp'
  BY <1>1, <1>2 DEF Serve, HandsUp
<1>9. LiveUp'
  BY <1>1 DEF Serve, LiveUp
<1>10. CeilingsOwn'
  BY TypedServing, <1>1, <1>2 DEF Serve, CeilingsOwn, Stopping
<1>11. DownEmpty'
  BY <1>1, <1>3 DEF Serve, DownEmpty
<1>12. ServerTracked'
  BY <1>1, <1>2, <1>4 DEF Serve, ServerTracked
<1> QED BY <1>5, <1>6, <1>7, <1>8, <1>9, <1>10, <1>11, <1>12 DEF Serve

\* The container goes, or stays behind a failed removal, with the lock.
LEMMA ServeDrops ==
    ASSUME Typed, Serve, NEW o \in Procs, ProbeFails(o) \/ StopRemove(o) \/ RemoveFails(o)
    PROVE  Serve'
<1>1. /\ UNCHANGED <<live, up>> /\ op[o].pc \in {"probing", "removing"}
      /\ lock' = [lock EXCEPT ![op[o].exp] = None]
  BY DEF ProbeFails, StopRemove, RemoveFails, Release
<1>2. /\ op'[o].pc = "idle" /\ op'[o].srv = None /\ \A q \in Procs \ {o} : op'[q] = op[q]
  BY OpWrites DEF ProbeFails, StopRemove, RemoveFails, IdleOp, OpAt
<1>3. up /\ op[o].exp \in Experiments /\ op[o].srv \in Servers
  BY <1>1, BusyUp DEF Typed, OpShape
<1>4. /\ lock'[op[o].exp] = None /\ lock[op[o].exp] = o
      /\ \A d \in Experiments \ {op[o].exp} : lock'[d] = lock[d]
  BY TypedServing, <1>1 DEF Serve, HoldersLock, Starting, Stopping
<1>5. /\ server'[op[o].srv].st \in {"removed", "stray"}
      /\ \A s \in Servers \ {op[o].srv} : server'[s] = server[s]
      /\ server[op[o].srv].exp = op[o].exp /\ live[op[o].exp] = None
  BY TypedServing, <1>1, <1>3
     DEF ProbeFails, StopRemove, RemoveFails, ServerRecords, Serve, HandsUp, HoldersKnow, Starting
<1>6. UpOwned'
  BY <1>5 DEF Serve, UpOwned
<1>7. HoldersLock'
  BY <1>1, <1>2 DEF Serve, HoldersLock, Starting, Stopping
<1>8. HoldersKnow'
  BY <1>1, <1>2 DEF Serve, HoldersKnow, HoldersLock, Starting, Stopping
<1>9. HandsUp'
  BY TypedServing, <1>2, <1>4, <1>5 DEF Serve, HandsUp, HoldersLock, Starting, Stopping
<1>10. LiveUp'
  BY TypedServing, <1>1, <1>5 DEF Serve, LiveUp
<1>11. CeilingsOwn'
  BY TypedServing, <1>1, <1>2 DEF Serve, CeilingsOwn, Stopping
<1>12. DownEmpty'
  BY <1>1, <1>3 DEF Serve, DownEmpty
<1>13. ServerTracked'
  BY <1>1, <1>2, <1>4, <1>5 DEF Serve, ServerTracked
<1> QED BY <1>6, <1>7, <1>8, <1>9, <1>10, <1>11, <1>12, <1>13 DEF Serve

\* The server passes from the start's hands to the registry.
LEMMA ServeStartRegister ==
    ASSUME Typed, Serve, NEW o \in Procs, StartRegister(o)
    PROVE  Serve'
<1>1. /\ UNCHANGED <<server, up>> /\ op[o].pc = "probing"
      /\ lock' = [lock EXCEPT ![op[o].exp] = None]
      /\ live' = [live EXCEPT ![op[o].exp] = op[o].srv]
  BY DEF StartRegister, Release
<1>2. up /\ op[o].exp \in Experiments /\ op[o].srv \in Servers
  BY <1>1, BusyUp DEF Typed, OpShape
<1>3. /\ op[o].srv # o /\ op[o].srv \in Procs
      /\ op'[o].pc = "idle" /\ op'[op[o].srv].pc = "armed"
      /\ op'[op[o].srv].exp = op[o].exp /\ op'[op[o].srv].srv = None
      /\ \A q \in Procs \ {o, op[o].srv} : op'[q] = op[q]
  BY TypedServing DEF StartRegister, IdleOp, OpAt, Serve, CeilingsOwn, Stopping
<1>4. /\ lock'[op[o].exp] = None /\ lock[op[o].exp] = o
      /\ \A d \in Experiments \ {op[o].exp} : lock'[d] = lock[d]
  BY TypedServing, <1>1 DEF Serve, HoldersLock, Starting, Stopping
<1>5. /\ live'[op[o].exp] = op[o].srv /\ live[op[o].exp] = None
      /\ \A d \in Experiments \ {op[o].exp} : live'[d] = live[d]
      /\ server[op[o].srv].st = "up" /\ server[op[o].srv].exp = op[o].exp
  BY TypedServing, <1>1 DEF Serve, HandsUp, HoldersKnow, Starting
<1>6. UpOwned'
  BY <1>1 DEF Serve, UpOwned
<1>7. HoldersLock'
  BY <1>1, <1>3 DEF Serve, HoldersLock, Starting, Stopping
<1>8. HoldersKnow'
  BY <1>1, <1>3 DEF Serve, HoldersKnow, HoldersLock, Starting, Stopping
<1>9. HandsUp'
  BY <1>1, <1>3 DEF Serve, HandsUp, HoldersLock, Starting, Stopping
<1>10. LiveUp'
  BY <1>1, <1>5 DEF Serve, LiveUp
<1>11. CeilingsOwn'
  BY TypedServing, <1>2, <1>3, <1>5 DEF Serve, CeilingsOwn, Stopping
<1>12. DownEmpty'
  BY <1>1, <1>2 DEF Serve, DownEmpty
<1>13. ServerTracked'
  <2> SUFFICES ASSUME NEW z \in Servers, up', server'[z].st = "up"
               PROVE  \/ live'[server'[z].exp] = z
                      \/ \E q \in Procs : /\ op'[q].pc \in {"probing", "removing"}
                                         /\ op'[q].srv = z
                                         /\ lock'[server'[z].exp] = q
    BY DEF ServerTracked
  <2>1. server[z].st = "up" /\ server'[z] = server[z] /\ server[z].exp \in Experiments
    BY <1>1 DEF Serve, UpOwned
  <2>2. CASE live[server[z].exp] = z
    BY <2>1, <2>2, <1>4, <1>5, TypedServing
  <2>3. ASSUME NEW q \in Procs, op[q].pc \in {"probing", "removing"}, op[q].srv = z,
               lock[server[z].exp] = q
        PROVE  \/ live'[server'[z].exp] = z
               \/ \E p2 \in Procs : /\ op'[p2].pc \in {"probing", "removing"}
                                   /\ op'[p2].srv = z
                                   /\ lock'[server'[z].exp] = p2
    <3>1. CASE q = o BY <1>1, <1>4, <1>5, <2>1, <2>3, <3>1
    <3>2. CASE q # o
      BY <1>2, <1>3, <1>4, <1>5, <2>1, <2>3 DEF Serve, CeilingsOwn, Stopping, HandsUp
    <3> QED BY <3>1, <3>2
  <2> QED BY <1>2, <2>1, <2>2, <2>3 DEF Serve, ServerTracked
<1> QED BY <1>6, <1>7, <1>8, <1>9, <1>10, <1>11, <1>12, <1>13 DEF Serve

\* A ceiling that wakes finds its own server still registered.
LEMMA ServeWake ==
    ASSUME Typed, Serve, NEW s \in Servers, WakeCeiling(s)
    PROVE  Serve'
<1>1. /\ UNCHANGED <<live, lock, server, up>> /\ op[s].pc = "armed" /\ s \in Procs
      /\ live[op[s].exp] = s /\ op[s].srv = None
  BY DEF WakeCeiling, Procs, Serve, CeilingsOwn
<1>2. /\ op'[s].pc = "woken" /\ op'[s].exp = op[s].exp /\ op'[s].srv = None
      /\ \A q \in Procs \ {s} : op'[q] = op[q]
  <2>1. op' = [op EXCEPT ![s] = [op[s] EXCEPT !.pc = "woken"]]
    BY TypedServing, <1>1 DEF WakeCeiling
  <2> QED BY TypedServing, <1>1, <2>1, OpAtPc DEF OpStates
<1>3. up BY <1>1, BusyUp
<1>4. UpOwned'
  BY <1>1 DEF Serve, UpOwned
<1>5. HoldersLock'
  BY <1>1, <1>2 DEF Serve, HoldersLock, Starting, Stopping
<1>6. HoldersKnow'
  BY <1>1, <1>2 DEF Serve, HoldersKnow, Starting
<1>7. HandsUp'
  BY <1>1, <1>2 DEF Serve, HandsUp
<1>8. LiveUp'
  BY <1>1 DEF Serve, LiveUp
<1>9. CeilingsOwn'
  BY TypedServing, <1>1, <1>2 DEF Serve, CeilingsOwn, Stopping
<1>10. DownEmpty'
  BY <1>1, <1>3 DEF Serve, DownEmpty
<1>11. ServerTracked'
  BY <1>1, <1>2 DEF Serve, ServerTracked
<1> QED BY <1>4, <1>5, <1>6, <1>7, <1>8, <1>9, <1>10, <1>11 DEF Serve

\* A stop takes the lock and the registered server.
LEMMA ServeStopEnter ==
    ASSUME Typed, Serve, NEW p \in Procs, NEW e \in Experiments, StopEnter(p, e)
    PROVE  Serve'
<1>1. /\ UNCHANGED <<live, server, up>> /\ up
      /\ (p \in Ops /\ op[p].pc = "idle") \/ (op[p].pc = "woken" /\ op[p].exp = e)
      /\ live[e] # None /\ live[e] \in Servers /\ lock[e] = None
      /\ lock'[e] = p /\ \A d \in Experiments \ {e} : lock'[d] = lock[d]
  BY TypedServing DEF StopEnter, Acquire
<1>2. /\ op'[p].pc = "saving" /\ op'[p].exp = e /\ op'[p].srv = live[e]
      /\ \A q \in Procs \ {p} : op'[q] = op[q]
  BY TypedServing DEF StopEnter, OpAt
<1>3. UpOwned'
  BY <1>1 DEF Serve, UpOwned
<1>4. HoldersLock'
  BY TypedServing, <1>1, <1>2 DEF Serve, HoldersLock, Starting, Stopping
<1>5. HoldersKnow'
  BY <1>1, <1>2 DEF Serve, HoldersKnow, Starting
<1>6. HandsUp'
  BY <1>1, <1>2 DEF Serve, HandsUp
<1>7. LiveUp'
  BY <1>1 DEF Serve, LiveUp
<1>8. CeilingsOwn'
  BY TypedServing, <1>1, <1>2 DEF Serve, CeilingsOwn, Stopping
<1>9. DownEmpty'
  BY <1>1 DEF Serve, DownEmpty
<1>10. ServerTracked'
  <2> SUFFICES ASSUME NEW z \in Servers, up', server'[z].st = "up"
               PROVE  \/ live'[server'[z].exp] = z
                      \/ \E q \in Procs : /\ op'[q].pc \in {"probing", "removing"}
                                         /\ op'[q].srv = z
                                         /\ lock'[server'[z].exp] = q
    BY DEF ServerTracked
  <2>1. server[z].st = "up" /\ server'[z] = server[z] /\ server[z].exp \in Experiments
    BY <1>1 DEF Serve, UpOwned
  <2>2. CASE live[server[z].exp] = z
    BY <2>1, <2>2, <1>1
  <2>3. ASSUME NEW q \in Procs, op[q].pc \in {"probing", "removing"}, op[q].srv = z,
               lock[server[z].exp] = q
        PROVE  \/ live'[server'[z].exp] = z
               \/ \E p2 \in Procs : /\ op'[p2].pc \in {"probing", "removing"}
                                   /\ op'[p2].srv = z
                                   /\ lock'[server'[z].exp] = p2
    BY TypedServing, <1>1, <1>2, <2>1, <2>3
  <2> QED BY <1>1, <2>1, <2>2, <2>3 DEF Serve, ServerTracked
<1> QED BY <1>3, <1>4, <1>5, <1>6, <1>7, <1>8, <1>9, <1>10 DEF Serve

\* The bytes are read while the server is registered.
LEMMA ServeSaveRead ==
    ASSUME Typed, Serve, NEW p \in Procs, SaveRead(p)
    PROVE  Serve'
<1>1. /\ UNCHANGED <<live, lock, server, up>> /\ op[p].pc = "saving"
  BY DEF SaveRead
<1>2. /\ op'[p].pc = "writing" /\ op'[p].exp = op[p].exp /\ op'[p].srv = op[p].srv
      /\ \A q \in Procs \ {p} : op'[q] = op[q]
  BY TypedServing DEF SaveRead, OpRecords
<1>3. up /\ op[p].exp \in Experiments BY <1>1, BusyUp DEF Typed, OpShape
<1>4. UpOwned'
  BY <1>1 DEF Serve, UpOwned
<1>5. HoldersLock'
  BY <1>1, <1>2 DEF Serve, HoldersLock, Starting, Stopping
<1>6. HoldersKnow'
  BY <1>1, <1>2 DEF Serve, HoldersKnow, Starting
<1>7. HandsUp'
  BY <1>1, <1>2 DEF Serve, HandsUp
<1>8. LiveUp'
  BY <1>1 DEF Serve, LiveUp
<1>9. CeilingsOwn'
  BY TypedServing, <1>1, <1>2 DEF Serve, CeilingsOwn, Stopping
<1>10. DownEmpty'
  BY <1>1, <1>3 DEF Serve, DownEmpty
<1>11. ServerTracked'
  BY <1>1, <1>2 DEF Serve, ServerTracked
<1> QED BY <1>4, <1>5, <1>6, <1>7, <1>8, <1>9, <1>10, <1>11 DEF Serve

\* The stop pops what it entered with, and ends the ceiling that goes with it.
LEMMA ServeStopPop ==
    ASSUME Typed, Serve, NEW p \in Procs, StopPop(p)
    PROVE  Serve'
<1>1. /\ UNCHANGED <<lock, server, up>> /\ op[p].pc = "writing"
      /\ live' = [live EXCEPT ![op[p].exp] = None]
  BY DEF StopPop
<1>2. /\ up /\ op[p].exp \in Experiments /\ op[p].srv \in Servers /\ op[p].srv \in Procs
      /\ lock[op[p].exp] = p /\ live[op[p].exp] = op[p].srv
  BY TypedServing, <1>1, BusyUp DEF Typed, OpShape, Serve, HoldersLock, HoldersKnow, Starting, Stopping
<1>3. /\ op'[p].pc = "removing" /\ op'[p].exp = op[p].exp /\ op'[p].srv = op[p].srv
      /\ op[p].srv # p => op'[op[p].srv].pc = "idle" /\ op'[op[p].srv].srv = None
      /\ \A q \in Procs \ {p, op[p].srv} : op'[q] = op[q]
  <2>1. op[p] \in OpRecords BY TypedServing
  <2> QED BY TypedServing, <1>2, <2>1, OpAtPc DEF StopPop, IdleOp, OpAt, OpStates
<1>4. live'[op[p].exp] = None /\ \A d \in Experiments \ {op[p].exp} : live'[d] = live[d]
  BY TypedServing, <1>1, <1>2
<1>5. server[op[p].srv].st = "up" /\ server[op[p].srv].exp = op[p].exp
  BY <1>2, SandboxAssumption DEF Serve, LiveUp
<1>6. UpOwned'
  BY <1>1 DEF Serve, UpOwned
<1>7. HoldersLock'
  BY <1>1, <1>3 DEF Serve, HoldersLock, Starting, Stopping
<1>8. HoldersKnow'
  BY <1>1, <1>3, <1>4 DEF Serve, HoldersKnow, HoldersLock, Starting, Stopping
<1>9. HandsUp'
  BY <1>1, <1>3, <1>5 DEF Serve, HandsUp, HoldersLock, Starting, Stopping
<1>10. LiveUp'
  BY <1>1 DEF Serve, LiveUp
<1>11. CeilingsOwn'
  BY TypedServing, <1>2, <1>3, <1>4 DEF Serve, CeilingsOwn, Stopping
<1>12. DownEmpty'
  BY <1>1, <1>2 DEF Serve, DownEmpty
<1>13. ServerTracked'
  <2> SUFFICES ASSUME NEW z \in Servers, up', server'[z].st = "up"
               PROVE  \/ live'[server'[z].exp] = z
                      \/ \E q \in Procs : /\ op'[q].pc \in {"probing", "removing"}
                                         /\ op'[q].srv = z
                                         /\ lock'[server'[z].exp] = q
    BY DEF ServerTracked
  <2>1. server[z].st = "up" /\ server'[z] = server[z] /\ server[z].exp \in Experiments
    BY <1>1 DEF Serve, UpOwned
  <2>2. CASE live[server[z].exp] = z
    BY <2>1, <2>2, <1>1, <1>2, <1>3, <1>4, <1>5
  <2>3. ASSUME NEW q \in Procs, op[q].pc \in {"probing", "removing"}, op[q].srv = z,
               lock[server[z].exp] = q
        PROVE  \/ live'[server'[z].exp] = z
               \/ \E p2 \in Procs : /\ op'[p2].pc \in {"probing", "removing"}
                                   /\ op'[p2].srv = z
                                   /\ lock'[server'[z].exp] = p2
    BY <1>1, <1>2, <1>3, <1>5, <2>3 DEF Serve, HandsUp, HoldersLock, CeilingsOwn, Starting, Stopping
  <2> QED BY <1>2, <2>1, <2>2, <2>3 DEF Serve, ServerTracked
<1> QED BY <1>6, <1>7, <1>8, <1>9, <1>10, <1>11, <1>12, <1>13 DEF Serve

\* The end of the process, the sweep and the boot.
LEMMA ServeWorld ==
    ASSUME Typed, Serve, ProcessExits \/ Boot \/ \E s \in Servers : SweepOne(s)
    PROVE  Serve'
<1>0. server \in [Servers -> ServerRecords] BY DEF Typed, TypeOK
<1>1. /\ ~ up \/ ~ up'
      /\ \A e \in Experiments : live'[e] = None /\ lock'[e] = None
      /\ \A p \in Procs : op'[p] = IdleOp
  BY DEF ProcessExits, Boot, SweepOne, serving, Serve, DownEmpty
<1>2. \A p \in Procs : op'[p].pc = "idle" /\ op'[p].srv = None
  BY <1>1 DEF IdleOp, OpAt
<1>3. HoldersLock' /\ HoldersKnow' /\ HandsUp'
  BY <1>2 DEF HoldersLock, HoldersKnow, HandsUp, Starting, Stopping
<1>4. LiveUp' /\ DownEmpty' BY <1>1 DEF LiveUp, DownEmpty
<1>5. CeilingsOwn' BY <1>2 DEF CeilingsOwn, Starting, Stopping, Procs
<1>6. UpOwned' /\ ServerTracked'
  <2>1. CASE ProcessExits BY <2>1 DEF ProcessExits, Serve, UpOwned, ServerTracked
  <2>2. CASE Boot BY <2>2 DEF Boot, Alive, serving, UpOwned, ServerTracked
  <2>3. ASSUME NEW s \in Servers, SweepOne(s) PROVE UpOwned' /\ ServerTracked'
    <3>1. ~ up' BY <2>3 DEF SweepOne
    <3>2. \A z \in Servers : server'[z].st = "up" => server'[z] = server[z]
      BY <2>3 DEF SweepOne, ServerRecords
    <3> QED BY <3>1, <3>2 DEF Serve, UpOwned, ServerTracked
  <2> QED BY <2>1, <2>2, <2>3
<1> QED BY <1>3, <1>4, <1>5, <1>6 DEF Serve

LEMMA RunsKeepServers ==
    ASSUME NEW r \in Runs,
           \/ RunStep(r) \/ RunFails(r) \/ RunnerExits(r)
           \/ \E e \in Experiments, t \in Tokens, f \in BOOLEAN : PostRunAll(r, e, t, f)
    PROVE  UNCHANGED <<live, lock, op, server, up>>
<1>1. CASE RunStep(r)
  BY <1>1 DEF RunStep, RunCheck, LoadRunSpec, ConsumeToken, LaunchContainer, RegisterRun,
     AnnounceRunning, StreamEnds, StreamTimesOut, ReapContainer, PopRun, WriteRunFiles,
     CommitRun, serving
<1>2. CASE RunFails(r)
  BY <1>2 DEF RunFails, LaunchFails, BroadcastRaises, ReapFails,
     WaitFails, WriteFails, serving
<1>3. CASE RunnerExits(r) BY <1>3 DEF RunnerExits, serving
<1>4. ASSUME NEW e \in Experiments, NEW t \in Tokens, NEW f \in BOOLEAN, PostRunAll(r, e, t, f)
      PROVE  UNCHANGED <<live, lock, op, server, up>>
  BY <1>4 DEF PostRunAll, serving
<1> QED BY <1>1, <1>2, <1>3, <1>4

LEMMA ServeKept == Typed /\ Serve /\ [Next]_vars => Serve'
<1> SUFFICES ASSUME Typed, Serve, [Next]_vars PROVE Serve' OBVIOUS
<1>1. CASE UNCHANGED vars BY <1>1, ServeFrame DEF vars
<1>2. CASE Next
  <2>1. ASSUME NEW e \in Experiments,
               \/ UpdateExperiment(e) \/ StopKernel(e)
               \/ \E t \in Tokens : Preview(t, e)
        PROVE  Serve'
    BY <2>1, ServeFrame DEF UpdateExperiment, StopKernel, Preview, serving
  <2>2. ASSUME NEW t \in Tokens, MintConfirmation(t) \/ ExpireToken(t) PROVE Serve'
    BY <2>2, ServeFrame DEF MintConfirmation, ExpireToken, serving
  <2>3. ASSUME NEW s \in Servers, NEW c \in Cells, LiveEdit(s, c) PROVE Serve'
    BY <2>3, ServeFrame DEF LiveEdit, serving
  <2>4. ASSUME NEW r \in Runs,
               \/ RunStep(r) \/ RunFails(r) \/ RunnerExits(r)
               \/ \E e \in Experiments, t \in Tokens, f \in BOOLEAN : PostRunAll(r, e, t, f)
        PROVE  Serve'
    BY <2>4, ServeFrame, RunsKeepServers
  <2>5. ASSUME NEW o \in Ops, NEW e \in Experiments,
               ProposeRead(o, e) \/ StartEnter(o, e) \/ StopEnter(o, e)
        PROVE  Serve'
    <3>1. CASE ProposeRead(o, e) BY <3>1, ServeProposeRead
    <3>2. o \in Procs BY DEF Procs
    <3> QED BY <2>5, <3>1, <3>2, ServeStartEnter, ServeStopEnter
  <2>6. ASSUME NEW o \in Ops, NEW c \in Cells, ProposeWrite(o, c) PROVE Serve'
    BY <2>6, ServeProposeWrite
  <2>7. ASSUME NEW p \in Procs, ServeStep(p) \/ ProbeFails(p) \/ SaveFails(p) \/ RemoveFails(p)
        PROVE  Serve'
    BY <2>7, ServeStartMoves, ServeStartContainer, ServeGivesUp, ServeDrops,
       ServeStartRegister, ServeSaveRead, ServeStopPop DEF ServeStep
  <2>8. ASSUME NEW s \in Servers, CeilingStep(s) PROVE Serve'
    <3>1. s \in Procs BY DEF Procs
    <3> QED BY <2>8, <3>1, ServeWake, ServeStopEnter DEF CeilingStep
  <2> QED
    BY <1>2, <2>1, <2>2, <2>3, <2>4, <2>5, <2>6, <2>7, <2>8, ServeWorld DEF Next
<1> QED BY <1>1, <1>2

LEMMA ServeInvariant == Spec => [](Typed /\ Serve)
<1>1. Init => Typed /\ Serve BY TypedInit, ServeInit
<1>2. Typed /\ Serve /\ [Next]_vars => (Typed /\ Serve)' BY TypedStep, ServeKept
<1> QED BY <1>1, <1>2, PTL DEF Spec

-----------------------------------------------------------------------------
\* Every running notebook server is registered, or in the hands of the start
\* or stop that holds its experiment's lock.
THEOREM ServersAreTracked == Spec => []ServerTracked
<1>1. Serve => ServerTracked BY DEF Serve
<1> QED BY <1>1, ServeInvariant, PTL

\* An experiment has one notebook server, however starts, stops and ceilings
\* overlap: a registered one excludes one in hand, and the lock has one holder.
THEOREM ServersHaveNoTwin == Spec => []OneServer
<1>1. ASSUME Typed, Serve PROVE OneServer
  <2> SUFFICES ASSUME NEW s1 \in Servers, NEW s2 \in Servers, up,
                      server[s1].st = "up", server[s2].st = "up",
                      server[s1].exp = server[s2].exp
               PROVE  s1 = s2
    BY DEF OneServer
  <2> DEFINE e == server[s1].exp
             InHand(s) == \E p \in Procs : /\ op[p].pc \in {"probing", "removing"}
                                          /\ op[p].srv = s /\ lock[e] = p
  <2>1. (live[e] = s1 \/ InHand(s1)) /\ (live[e] = s2 \/ InHand(s2))
    <3>1. live[e] = s1 \/ InHand(s1) BY <1>1 DEF Serve, ServerTracked
    <3>2. live[e] = s2 \/ InHand(s2) BY <1>1 DEF Serve, ServerTracked
    <3> QED BY <3>1, <3>2
  <2>2. InHand(s1) \/ InHand(s2) => live[e] = None
    <3>1. ASSUME NEW p \in Procs, NEW s \in {s1, s2},
                 op[p].pc \in {"probing", "removing"}, op[p].srv = s
          PROVE  live[e] = None
      <4>1. op[p].exp = e BY <1>1, <3>1 DEF Serve, HandsUp
      <4> QED BY <1>1, <3>1, <4>1 DEF Serve, HoldersKnow, Starting
    <3> QED BY <3>1
  <2>3. None \notin Servers BY SandboxAssumption
  <2> QED BY <2>1, <2>2, <2>3
<1> QED BY <1>1, ServeInvariant, PTL

\* No ceiling task ever has another server than its own in hand.
THEOREM CeilingsStopTheirOwn == Spec => []CeilingStopsItsOwn
<1>1. Serve => CeilingStopsItsOwn BY DEF Serve, CeilingsOwn, CeilingStopsItsOwn
<1> QED BY <1>1, ServeInvariant, PTL

=============================================================================

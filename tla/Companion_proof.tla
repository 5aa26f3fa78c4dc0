--------------------------- MODULE Companion_proof ---------------------------
(* The Companion pane (Companion): the socket of a project, the turn that   *)
(* speaks on it and what the pane shows of it, for every value of the       *)
(* constants.                                                               *)
EXTENDS Services_proof

-----------------------------------------------------------------------------
(* Companion.                                                               *)

Messages == Pane!Events
Panes == [inFlight : BOOLEAN, buffer : SUBSET Pane!Turns,
          entries : SUBSET SUBSET Pane!Turns, completed : SUBSET Pane!Turns]

\* Event a may be on its way before event b: turns come one after the other,
\* and the end of each is its last event.
Before(a, b) ==
    \/ "refused" \in {a.kind, b.kind}
    \/ a.turn < b.turn
    \/ a.turn = b.turn /\ a.kind # "complete" /\ b.kind # "delta"

InOrder(s) == \A j, k \in DOMAIN s : j < k => Before(s[j], s[k])

\* The pane q has yet to be told what event e says.
Fits(q, e) ==
    e.kind # "refused" =>
        /\ \A x \in q.entries \cup {q.buffer} : \A u \in x :
              u < e.turn \/ (u = e.turn /\ e.kind # "delta")
        /\ \A u \in q.completed : u < e.turn

\* What waits for its end has none yet, and an entry ends with the turn of it
\* that is complete.
Apart(q) ==
    /\ q.buffer \cap q.completed = {}
    /\ \A x \in q.entries : \A t, u \in x : t \in q.completed => u <= t

\* The pane q knows of no turn after n.
Knows(q, n) == \A x \in q.entries \cup {q.buffer, q.completed} : \A u \in x : u <= n

LEMMA TurnsAreNumbers == Pane!Turns \subseteq Nat /\ \A t \in Pane!Turns : t \in Nat
BY BoundsAreNumbers DEF Pane!Turns

\* An event changes the pane in one of three ways, or not at all.
LEMMA HandlesWhat ==
    ASSUME NEW q \in Panes, NEW e \in Messages
    PROVE  LET r == Pane!handleDownstream(q, e) IN
           /\ r \in Panes
           /\ e.kind = "delta" => /\ r.buffer = q.buffer \cup {e.turn}
                                  /\ r.entries = q.entries /\ r.completed = q.completed
           /\ e.kind = "complete" => /\ r.buffer = {}
                                     /\ r.entries \subseteq q.entries \cup {q.buffer}
                                     /\ r.completed = q.completed \cup {e.turn}
           /\ e.kind \in {"error", "refused"} =>
                 /\ r.buffer = q.buffer /\ r.entries = q.entries /\ r.completed = q.completed
<1>1. e.kind \in {"delta", "complete", "error", "refused"} /\ e.turn \in Pane!Turns
  BY DEF Messages, Pane!Events
<1>2. CASE e.kind = "delta" BY <1>1, <1>2 DEF Pane!handleDownstream, Panes
<1>3. CASE e.kind = "complete"
  BY <1>1, <1>3 DEF Pane!handleDownstream, Pane!Flushed, Panes
<1>4. CASE e.kind = "error" BY <1>1, <1>4 DEF Pane!handleDownstream, Panes
<1>5. CASE e.kind = "refused" BY <1>1, <1>5 DEF Pane!handleDownstream, Panes
<1> QED BY <1>1, <1>2, <1>3, <1>4, <1>5

LEMMA HandlesKnown ==
    ASSUME NEW q \in Panes, NEW e \in Messages, NEW n \in Nat, Knows(q, n), e.turn <= n
    PROVE  Knows(Pane!handleDownstream(q, e), n)
<1> DEFINE r == Pane!handleDownstream(q, e)
<1>1. e.kind \in {"delta", "complete", "error", "refused"} BY DEF Messages, Pane!Events
<1>2. r \in Panes
      /\ (e.kind = "delta" => r.buffer = q.buffer \cup {e.turn}
                                  /\ r.entries = q.entries /\ r.completed = q.completed)
      /\ (e.kind = "complete" => r.buffer = {}
                                     /\ r.entries \subseteq q.entries \cup {q.buffer}
                                     /\ r.completed = q.completed \cup {e.turn})
      /\ (e.kind \in {"error", "refused"} =>
                 r.buffer = q.buffer /\ r.entries = q.entries /\ r.completed = q.completed)
  BY HandlesWhat
<1> HIDE DEF r
<1>3. Knows(r, n) BY <1>1, <1>2 DEF Knows
<1> QED BY <1>3 DEF r

\* A pane takes an event that fits: it stays kept, and what may come after
\* that event still fits.
LEMMA HandlesInOrder ==
    ASSUME NEW q \in Panes, NEW e \in Messages, Apart(q), Fits(q, e)
    PROVE  /\ Apart(Pane!handleDownstream(q, e))
           /\ \A f \in Messages : Fits(q, f) /\ Before(e, f) => Fits(Pane!handleDownstream(q, e), f)
<1> DEFINE r == Pane!handleDownstream(q, e)
<1>1. /\ e.kind \in {"delta", "complete", "error", "refused"} /\ e.turn \in Nat
      /\ \A f \in Messages : f.turn \in Nat
  BY TurnsAreNumbers DEF Messages, Pane!Events
<1>2. r \in Panes
      /\ (e.kind = "delta" => r.buffer = q.buffer \cup {e.turn}
                                  /\ r.entries = q.entries /\ r.completed = q.completed)
      /\ (e.kind = "complete" => r.buffer = {}
                                     /\ r.entries \subseteq q.entries \cup {q.buffer}
                                     /\ r.completed = q.completed \cup {e.turn})
      /\ (e.kind \in {"error", "refused"} =>
                 r.buffer = q.buffer /\ r.entries = q.entries /\ r.completed = q.completed)
  BY HandlesWhat
<1>3. /\ \A x \in q.entries \cup {q.buffer} : \A u \in x : u \in Nat
      /\ \A u \in q.completed : u \in Nat
  BY TurnsAreNumbers DEF Panes
<1> HIDE DEF r
<1>4. CASE e.kind = "delta"
  <2>1. Apart(r) BY <1>1, <1>2, <1>3, <1>4 DEF Apart, Fits
  <2>2. ASSUME NEW f \in Messages, Fits(q, f), Before(e, f), f.kind # "refused" PROVE Fits(r, f)
    <3>1. e.turn < f.turn \/ (e.turn = f.turn /\ f.kind # "delta") BY <1>4, <2>2 DEF Before
    <3> QED BY <1>2, <1>4, <2>2, <3>1 DEF Fits
  <2>3. \A f \in Messages : f.kind = "refused" => Fits(r, f) BY DEF Fits
  <2> QED BY <2>1, <2>2, <2>3 DEF r
<1>5. CASE e.kind = "complete"
  <2>1. Apart(r) BY <1>1, <1>2, <1>3, <1>5 DEF Apart, Fits
  <2>2. ASSUME NEW f \in Messages, Fits(q, f), Before(e, f), f.kind # "refused" PROVE Fits(r, f)
    <3>1. e.turn < f.turn BY <1>5, <2>2 DEF Before
    <3> QED BY <1>2, <1>5, <2>2, <3>1 DEF Fits
  <2>3. \A f \in Messages : f.kind = "refused" => Fits(r, f) BY DEF Fits
  <2> QED BY <2>1, <2>2, <2>3 DEF r
<1>6. CASE e.kind \in {"error", "refused"}
  <2>1. Apart(r) BY <1>2, <1>6 DEF Apart
  <2>2. \A f \in Messages : Fits(q, f) => Fits(r, f) BY <1>2, <1>6 DEF Fits
  <2> QED BY <2>1, <2>2 DEF r
<1> QED BY <1>1, <1>4, <1>5, <1>6

-----------------------------------------------------------------------------
(* Applied is what its recursive definition says, and keeps what one event  *)
(* keeps.                                                                   *)

\* f is the pane q after each of the first l events.
Applies(f, q, es, l) ==
    f = [n \in 0 .. l |-> IF n = 0 THEN q ELSE Pane!handleDownstream(f[n - 1], es[n])]

LEMMA AppliedExists ==
    ASSUME NEW q, NEW es, NEW l \in Nat
    PROVE  \E f : Applies(f, q, es, l)
<1> DEFINE G(f, k) == Applies(f, q, es, k)
           S == {k \in Nat : \E f : G(f, k)}
<1>1. 0 \in S
  <2>1. G([n \in 0 .. 0 |-> q], 0) BY DEF Applies
  <2> QED BY <2>1, Zenon
<1>2. ASSUME NEW k \in Nat, k \in S PROVE k + 1 \in S
  <2>1. PICK f : G(f, k) BY <1>2
  <2> DEFINE g == [n \in 0 .. k + 1 |-> IF n = k + 1 THEN Pane!handleDownstream(f[k], es[n]) ELSE f[n]]
  <2>2. \A n \in 0 .. k : f[n] = IF n = 0 THEN q ELSE Pane!handleDownstream(f[n - 1], es[n])
    BY <2>1, Zenon DEF Applies
  <2>3. \A n \in 0 .. k + 1 : g[n] = IF n = 0 THEN q ELSE Pane!handleDownstream(g[n - 1], es[n])
    <3> SUFFICES ASSUME NEW n \in 0 .. k + 1
                 PROVE  g[n] = IF n = 0 THEN q ELSE Pane!handleDownstream(g[n - 1], es[n])
      OBVIOUS
    <3>1. CASE n = k + 1 BY <3>1
    <3>2. CASE n # k + 1
      <4>1. n \in 0 .. k /\ g[n] = f[n] BY <3>2
      <4>2. n # 0 => g[n - 1] = f[n - 1] BY <3>2
      <4> QED BY <2>2, <4>1, <4>2
    <3> QED BY <3>1, <3>2
  <2>4. G(g, k + 1)
    <3> HIDE DEF g
    <3>1. g = [n \in 0 .. k + 1 |-> g[n]] BY DEF g
    <3> QED BY <2>3, <3>1 DEF Applies
  <2> HIDE DEF g, G
  <2> QED BY <2>4
<1> HIDE DEF G, S
<1>3. \A k \in Nat : k \in S BY <1>1, <1>2, Induction
<1> QED BY <1>3, Zenon DEF G, S

LEMMA AppliedSteps ==
    ASSUME NEW q, NEW es, Len(es) \in Nat
    PROVE  \E f : /\ f[0] = q /\ Pane!Applied(q, es) = f[Len(es)]
                  /\ \A n \in 1 .. Len(es) : f[n] = Pane!handleDownstream(f[n - 1], es[n])
<1>1. \E f : Applies(f, q, es, Len(es)) BY AppliedExists
<1> DEFINE applied[n \in 0 .. Len(es)] ==
               IF n = 0 THEN q ELSE Pane!handleDownstream(applied[n - 1], es[n])
<1>2. applied = [n \in 0 .. Len(es) |-> IF n = 0 THEN q
                                        ELSE Pane!handleDownstream(applied[n - 1], es[n])]
  BY <1>1, Zenon DEF Applies
<1>3. Pane!Applied(q, es) = applied[Len(es)] BY Zenon DEF Pane!Applied
<1> HIDE DEF applied
<1>4. 0 \in 0 .. Len(es) /\ \A n \in 1 .. Len(es) : n \in 0 .. Len(es) /\ n # 0 OBVIOUS
<1>5. applied[0] = q BY <1>2, <1>4
<1>6. \A n \in 1 .. Len(es) : applied[n] = Pane!handleDownstream(applied[n - 1], es[n])
  BY <1>2, <1>4
<1> QED BY <1>3, <1>5, <1>6

LEMMA AppliedTyped ==
    ASSUME NEW q \in Panes, NEW es \in Seq(Messages), NEW n \in Nat, Knows(q, n),
           \A j \in DOMAIN es : es[j].turn <= n
    PROVE  Pane!Applied(q, es) \in Panes /\ Knows(Pane!Applied(q, es), n)
<1>1. Len(es) \in Nat /\ DOMAIN es = 1 .. Len(es) /\ \A j \in 1 .. Len(es) : es[j] \in Messages
  OBVIOUS
<1>2. PICK f : /\ f[0] = q /\ Pane!Applied(q, es) = f[Len(es)]
               /\ \A k \in 1 .. Len(es) : f[k] = Pane!handleDownstream(f[k - 1], es[k])
  BY <1>1, AppliedSteps
<1> DEFINE S == {k \in Nat : k <= Len(es) => f[k] \in Panes /\ Knows(f[k], n)}
<1>3. 0 \in S BY <1>2
<1>4. ASSUME NEW k \in Nat, k \in S PROVE k + 1 \in S
  <2> SUFFICES ASSUME k + 1 <= Len(es) PROVE f[k + 1] \in Panes /\ Knows(f[k + 1], n)
    OBVIOUS
  <2>1. f[k] \in Panes /\ Knows(f[k], n) BY <1>1, <1>4
  <2>2. k + 1 \in 1 .. Len(es) /\ k + 1 - 1 = k BY <1>1
  <2>3. es[k + 1] \in Messages /\ es[k + 1].turn <= n BY <1>1, <2>2
  <2>4. f[k + 1] = Pane!handleDownstream(f[k], es[k + 1]) BY <1>2, <2>2
  <2>5. Pane!handleDownstream(f[k], es[k + 1]) \in Panes BY <2>1, <2>3, HandlesWhat
  <2>6. Knows(Pane!handleDownstream(f[k], es[k + 1]), n) BY <2>1, <2>3, HandlesKnown
  <2> QED BY <2>4, <2>5, <2>6
<1> HIDE DEF S
<1>5. Len(es) \in S BY <1>1, <1>3, <1>4, Induction
<1> QED BY <1>1, <1>2, <1>5 DEF S

\* Events in order, all of which fit, leave the pane kept, and what may come
\* after all of them still fits.
LEMMA AppliedInOrder ==
    ASSUME NEW q \in Panes, NEW es \in Seq(Messages), Apart(q), InOrder(es),
           \A j \in DOMAIN es : Fits(q, es[j])
    PROVE  /\ Apart(Pane!Applied(q, es))
           /\ \A e \in Messages : Fits(q, e) /\ (\A j \in DOMAIN es : Before(es[j], e))
                                     => Fits(Pane!Applied(q, es), e)
<1>1. Len(es) \in Nat /\ DOMAIN es = 1 .. Len(es) /\ \A j \in 1 .. Len(es) : es[j] \in Messages
  OBVIOUS
<1>2. PICK f : /\ f[0] = q /\ Pane!Applied(q, es) = f[Len(es)]
               /\ \A k \in 1 .. Len(es) : f[k] = Pane!handleDownstream(f[k - 1], es[k])
  BY <1>1, AppliedSteps
<1> DEFINE Good(k) ==
               /\ f[k] \in Panes /\ Apart(f[k])
               /\ \A e \in Messages :
                     Fits(q, e) /\ (\A j \in 1 .. k : Before(es[j], e)) => Fits(f[k], e)
           S == {k \in Nat : k <= Len(es) => Good(k)}
<1>3. 0 \in S
  <2>1. Good(0) BY <1>2
  <2> QED BY <2>1
<1>4. ASSUME NEW k \in Nat, k \in S PROVE k + 1 \in S
  <2> SUFFICES ASSUME k + 1 <= Len(es) PROVE Good(k + 1)
    OBVIOUS
  <2>1. Good(k) BY <1>1, <1>4
  <2>2. k + 1 \in 1 .. Len(es) /\ k + 1 - 1 = k /\ \A j \in 1 .. k : j \in 1 .. Len(es) /\ j < k + 1
    BY <1>1
  <2>3. es[k + 1] \in Messages /\ Fits(q, es[k + 1])
        /\ \A j \in 1 .. k : Before(es[j], es[k + 1])
    BY <1>1, <2>2 DEF InOrder
  <2>4. f[k + 1] = Pane!handleDownstream(f[k], es[k + 1]) BY <1>2, <2>2
  <2>5. f[k] \in Panes /\ Apart(f[k]) /\ Fits(f[k], es[k + 1]) BY <2>1, <2>3
  <2>6. f[k + 1] \in Panes BY <2>3, <2>4, <2>5, HandlesWhat
  <2>7. /\ Apart(f[k + 1])
        /\ \A e \in Messages : Fits(f[k], e) /\ Before(es[k + 1], e) => Fits(f[k + 1], e)
    BY <2>3, <2>4, <2>5, HandlesInOrder
  <2>8. ASSUME NEW e \in Messages, Fits(q, e), \A j \in 1 .. k + 1 : Before(es[j], e)
        PROVE  Fits(f[k + 1], e)
    <3>1. \A j \in 1 .. k : j \in 1 .. k + 1 OBVIOUS
    <3>2. k + 1 \in 1 .. k + 1 OBVIOUS
    <3>3. Fits(f[k], e) BY <2>1, <2>8, <3>1
    <3> QED BY <2>7, <2>8, <3>2, <3>3
  <2> QED BY <2>6, <2>7, <2>8
<1> HIDE DEF S
<1>5. Len(es) \in S BY <1>1, <1>3, <1>4, Induction
<1>6. Good(Len(es)) BY <1>1, <1>5 DEF S
<1> QED BY <1>1, <1>2, <1>6

-----------------------------------------------------------------------------
(* The sockets, and the events on their way.                                *)

States == {"connecting", "open", "evicted", "closing", "closed"}
Sockets == [project : Projects, effect : 0 .. MaxSockets, state : States, wire : Seq(Messages)]
Serving == [turn : Pane!Turns, socket : 1 .. MaxSockets, pc : {"runs", "streamed", "ended"}]

\* Only an open socket gets events, or one that has some.
SameSockets(ss, rr) ==
    /\ rr \in Seq(Sockets) /\ Len(rr) = Len(ss)
    /\ \A i \in DOMAIN ss :
          /\ rr[i].project = ss[i].project /\ rr[i].effect = ss[i].effect
          /\ rr[i].state = ss[i].state
          /\ ss[i].state # "open" /\ ss[i].wire = <<>> => rr[i].wire = <<>>

\* No event is of a turn after n, and the pane knows of none.
AllKnown(ss, q, h, n) ==
    /\ Knows(q, n)
    /\ \A j \in DOMAIN h : h[j].turn <= n
    /\ \A i \in DOMAIN ss : \A k \in DOMAIN ss[i].wire : ss[i].wire[k].turn <= n

\* Everything held back or on its way is in order and fits.
Flows(ss, q, h) ==
    /\ InOrder(h) /\ \A j \in DOMAIN h : Fits(q, h[j])
    /\ \A i \in DOMAIN ss :
          /\ InOrder(ss[i].wire)
          /\ \A k \in DOMAIN ss[i].wire :
                Fits(q, ss[i].wire[k]) /\ \A j \in DOMAIN h : Before(h[j], ss[i].wire[k])

\* Event e may be sent now.
Expects(ss, q, h, e) ==
    /\ Fits(q, e) /\ \A j \in DOMAIN h : Before(h[j], e)
    /\ \A i \in DOMAIN ss : \A k \in DOMAIN ss[i].wire : Before(ss[i].wire[k], e)

\* The turn of project p will still be heard.
Speaks(ss, sl, p) ==
    sl[p] # None /\ sl[p].pc # "ended" /\ ss[sl[p].socket].state = "open"
NextEvent(s) == [kind |-> IF s.pc = "runs" THEN "delta" ELSE "complete", turn |-> s.turn]

Streaming(ss, q, h, sl) ==
    /\ Flows(ss, q, h) /\ Apart(q)
    /\ \A p \in Projects : Speaks(ss, sl, p) => Expects(ss, q, h, NextEvent(sl[p]))

\* Every turn is of its socket's project, and there is one of a number.
Served(ss, sl, n) == \A p \in Projects : sl[p] # None =>
    /\ sl[p].socket \in DOMAIN ss /\ ss[sl[p].socket].project = p
    /\ ss[sl[p].socket].state # "connecting" /\ sl[p].turn <= n

OneOfHook ==
    /\ \A i \in DOMAIN sockets : sockets[i].effect <= effect
    /\ ref # 0 => sockets[ref].effect = effect /\ sockets[ref].state # "closed"
    /\ Pane!OneSocket

\* Sockets of older effects are on their way out and say nothing any more.
OthersQuiet == \A i \in DOMAIN sockets :
    /\ sockets[i].state \in IF sockets[i].effect = effect THEN {"connecting", "open", "closed"}
                            ELSE {"closing", "closed"}
    /\ sockets[i].state # "open" => sockets[i].wire = <<>>

\* A message starts one turn, and one that waits has started none.
Counted == started <= sends /\ (queued => started < sends)

\* What every step of the pane, its hook and the turns keeps.
PaneInv ==
    /\ Pane!TypeOK /\ OneOfHook /\ Counted
    /\ historyLoaded => held = <<>>
    /\ Served(sockets, slot, started) /\ AllKnown(sockets, pane, held, started)
    /\ ~leaked => OthersQuiet /\ Streaming(sockets, pane, held, slot)

LEMMA PaneConsists == PaneInv => PaneConsistent
BY TurnsAreNumbers DEF PaneInv, PaneConsistent, Pane!PaneConsistent, OneOfHook, Pane!EntriesApart,
   Streaming, Apart, Pane!TypeOK

LEMMA SocketSet ==
    ASSUME NEW ss \in Seq(Sockets), NEW i \in DOMAIN ss, NEW r \in Sockets
    PROVE  /\ [ss EXCEPT ![i] = r] \in Seq(Sockets)
           /\ Len([ss EXCEPT ![i] = r]) = Len(ss) /\ DOMAIN [ss EXCEPT ![i] = r] = DOMAIN ss
           /\ [ss EXCEPT ![i] = r][i] = r
           /\ \A j \in DOMAIN ss \ {i} : [ss EXCEPT ![i] = r][j] = ss[j]
<1> HIDE DEF Sockets
<1> QED BY ExceptSeq

LEMMA EventsAppend ==
    ASSUME NEW s \in Seq(Messages), NEW e \in Messages
    PROVE  /\ Append(s, e) \in Seq(Messages) /\ DOMAIN Append(s, e) = 1 .. Len(s) + 1
           /\ DOMAIN s = 1 .. Len(s) /\ Len(s) \in Nat
           /\ Append(s, e)[Len(s) + 1] = e
           /\ \A k \in DOMAIN s : Append(s, e)[k] = s[k]
           /\ \A k \in DOMAIN Append(s, e) : k \in DOMAIN s \/ k = Len(s) + 1
           /\ \A k \in DOMAIN s : k # Len(s) + 1
<1> HIDE DEF Messages
<1> QED OBVIOUS

LEMMA InOrderAppend ==
    ASSUME NEW s \in Seq(Messages), NEW e \in Messages, InOrder(s),
           \A k \in DOMAIN s : Before(s[k], e)
    PROVE  InOrder(Append(s, e))
<1>1. /\ DOMAIN Append(s, e) = 1 .. Len(s) + 1 /\ DOMAIN s = 1 .. Len(s) /\ Len(s) \in Nat
      /\ Append(s, e)[Len(s) + 1] = e /\ \A k \in DOMAIN s : Append(s, e)[k] = s[k]
  BY EventsAppend
<1> SUFFICES ASSUME NEW j \in 1 .. Len(s) + 1, NEW k \in 1 .. Len(s) + 1, j < k
             PROVE  Before(Append(s, e)[j], Append(s, e)[k])
  BY <1>1, Zenon DEF InOrder
<1>2. j \in DOMAIN s BY <1>1
<1>3. CASE k = Len(s) + 1 BY <1>1, <1>2, <1>3
<1>4. CASE k # Len(s) + 1
  <2>1. k \in DOMAIN s BY <1>1, <1>4
  <2> QED BY <1>1, <1>2, <2>1 DEF InOrder
<1> QED BY <1>3, <1>4

LEMMA EventsTail ==
    ASSUME NEW s \in Seq(Messages), s # <<>>
    PROVE  /\ Head(s) = s[1] /\ Head(s) \in Messages /\ Tail(s) \in Seq(Messages)
           /\ 1 \in DOMAIN s /\ DOMAIN Tail(s) = 1 .. Len(s) - 1
           /\ \A k \in DOMAIN Tail(s) : k + 1 \in DOMAIN s /\ Tail(s)[k] = s[k + 1] /\ 1 < k + 1
<1> HIDE DEF Messages
<1> QED OBVIOUS

LEMMA PostedIs ==
    ASSUME NEW ss \in Seq(Sockets), NEW i \in DOMAIN ss,
           NEW kind \in {"delta", "complete", "error", "refused"}, NEW t \in Pane!Turns
    PROVE  LET r == Pane!Posted(ss, i, kind, t)
               e == [kind |-> kind, turn |-> t]
           IN  /\ SameSockets(ss, r) /\ DOMAIN r = DOMAIN ss /\ e \in Messages
               /\ \A j \in DOMAIN ss : j # i \/ ss[j].state # "open" => r[j] = ss[j]
               /\ ss[i].state = "open" => r[i].wire = Append(ss[i].wire, e)
<1> DEFINE r == Pane!Posted(ss, i, kind, t)
           e == [kind |-> kind, turn |-> t]
           d == [ss[i] EXCEPT !.wire = Append(ss[i].wire, e)]
<1>0. e \in Messages BY DEF Messages, Pane!Events
<1>1. DOMAIN ss = 1 .. Len(ss) /\ Len(ss) \in Nat /\ \A j \in DOMAIN ss : ss[j] \in Sockets
  <2> HIDE DEF Sockets
  <2> QED OBVIOUS
<1>2. CASE ss[i].state # "open"
  <2>1. r = ss BY <1>2, Zenon DEF Pane!Posted
  <2> QED BY <1>0, <1>2, <2>1 DEF SameSockets
<1>3. CASE ss[i].state = "open"
  <2>1. r = [ss EXCEPT ![i] = d] BY <1>3 DEF Pane!Posted
  <2>2. /\ d \in Sockets /\ d.wire = Append(ss[i].wire, e)
        /\ d.project = ss[i].project /\ d.effect = ss[i].effect /\ d.state = ss[i].state
    <3>1. ss[i].wire \in Seq(Messages) BY <1>1 DEF Sockets
    <3>2. Append(ss[i].wire, e) \in Seq(Messages) BY <1>0, <3>1, EventsAppend
    <3> HIDE DEF e
    <3> QED BY <1>1, <3>2 DEF Sockets
  <2> HIDE DEF d, e, r
  <2>3. /\ r \in Seq(Sockets) /\ Len(r) = Len(ss) /\ DOMAIN r = DOMAIN ss /\ r[i] = d
        /\ \A j \in DOMAIN ss \ {i} : r[j] = ss[j]
    BY <2>1, <2>2, SocketSet
  <2>4. SameSockets(ss, r) BY <1>3, <2>2, <2>3 DEF SameSockets
  <2>5. \A j \in DOMAIN ss : j # i \/ ss[j].state # "open" => r[j] = ss[j] BY <1>3, <2>3
  <2>6. SameSockets(ss, r) /\ DOMAIN r = DOMAIN ss /\ e \in Messages
        /\ (\A j \in DOMAIN ss : j # i \/ ss[j].state # "open" => r[j] = ss[j])
        /\ (ss[i].state = "open" => r[i].wire = Append(ss[i].wire, e))
    BY <1>0, <2>2, <2>3, <2>4, <2>5
  <2> QED BY <2>6 DEF r, e
<1> QED BY <1>2, <1>3

LEMMA PostedSame ==
    ASSUME NEW ss \in Seq(Sockets), NEW i \in DOMAIN ss,
           NEW kind \in {"delta", "complete", "error", "refused"}, NEW t \in Pane!Turns
    PROVE  /\ SameSockets(ss, Pane!Posted(ss, i, kind, t))
           /\ DOMAIN Pane!Posted(ss, i, kind, t) = DOMAIN ss
<1> DEFINE r == Pane!Posted(ss, i, kind, t)
           e == [kind |-> kind, turn |-> t]
<1>1. /\ SameSockets(ss, r) /\ DOMAIN r = DOMAIN ss /\ e \in Messages
      /\ \A j \in DOMAIN ss : j # i \/ ss[j].state # "open" => r[j] = ss[j]
      /\ ss[i].state = "open" => r[i].wire = Append(ss[i].wire, e)
  BY PostedIs
<1> QED BY <1>1

LEMMA DeltaPosted ==
    ASSUME NEW ss \in Seq(Sockets), NEW i \in DOMAIN ss, NEW t \in Pane!Turns
    PROVE  /\ SameSockets(ss, Pane!Posted(ss, i, "delta", t))
           /\ DOMAIN Pane!Posted(ss, i, "delta", t) = DOMAIN ss
<1> DEFINE k == "delta"
<1>1. k \in {"delta", "complete", "error", "refused"} OBVIOUS
<1> HIDE DEF k
<1>2. SameSockets(ss, Pane!Posted(ss, i, k, t)) /\ DOMAIN Pane!Posted(ss, i, k, t) = DOMAIN ss
  BY <1>1, PostedSame
<1> QED BY <1>2 DEF k

LEMMA RefusalPosted ==
    ASSUME NEW ss \in Seq(Sockets), NEW i \in DOMAIN ss, NEW t \in Pane!Turns
    PROVE  /\ SameSockets(ss, Pane!Posted(ss, i, "refused", t))
           /\ DOMAIN Pane!Posted(ss, i, "refused", t) = DOMAIN ss
<1> DEFINE k == "refused"
<1>1. k \in {"delta", "complete", "error", "refused"} OBVIOUS
<1> HIDE DEF k
<1>2. SameSockets(ss, Pane!Posted(ss, i, k, t)) /\ DOMAIN Pane!Posted(ss, i, k, t) = DOMAIN ss
  BY <1>1, PostedSame
<1> QED BY <1>2 DEF k

\* An event that is expected can be sent: everything stays in order.
LEMMA PostFlows ==
    ASSUME NEW ss \in Seq(Sockets), NEW i \in DOMAIN ss, NEW q, NEW h,
           NEW kind \in {"delta", "complete", "error", "refused"}, NEW t \in Pane!Turns,
           Flows(ss, q, h), Expects(ss, q, h, [kind |-> kind, turn |-> t])
    PROVE  /\ Flows(Pane!Posted(ss, i, kind, t), q, h)
           /\ \A f \in Messages :
                 Expects(ss, q, h, f) /\ Before([kind |-> kind, turn |-> t], f)
                     => Expects(Pane!Posted(ss, i, kind, t), q, h, f)
<1> DEFINE r == Pane!Posted(ss, i, kind, t)
           e == [kind |-> kind, turn |-> t]
<1>1. /\ SameSockets(ss, r) /\ DOMAIN r = DOMAIN ss /\ e \in Messages
      /\ \A j \in DOMAIN ss : j # i \/ ss[j].state # "open" => r[j] = ss[j]
      /\ ss[i].state = "open" => r[i].wire = Append(ss[i].wire, e)
  BY PostedIs
<1>2. \A j \in DOMAIN ss : ss[j].wire \in Seq(Messages)
  <2>1. \A j \in DOMAIN ss : ss[j] \in Sockets
    <3> HIDE DEF Sockets
    <3> QED OBVIOUS
  <2> QED BY <2>1 DEF Sockets
<1>3. Flows(ss, q, h) /\ Expects(ss, q, h, e) OBVIOUS
<1> HIDE DEF r, e
<1>4. ASSUME NEW j \in DOMAIN ss
      PROVE  r[j].wire = ss[j].wire \/ r[j].wire = Append(ss[j].wire, e)
  BY <1>1
<1>5. ASSUME NEW j \in DOMAIN ss
      PROVE  /\ InOrder(r[j].wire)
             /\ \A k \in DOMAIN r[j].wire :
                   (\E l \in DOMAIN ss[j].wire : r[j].wire[k] = ss[j].wire[l]) \/ r[j].wire[k] = e
  <2>1. CASE r[j].wire = ss[j].wire BY <1>3, <2>1 DEF Flows
  <2>2. CASE r[j].wire = Append(ss[j].wire, e)
    <3>1. ss[j].wire \in Seq(Messages) /\ e \in Messages BY <1>1, <1>2
    <3>2. InOrder(r[j].wire)
      <4>1. InOrder(ss[j].wire) /\ \A k \in DOMAIN ss[j].wire : Before(ss[j].wire[k], e)
        BY <1>3 DEF Flows, Expects
      <4> QED BY <2>2, <3>1, <4>1, InOrderAppend
    <3>3. \A k \in DOMAIN r[j].wire :
              (k \in DOMAIN ss[j].wire /\ r[j].wire[k] = ss[j].wire[k]) \/ r[j].wire[k] = e
      BY <2>2, <3>1, EventsAppend
    <3> QED BY <3>2, <3>3
  <2> QED BY <1>4, <2>1, <2>2
<1>6. Flows(r, q, h)
  <2>1. ASSUME NEW j \in DOMAIN ss, NEW k \in DOMAIN r[j].wire
        PROVE  Fits(q, r[j].wire[k]) /\ \A l \in DOMAIN h : Before(h[l], r[j].wire[k])
    BY <1>3, <1>5 DEF Flows, Expects
  <2> QED BY <1>1, <1>3, <1>5, <2>1 DEF Flows
<1>7. ASSUME NEW f \in Messages, Expects(ss, q, h, f), Before(e, f)
      PROVE  Expects(r, q, h, f)
  BY <1>1, <1>5, <1>7 DEF Expects
<1> QED BY <1>6, <1>7 DEF r, e

LEMMA PostKnown ==
    ASSUME NEW ss \in Seq(Sockets), NEW i \in DOMAIN ss, NEW q, NEW h, NEW n \in Nat,
           NEW kind \in {"delta", "complete", "error", "refused"}, NEW t \in Pane!Turns,
           AllKnown(ss, q, h, n), t <= n
    PROVE  AllKnown(Pane!Posted(ss, i, kind, t), q, h, n)
<1> DEFINE r == Pane!Posted(ss, i, kind, t)
           e == [kind |-> kind, turn |-> t]
<1>1. /\ DOMAIN r = DOMAIN ss /\ e \in Messages
      /\ \A j \in DOMAIN ss : j # i \/ ss[j].state # "open" => r[j] = ss[j]
      /\ ss[i].state = "open" => r[i].wire = Append(ss[i].wire, e)
  BY PostedIs
<1>2. \A j \in DOMAIN ss : ss[j].wire \in Seq(Messages)
  <2>1. \A j \in DOMAIN ss : ss[j] \in Sockets
    <3> HIDE DEF Sockets
    <3> QED OBVIOUS
  <2> QED BY <2>1 DEF Sockets
<1>3. e.turn <= n OBVIOUS
<1> HIDE DEF r, e
<1>4. ASSUME NEW j \in DOMAIN ss, NEW k \in DOMAIN r[j].wire PROVE r[j].wire[k].turn <= n
  <2>1. CASE r[j].wire = ss[j].wire BY <2>1 DEF AllKnown
  <2>2. CASE r[j].wire = Append(ss[j].wire, e)
    <3>1. ss[j].wire \in Seq(Messages) BY <1>2
    <3>2. (k \in DOMAIN ss[j].wire /\ r[j].wire[k] = ss[j].wire[k]) \/ r[j].wire[k] = e
      BY <1>1, <2>2, <3>1, EventsAppend
    <3> QED BY <1>3, <3>2 DEF AllKnown
  <2> QED BY <1>1, <2>1, <2>2
<1>5. AllKnown(r, q, h, n) BY <1>1, <1>4 DEF AllKnown
<1> QED BY <1>5 DEF r

\* A turn that nobody knows of may say anything.
LEMMA NewIsExpected ==
    ASSUME NEW ss, NEW q, NEW h, NEW n \in Nat, AllKnown(ss, q, h, n),
           NEW e, e.turn = n + 1, Knows(q, n), q \in Panes,
           h \in Seq(Messages), ss \in Seq(Sockets)
    PROVE  Expects(ss, q, h, e)
<1>0. \A f \in Messages : f.turn \in Nat BY TurnsAreNumbers DEF Messages, Pane!Events
<1>1. \A j \in DOMAIN h : h[j] \in Messages
  <2> HIDE DEF Messages
  <2> QED OBVIOUS
<1>2. \A i \in DOMAIN ss : \A k \in DOMAIN ss[i].wire : ss[i].wire[k] \in Messages
  <2>1. \A i \in DOMAIN ss : ss[i] \in Sockets
    <3> HIDE DEF Sockets
    <3> QED OBVIOUS
  <2>2. \A i \in DOMAIN ss : ss[i].wire \in Seq(Messages) BY <2>1 DEF Sockets
  <2> HIDE DEF Messages
  <2> QED BY <2>2
<1>3. Fits(q, e)
  <2>1. \A x \in q.entries \cup {q.buffer, q.completed} : \A u \in x : u \in Nat /\ u <= n
    BY TurnsAreNumbers DEF Panes, Knows
  <2>2. \A u \in Nat : u <= n => u < n + 1 OBVIOUS
  <2>3. \A x \in q.entries \cup {q.buffer, q.completed} : \A u \in x : u < n + 1
    BY <2>1, <2>2, Zenon
  <2> QED BY <2>3 DEF Fits
<1>4. \A f \in Messages : f.turn <= n => Before(f, e) BY <1>0 DEF Before
<1> QED BY <1>1, <1>2, <1>3, <1>4 DEF Expects, AllKnown

\* After a delta of its turn or nothing of it yet, the turn's end may come.
LEMMA EndIsExpected ==
    ASSUME NEW ss, NEW q, NEW h, NEW t, NEW k \in {"delta", "complete"},
           Expects(ss, q, h, [kind |-> k, turn |-> t])
    PROVE  /\ Expects(ss, q, h, [kind |-> "complete", turn |-> t])
           /\ Expects(ss, q, h, [kind |-> "error", turn |-> t])
<1> DEFINE e == [kind |-> k, turn |-> t]
<1>1. ASSUME NEW f, f.turn = t, f.kind \in {"complete", "error"} PROVE Expects(ss, q, h, f)
  <2>1. \A a : Before(a, e) => Before(a, f) BY <1>1 DEF Before
  <2>2. Fits(q, e) => Fits(q, f) BY <1>1 DEF Fits
  <2>3. Expects(ss, q, h, e) OBVIOUS
  <2> HIDE DEF e
  <2> QED BY <2>1, <2>2, <2>3 DEF Expects
<1> QED BY <1>1

LEMMA RefusalIsExpected ==
    ASSUME NEW ss, NEW q, NEW h, NEW t
    PROVE  Expects(ss, q, h, [kind |-> "refused", turn |-> t])
BY DEF Expects, Fits, Before

\* Where only the wires change, who serves and who is the hook's does not.
LEMMA SameHook ==
    ASSUME OneOfHook, SameSockets(sockets, sockets'), DOMAIN sockets' = DOMAIN sockets,
           ref \in 0 .. Len(sockets), Len(sockets) \in Nat, DOMAIN sockets = 1 .. Len(sockets),
           UNCHANGED <<ref, effect, timer>>
    PROVE  OneOfHook' /\ (OthersQuiet => OthersQuiet')
<1>1. ref # 0 => ref \in DOMAIN sockets OBVIOUS
<1>2. OneOfHook' BY <1>1 DEF OneOfHook, Pane!OneSocket, SameSockets
<1>3. OthersQuiet => OthersQuiet' BY DEF OthersQuiet, SameSockets
<1> QED BY <1>2, <1>3

LEMMA SameServed ==
    ASSUME NEW ss, NEW rr, NEW sl, NEW n, SameSockets(ss, rr), DOMAIN rr = DOMAIN ss, Served(ss, sl, n)
    PROVE  Served(rr, sl, n) /\ \A p \in Projects : Speaks(rr, sl, p) => Speaks(ss, sl, p)
BY DEF Served, Speaks, SameSockets

LEMMA PaneTypes ==
    Pane!TypeOK <=>
        /\ project \in Projects /\ effect \in 0 .. MaxSockets
        /\ timer \in BOOLEAN /\ connected \in BOOLEAN /\ queued \in BOOLEAN
        /\ Len(sockets) <= MaxSockets /\ ref \in 0 .. Len(sockets)
        /\ sockets \in Seq(Sockets) /\ pane \in Panes
        /\ historyLoaded \in BOOLEAN /\ held \in Seq(Messages)
        /\ slot \in [Projects -> {None} \cup Serving]
        /\ started \in 0 .. MaxSends + 1 /\ sends \in 0 .. MaxSends
        /\ drops \in 0 .. MaxDrops /\ leaked \in BOOLEAN
BY DEF Pane!TypeOK, Sockets, States, Panes, Messages, Serving

LEMMA PaneTypesNext ==
    ASSUME /\ project' \in Projects /\ effect' \in 0 .. MaxSockets
           /\ timer' \in BOOLEAN /\ connected' \in BOOLEAN /\ queued' \in BOOLEAN
           /\ Len(sockets') <= MaxSockets /\ ref' \in 0 .. Len(sockets')
           /\ sockets' \in Seq(Sockets) /\ pane' \in Panes
           /\ historyLoaded' \in BOOLEAN /\ held' \in Seq(Messages)
           /\ slot' \in [Projects -> {None} \cup Serving]
           /\ started' \in 0 .. MaxSends + 1 /\ sends' \in 0 .. MaxSends
           /\ drops' \in 0 .. MaxDrops /\ leaked' \in BOOLEAN
    PROVE  Pane!TypeOK'
BY DEF Pane!TypeOK, Sockets, States, Panes, Messages, Serving

LEMMA SocketsAre ==
    ASSUME NEW ss \in Seq(Sockets)
    PROVE  /\ Len(ss) \in Nat /\ DOMAIN ss = 1 .. Len(ss)
           /\ \A i \in DOMAIN ss : /\ ss[i] \in Sockets /\ ss[i].wire \in Seq(Messages)
                                   /\ ss[i].project \in Projects /\ ss[i].state \in States
                                   /\ ss[i].effect \in 0 .. MaxSockets
<1>1. /\ Len(ss) \in Nat /\ DOMAIN ss = 1 .. Len(ss) /\ \A i \in DOMAIN ss : ss[i] \in Sockets
  <2> HIDE DEF Sockets
  <2> QED OBVIOUS
<1> QED BY <1>1 DEF Sockets

\* With every switch in time, one socket at most is open.
LEMMA OneIsOpen ==
    ASSUME OneOfHook, OthersQuiet
    PROVE  /\ \A i, j \in DOMAIN sockets :
                 sockets[i].state \in {"connecting", "open"} /\ sockets[j].state \in {"connecting", "open"}
                     => i = j
           /\ \A i, j \in DOMAIN sockets : i # j /\ sockets[i].wire # <<>> => sockets[j].wire = <<>>
<1>1. \A i \in DOMAIN sockets : sockets[i].state \in {"connecting", "open"} => sockets[i].effect = effect
  BY DEF OthersQuiet
<1>2. \A i, j \in DOMAIN sockets :
         sockets[i].effect = effect /\ sockets[j].effect = effect
         /\ sockets[i].state # "closed" /\ sockets[j].state # "closed" => i = j
  BY DEF OneOfHook, Pane!OneSocket
<1>3. \A i \in DOMAIN sockets : sockets[i].wire # <<>> => sockets[i].state = "open" BY DEF OthersQuiet
<1> QED BY <1>1, <1>2, <1>3

\* No event is on its way in rr that is not in ss.
Quieter(ss, rr) == \A i \in DOMAIN rr :
    rr[i].wire = <<>> \/ (i \in DOMAIN ss /\ rr[i].wire = ss[i].wire)

LEMMA QuietFlows ==
    ASSUME NEW ss, NEW rr, NEW q, NEW h, Quieter(ss, rr)
    PROVE  /\ Flows(ss, q, h) => Flows(rr, q, h)
           /\ \A n : AllKnown(ss, q, h, n) => AllKnown(rr, q, h, n)
           /\ \A e : Expects(ss, q, h, e) => Expects(rr, q, h, e)
<1>1. DOMAIN <<>> = {} OBVIOUS
<1>2. InOrder(<<>>) BY <1>1 DEF InOrder
<1>3. Flows(ss, q, h) => Flows(rr, q, h) BY <1>1, <1>2 DEF Flows, Quieter
<1>4. ASSUME NEW n, AllKnown(ss, q, h, n) PROVE AllKnown(rr, q, h, n)
  BY <1>1, <1>4 DEF AllKnown, Quieter
<1>5. ASSUME NEW e, Expects(ss, q, h, e) PROVE Expects(rr, q, h, e)
  BY <1>1, <1>5 DEF Expects, Quieter
<1> QED BY <1>3, <1>4, <1>5

LEMMA QuietStreams ==
    ASSUME NEW ss, NEW rr, NEW q, NEW h, NEW sl, NEW sm, Quieter(ss, rr), Streaming(ss, q, h, sl),
           \A p \in Projects : Speaks(rr, sm, p) => Speaks(ss, sl, p) /\ sm[p] = sl[p]
    PROVE  Streaming(rr, q, h, sm)
<1>1. Flows(rr, q, h) BY QuietFlows DEF Streaming
<1>2. ASSUME NEW p \in Projects, Speaks(rr, sm, p) PROVE Expects(rr, q, h, NextEvent(sm[p]))
  BY <1>2, QuietFlows DEF Streaming
<1> QED BY <1>1, <1>2 DEF Streaming

\* What the pane shows of the turn in flight is no text.
LEMMA SameText ==
    ASSUME NEW q, NEW r, r.buffer = q.buffer, r.entries \subseteq q.entries, r.completed = q.completed
    PROVE  /\ \A n : Knows(q, n) => Knows(r, n)
           /\ \A e : Fits(q, e) => Fits(r, e)
           /\ Apart(q) => Apart(r)
<1>1. ASSUME NEW n, Knows(q, n) PROVE Knows(r, n) BY <1>1 DEF Knows
<1>2. ASSUME NEW e, Fits(q, e) PROVE Fits(r, e) BY <1>2 DEF Fits
<1>3. Apart(q) => Apart(r) BY DEF Apart
<1> QED BY <1>1, <1>2, <1>3

LEMMA FlushedText ==
    ASSUME NEW q \in Panes
    PROVE  LET r == Pane!Flushed(q) IN
           /\ r \in Panes
           /\ \A n : Knows(q, n) => Knows(r, n)
           /\ \A e : Fits(q, e) => Fits(r, e)
           /\ Apart(q) => Apart(r)
<1> DEFINE r == Pane!Flushed(q)
<1>1. /\ r \in Panes /\ r.buffer = {} /\ r.entries \subseteq q.entries \cup {q.buffer}
      /\ r.completed = q.completed
  BY DEF Pane!Flushed, Panes
<1> HIDE DEF r
<1>2. ASSUME NEW n, Knows(q, n) PROVE Knows(r, n) BY <1>1, <1>2 DEF Knows
<1>3. ASSUME NEW e, Fits(q, e) PROVE Fits(r, e) BY <1>1, <1>3 DEF Fits
<1>4. Apart(q) => Apart(r) BY <1>1 DEF Apart
<1> QED BY <1>1, <1>2, <1>3, <1>4 DEF r

\* Where all that fits one pane fits the other, so does all that flows.
LEMMA TextFlows ==
    ASSUME NEW q, NEW r, \A n : Knows(q, n) => Knows(r, n), \A e : Fits(q, e) => Fits(r, e),
           Apart(q) => Apart(r), NEW ss, NEW h
    PROVE  /\ \A n : AllKnown(ss, q, h, n) => AllKnown(ss, r, h, n)
           /\ \A sl : Streaming(ss, q, h, sl) => Streaming(ss, r, h, sl)
<1>1. ASSUME NEW n, AllKnown(ss, q, h, n) PROVE AllKnown(ss, r, h, n) BY <1>1 DEF AllKnown
<1>2. ASSUME NEW sl, Streaming(ss, q, h, sl) PROVE Streaming(ss, r, h, sl)
  <2>1. Flows(ss, r, h) BY <1>2 DEF Streaming, Flows
  <2>2. \A e : Expects(ss, q, h, e) => Expects(ss, r, h, e) BY DEF Expects
  <2> QED BY <1>2, <2>1, <2>2 DEF Streaming
<1> QED BY <1>1, <1>2

\* Of two projects whose turns will still be heard, there is one.
LEMMA OneSpeaks ==
    ASSUME OneOfHook, OthersQuiet, Served(sockets, slot, started),
           NEW p \in Projects, NEW o \in Projects,
           Speaks(sockets, slot, p), Speaks(sockets, slot, o)
    PROVE  p = o
<1>1. slot[p].socket \in DOMAIN sockets /\ slot[o].socket \in DOMAIN sockets BY DEF Served, Speaks
<1>2. slot[p].socket = slot[o].socket BY <1>1, OneIsOpen DEF Speaks
<1> QED BY <1>2 DEF Served, Speaks

\* A turn sends what is expected of it and goes on.
LEMMA SendsAndGoesOn ==
    ASSUME PaneInv, NEW p \in Projects, NEW from \in SUBSET {"runs", "streamed"}, NEW to \in {"streamed", "ended"}, NEW r,
           Pane!Step(p, from, to, r), SameSockets(sockets, r), DOMAIN r = DOMAIN sockets,
           AllKnown(r, pane, held, started),
           (slot[p] # None /\ Speaks(sockets, slot, p)) \/ r = sockets,
           ~leaked => /\ Flows(r, pane, held)
                      /\ to = "streamed" /\ Speaks(sockets, slot, p)
                            => Expects(r, pane, held, [kind |-> "complete", turn |-> slot[p].turn])
    PROVE  PaneInv'
<1>0. /\ slot[p] # None /\ slot[p].pc \in from /\ slot' = [slot EXCEPT ![p].pc = to] /\ sockets' = r
      /\ UNCHANGED <<project, effect, timer, ref, connected, queued, pane,
                     historyLoaded, held, started, sends, drops, leaked>>
  BY DEF Pane!Step
<1>1. /\ Pane!TypeOK /\ OneOfHook /\ Counted /\ (historyLoaded => held = <<>>)
      /\ Served(sockets, slot, started)
      /\ (~leaked => OthersQuiet /\ Streaming(sockets, pane, held, slot))
  BY DEF PaneInv
<1>2. /\ sockets \in Seq(Sockets) /\ slot \in [Projects -> {None} \cup Serving]
      /\ ref \in 0 .. Len(sockets)
  BY <1>1, PaneTypes
<1>3. slot[p] \in Serving BY <1>0, <1>2
<1>4. /\ slot' \in [Projects -> {None} \cup Serving]
      /\ slot'[p].pc = to /\ slot'[p].turn = slot[p].turn /\ slot'[p].socket = slot[p].socket
      /\ \A o \in Projects : o # p => slot'[o] = slot[o]
  BY <1>0, <1>2, <1>3 DEF Serving
<1>5. Len(sockets) \in Nat /\ DOMAIN sockets = 1 .. Len(sockets) BY <1>2, SocketsAre
<1>6. Pane!TypeOK'
  <2>1. r \in Seq(Sockets) /\ Len(r) = Len(sockets) BY DEF SameSockets
  <2> QED BY <1>0, <1>1, <1>4, <2>1, PaneTypes, PaneTypesNext
<1>7. OneOfHook' /\ (OthersQuiet => OthersQuiet') BY <1>0, <1>1, <1>2, <1>5, SameHook
<1>8. Counted' /\ (historyLoaded' => held' = <<>>) BY <1>0, <1>1 DEF Counted
<1>9. Served(r, slot, started) /\ \A o \in Projects : Speaks(r, slot, o) => Speaks(sockets, slot, o)
  BY <1>1, SameServed
<1>10. Served(r, slot', started)
  BY <1>0, <1>4, <1>9 DEF Served
<1>11. \A o \in Projects : Speaks(r, slot', o) =>
          (o # p /\ Speaks(r, slot, o)) \/ (o = p /\ to = "streamed" /\ Speaks(r, slot, p))
  BY <1>0, <1>4 DEF Speaks
<1>12. ASSUME ~leaked PROVE Streaming(r, pane, held, slot')
  <2>1. OthersQuiet /\ Flows(r, pane, held) /\ Apart(pane) /\ Streaming(sockets, pane, held, slot)
    BY <1>1, <1>12 DEF Streaming
  <2>2. ASSUME NEW o \in Projects, Speaks(r, slot', o) PROVE Expects(r, pane, held, NextEvent(slot'[o]))
    <3>1. CASE o = p
      <4>1. to = "streamed" /\ Speaks(sockets, slot, p) BY <1>9, <1>11, <2>2, <3>1
      <4> QED BY <1>4, <1>12, <3>1, <4>1 DEF NextEvent
    <3>2. CASE o # p
      <4>1. Speaks(sockets, slot, o) /\ slot'[o] = slot[o] BY <1>4, <1>9, <1>11, <2>2, <3>2
      <4>2. ~Speaks(sockets, slot, p) BY <1>1, <2>1, <3>2, <4>1, OneSpeaks
      <4>3. r = sockets BY <4>2
      <4> QED BY <2>1, <4>1, <4>3 DEF Streaming
    <3> QED BY <3>1, <3>2
  <2> QED BY <2>1, <2>2 DEF Streaming
<1> QED BY <1>0, <1>6, <1>7, <1>8, <1>10, <1>12, <1>1 DEF PaneInv

\* Nobody hears what a turn says whose socket is gone.
LEMMA PostedUnheard ==
    ASSUME NEW ss, NEW i, NEW kind, NEW t, ss[i].state # "open"
    PROVE  Pane!Posted(ss, i, kind, t) = ss
BY Zenon DEF Pane!Posted

LEMMA SentFacts ==
    ASSUME PaneInv, NEW p \in Projects, slot[p] # None, slot[p].pc # "ended"
    PROVE  /\ sockets \in Seq(Sockets) /\ slot[p].socket \in DOMAIN sockets
           /\ slot[p].turn \in Pane!Turns /\ slot[p].turn <= started /\ started \in Nat
           /\ AllKnown(sockets, pane, held, started)
           /\ Speaks(sockets, slot, p) \/ sockets[slot[p].socket].state # "open"
           /\ ~leaked /\ Speaks(sockets, slot, p) =>
                 /\ Flows(sockets, pane, held)
                 /\ Expects(sockets, pane, held, NextEvent(slot[p]))
                 /\ Expects(sockets, pane, held, [kind |-> "complete", turn |-> slot[p].turn])
                 /\ Expects(sockets, pane, held, [kind |-> "error", turn |-> slot[p].turn])
           /\ ~leaked => Flows(sockets, pane, held)
<1>1. sockets \in Seq(Sockets) /\ slot[p] \in Serving /\ started \in Nat
  BY PaneTypes, BoundsAreNumbers DEF PaneInv
<1>2. slot[p].socket \in DOMAIN sockets /\ slot[p].turn <= started /\ AllKnown(sockets, pane, held, started)
  BY DEF PaneInv, Served
<1>3. Speaks(sockets, slot, p) \/ sockets[slot[p].socket].state # "open" BY DEF Speaks
<1>4. slot[p].turn \in Pane!Turns BY <1>1 DEF Serving
<1>5. ~leaked => Flows(sockets, pane, held) BY DEF PaneInv, Streaming
<1>6. ASSUME ~leaked, Speaks(sockets, slot, p) PROVE Expects(sockets, pane, held, NextEvent(slot[p]))
  BY <1>6 DEF PaneInv, Streaming
<1>7. ASSUME ~leaked, Speaks(sockets, slot, p)
      PROVE /\ Expects(sockets, pane, held, [kind |-> "complete", turn |-> slot[p].turn])
            /\ Expects(sockets, pane, held, [kind |-> "error", turn |-> slot[p].turn])
  <2> DEFINE k == IF slot[p].pc = "runs" THEN "delta" ELSE "complete"
  <2>1. Expects(sockets, pane, held, [kind |-> k, turn |-> slot[p].turn]) BY <1>6, <1>7 DEF NextEvent
  <2>2. k \in {"delta", "complete"} OBVIOUS
  <2> HIDE DEF k
  <2> QED BY <2>1, <2>2, EndIsExpected
<1> QED BY <1>1, <1>2, <1>3, <1>4, <1>5, <1>6, <1>7

LEMMA PaneStreams ==
    ASSUME PaneInv, NEW p \in Projects, Pane!Streams(p)
    PROVE  PaneInv'
<1> DEFINE t == slot[p].turn
           i == slot[p].socket
           r == Pane!Posted(sockets, i, "delta", t)
<1>1. Pane!Step(p, {"runs"}, "streamed", r) BY DEF Pane!Streams, Pane!Sent
<1>2. slot[p] # None /\ slot[p].pc = "runs" BY <1>1 DEF Pane!Step
<1>3. /\ sockets \in Seq(Sockets) /\ i \in DOMAIN sockets
      /\ t \in Pane!Turns /\ t <= started /\ started \in Nat
      /\ AllKnown(sockets, pane, held, started)
      /\ Speaks(sockets, slot, p) \/ sockets[i].state # "open"
      /\ ~leaked /\ Speaks(sockets, slot, p) =>
            /\ Flows(sockets, pane, held)
            /\ Expects(sockets, pane, held, NextEvent(slot[p]))
            /\ Expects(sockets, pane, held, [kind |-> "complete", turn |-> t])
      /\ ~leaked => Flows(sockets, pane, held)
  BY <1>2, SentFacts
<1>4. NextEvent(slot[p]) = [kind |-> "delta", turn |-> t] BY <1>2 DEF NextEvent
<1> HIDE DEF t, i
<1>5. SameSockets(sockets, r) /\ DOMAIN r = DOMAIN sockets
  <2>1. sockets \in Seq(Sockets) /\ i \in DOMAIN sockets /\ t \in Pane!Turns BY <1>3
  <2> QED BY <2>1, DeltaPosted, Zenon
<1>6. AllKnown(r, pane, held, started) BY <1>3, PostKnown
<1>7. Speaks(sockets, slot, p) \/ r = sockets BY <1>3, PostedUnheard
<1>8. ASSUME ~leaked, Speaks(sockets, slot, p)
      PROVE  Flows(r, pane, held) /\ Expects(r, pane, held, [kind |-> "complete", turn |-> t])
  <2>1. Expects(sockets, pane, held, [kind |-> "delta", turn |-> t]) BY <1>3, <1>4, <1>8
  <2>2. Before([kind |-> "delta", turn |-> t], [kind |-> "complete", turn |-> t]) BY DEF Before
  <2>3. [kind |-> "complete", turn |-> t] \in Messages BY <1>3 DEF Messages, Pane!Events
  <2> QED BY <1>3, <1>8, <2>1, <2>2, <2>3, PostFlows
<1>9. ~leaked => Flows(r, pane, held) BY <1>3, <1>7, <1>8
<1> HIDE DEF r
<1> QED BY <1>1, <1>2, <1>5, <1>6, <1>7, <1>8, <1>9, SendsAndGoesOn DEF t

LEMMA PaneCompletes ==
    ASSUME PaneInv, NEW p \in Projects, Pane!Completes(p)
    PROVE  PaneInv'
<1> DEFINE t == slot[p].turn
           i == slot[p].socket
           r == Pane!Posted(sockets, i, "complete", t)
<1>1. Pane!Step(p, {"runs", "streamed"}, "ended", r) BY DEF Pane!Completes, Pane!Sent
<1>2. slot[p] # None /\ slot[p].pc # "ended" BY <1>1 DEF Pane!Step
<1>3. /\ sockets \in Seq(Sockets) /\ i \in DOMAIN sockets
      /\ t \in Pane!Turns /\ t <= started /\ started \in Nat
      /\ AllKnown(sockets, pane, held, started)
      /\ Speaks(sockets, slot, p) \/ sockets[i].state # "open"
      /\ ~leaked /\ Speaks(sockets, slot, p) =>
            Expects(sockets, pane, held, [kind |-> "complete", turn |-> t])
      /\ ~leaked => Flows(sockets, pane, held)
  BY <1>2, SentFacts
<1> HIDE DEF t, i
<1>5. SameSockets(sockets, r) /\ DOMAIN r = DOMAIN sockets BY <1>3, PostedIs
<1>6. AllKnown(r, pane, held, started) BY <1>3, PostKnown
<1>7. Speaks(sockets, slot, p) \/ r = sockets BY <1>3, PostedUnheard
<1>8. ASSUME ~leaked, Speaks(sockets, slot, p) PROVE Flows(r, pane, held)
  BY <1>3, <1>8, PostFlows
<1>9. ~leaked => Flows(r, pane, held) BY <1>3, <1>7, <1>8
<1> HIDE DEF r
<1>10. {"runs", "streamed"} \in SUBSET {"runs", "streamed"} /\ "ended" # "streamed" OBVIOUS
<1> QED BY <1>1, <1>2, <1>5, <1>6, <1>7, <1>9, <1>10, SendsAndGoesOn

LEMMA PaneFails ==
    ASSUME PaneInv, NEW p \in Projects, Pane!Fails(p)
    PROVE  PaneInv'
<1> DEFINE t == slot[p].turn
           i == slot[p].socket
           m == Pane!Posted(sockets, i, "error", t)
           r == Pane!Posted(m, i, "complete", t)
<1>1. Pane!Step(p, {"runs", "streamed"}, "ended", r) BY DEF Pane!Fails, Pane!Sent
<1>2. slot[p] # None /\ slot[p].pc # "ended" BY <1>1 DEF Pane!Step
<1>3. /\ sockets \in Seq(Sockets) /\ i \in DOMAIN sockets
      /\ t \in Pane!Turns /\ t <= started /\ started \in Nat
      /\ AllKnown(sockets, pane, held, started)
      /\ Speaks(sockets, slot, p) \/ sockets[i].state # "open"
      /\ ~leaked /\ Speaks(sockets, slot, p) =>
            /\ Expects(sockets, pane, held, [kind |-> "complete", turn |-> t])
            /\ Expects(sockets, pane, held, [kind |-> "error", turn |-> t])
      /\ ~leaked => Flows(sockets, pane, held)
  BY <1>2, SentFacts
<1> HIDE DEF t, i
<1>4. SameSockets(sockets, m) /\ DOMAIN m = DOMAIN sockets BY <1>3, PostedIs
<1>5. AllKnown(m, pane, held, started) BY <1>3, PostKnown
<1>6. m \in Seq(Sockets) /\ i \in DOMAIN m /\ m[i].state = sockets[i].state
  BY <1>3, <1>4 DEF SameSockets
<1>7. ASSUME ~leaked, Speaks(sockets, slot, p)
      PROVE  Flows(m, pane, held) /\ Expects(m, pane, held, [kind |-> "complete", turn |-> t])
  <2>1. Before([kind |-> "error", turn |-> t], [kind |-> "complete", turn |-> t]) BY DEF Before
  <2>2. [kind |-> "complete", turn |-> t] \in Messages BY <1>3 DEF Messages, Pane!Events
  <2> QED BY <1>3, <1>7, <2>1, <2>2, PostFlows
<1>8. Speaks(sockets, slot, p) \/ (m = sockets /\ r = sockets)
  BY <1>3, PostedUnheard
<1> HIDE DEF m
<1>9. SameSockets(m, r) /\ DOMAIN r = DOMAIN m BY <1>3, <1>6, PostedIs
<1>10. AllKnown(r, pane, held, started) BY <1>3, <1>5, <1>6, PostKnown
<1>11. ASSUME ~leaked, Speaks(sockets, slot, p) PROVE Flows(r, pane, held)
  BY <1>3, <1>6, <1>7, <1>11, PostFlows
<1>12. SameSockets(sockets, r)
  <2>1. \A j \in DOMAIN sockets : sockets[j].state # "open" /\ sockets[j].wire = <<>> =>
           m[j].state # "open" /\ m[j].wire = <<>> BY <1>4 DEF SameSockets
  <2> QED BY <1>4, <1>9, <2>1 DEF SameSockets
<1>13. ~leaked => Flows(r, pane, held) BY <1>3, <1>8, <1>11
<1> HIDE DEF r
<1>14. {"runs", "streamed"} \in SUBSET {"runs", "streamed"} /\ "ended" # "streamed" OBVIOUS
<1> QED BY <1>1, <1>2, <1>4, <1>8, <1>9, <1>10, <1>12, <1>13, <1>14, SendsAndGoesOn

\* A message on an open socket starts the turn after all others, or is refused.
LEMMA HandledKnown ==
    ASSUME NEW all \in Seq(Sockets), NEW i \in DOMAIN all, all[i].state = "open",
           pane \in Panes, held \in Seq(Messages), slot \in [Projects -> {None} \cup Serving],
           started \in Nat, started + 1 \in Pane!Turns, i \in 1 .. MaxSockets,
           Served(all, slot, started), AllKnown(all, pane, held, started),
           Pane!handle_message(all, i)
    PROVE  /\ SameSockets(all, sockets') /\ DOMAIN sockets' = DOMAIN all
           /\ started' = started + 1 /\ slot' \in [Projects -> {None} \cup Serving]
           /\ Served(sockets', slot', started')
           /\ AllKnown(sockets', pane, held, started')
<1> DEFINE p == all[i].project
<1>1. p \in Projects /\ started' = started + 1 /\ started' \in Nat /\ started' \in Pane!Turns
  BY SocketsAre DEF Pane!handle_message
<1>2. AllKnown(all, pane, held, started')
  <2>1. \A u \in Nat : u <= started => u <= started' BY <1>1
  <2>2. \A x \in pane.entries \cup {pane.buffer, pane.completed} : \A u \in x : u \in Nat
    BY TurnsAreNumbers DEF Panes
  <2>3. Knows(pane, started') BY <2>1, <2>2 DEF AllKnown, Knows
  <2>4. \A m \in Messages : m.turn \in Nat BY TurnsAreNumbers DEF Messages, Pane!Events
  <2>5. /\ \A j \in DOMAIN held : held[j] \in Messages
        /\ \A o \in DOMAIN all : \A k \in DOMAIN all[o].wire : all[o].wire[k] \in Messages
    <3>1. \A o \in DOMAIN all : all[o].wire \in Seq(Messages) BY SocketsAre
    <3> HIDE DEF Messages
    <3> QED BY <3>1
  <2> QED BY <2>1, <2>3, <2>4, <2>5 DEF AllKnown
<1>3. CASE slot[p] = None
  <2>1. /\ sockets' = all
        /\ slot' = [slot EXCEPT ![p] = [turn |-> started', socket |-> i, pc |-> "runs"]]
    BY <1>3 DEF Pane!handle_message
  <2>2. [turn |-> started', socket |-> i, pc |-> "runs"] \in Serving BY <1>1 DEF Serving
  <2>3. slot' \in [Projects -> {None} \cup Serving] BY <1>1, <2>1, <2>2
  <2>4. SameSockets(all, sockets') BY <2>1 DEF SameSockets
  <2>5. Served(all, slot', started')
    <3>1. \A o \in Projects \ {p} : slot'[o] = slot[o] BY <2>1
    <3>2. slot'[p] = [turn |-> started', socket |-> i, pc |-> "runs"] BY <1>1, <2>1
    <3>3. \A o \in Projects : slot[o] # None => slot[o].turn <= started'
      <4>1. \A o \in Projects : slot[o] # None => slot[o].turn \in Nat /\ slot[o].turn <= started
        BY TurnsAreNumbers DEF Served, Serving
      <4> QED BY <1>1, <4>1
    <3> QED BY <1>1, <3>1, <3>2, <3>3 DEF Served
  <2> QED BY <1>1, <1>2, <2>1, <2>3, <2>4, <2>5
<1>4. CASE slot[p] # None
  <2>1. sockets' = Pane!Posted(all, i, "refused", started') /\ slot' = slot
    BY <1>4 DEF Pane!handle_message
  <2>2. SameSockets(all, sockets') /\ DOMAIN sockets' = DOMAIN all BY <1>1, <2>1, RefusalPosted
  <2>3. AllKnown(sockets', pane, held, started')
    <3> DEFINE n == started'
    <3>1. n \in Nat /\ n <= n /\ n \in Pane!Turns /\ AllKnown(all, pane, held, n) BY <1>1, <1>2
    <3> HIDE DEF n
    <3>2. AllKnown(Pane!Posted(all, i, "refused", n), pane, held, n) BY <3>1, PostKnown
    <3> QED BY <2>1, <3>2 DEF n
  <2>4. Served(sockets', slot, started) BY <2>2, SameServed
  <2>5. Served(sockets', slot', started')
    <3>1. \A o \in Projects : slot[o] # None => slot[o].turn \in Nat BY TurnsAreNumbers DEF Serving
    <3> QED BY <1>1, <2>1, <2>4, <3>1 DEF Served
  <2> QED BY <1>1, <2>1, <2>2, <2>3, <2>5
<1> QED BY <1>3, <1>4

\* One socket at most of ss is open.
OneOpen(ss) == \A i, j \in DOMAIN ss : ss[i].state = "open" /\ ss[j].state = "open" => i = j

LEMMA HandledStreams ==
    ASSUME NEW all \in Seq(Sockets), NEW i \in DOMAIN all, all[i].state = "open",
           pane \in Panes, held \in Seq(Messages), slot \in [Projects -> {None} \cup Serving],
           started \in Nat, started + 1 \in Pane!Turns,
           Served(all, slot, started), AllKnown(all, pane, held, started),
           Pane!handle_message(all, i), OneOpen(all), Streaming(all, pane, held, slot)
    PROVE  Streaming(sockets', pane, held, slot')
<1> DEFINE p == all[i].project
           n == started + 1
<1>1. p \in Projects /\ started' = n /\ n \in Nat /\ n \in Pane!Turns
  BY SocketsAre DEF Pane!handle_message
<1>2. \A o \in Projects : Speaks(all, slot, o) => o = p BY DEF OneOpen, Served, Speaks
<1>3. Flows(all, pane, held) /\ Apart(pane) BY DEF Streaming
<1>4. CASE slot[p] = None
  <2>1. /\ sockets' = all
        /\ slot' = [slot EXCEPT ![p] = [turn |-> n, socket |-> i, pc |-> "runs"]]
    BY <1>1, <1>4 DEF Pane!handle_message
  <2>2. \A o \in Projects \ {p} : slot'[o] = slot[o] BY <2>1
  <2>3. slot'[p] = [turn |-> n, socket |-> i, pc |-> "runs"] BY <1>1, <2>1
  <2>4. \A o \in Projects : Speaks(all, slot', o) => o = p BY <1>2, <2>2 DEF Speaks
  <2>5. NextEvent(slot'[p]).turn = n BY <2>3 DEF NextEvent
  <2>6. Expects(all, pane, held, NextEvent(slot'[p])) 
    <3>1. Knows(pane, started) BY DEF AllKnown
    <3> HIDE DEF p
    <3> QED BY <2>5, <3>1, NewIsExpected
  <2> QED BY <1>3, <2>1, <2>4, <2>6 DEF Streaming
<1>5. CASE slot[p] # None
  <2> DEFINE r == Pane!Posted(all, i, "refused", n)
             e == [kind |-> "refused", turn |-> n]
  <2>1. sockets' = r /\ slot' = slot BY <1>1, <1>5 DEF Pane!handle_message
  <2>2. SameSockets(all, r) /\ DOMAIN r = DOMAIN all BY <1>1, RefusalPosted
  <2>3. Expects(all, pane, held, e) BY RefusalIsExpected
  <2>4. Flows(r, pane, held) /\ \A f \in Messages :
           Expects(all, pane, held, f) /\ Before(e, f) => Expects(r, pane, held, f)
    <3> HIDE DEF n
    <3> QED BY <1>1, <1>3, <2>3, PostFlows
  <2>5. \A f : Before(e, f) BY DEF Before
  <2>6. \A o \in Projects : Speaks(r, slot, o) => Speaks(all, slot, o) BY <2>2, SameServed
  <2> HIDE DEF r, e
  <2>7. ASSUME NEW o \in Projects, Speaks(r, slot, o) PROVE Expects(r, pane, held, NextEvent(slot[o]))
    <3>1. Expects(all, pane, held, NextEvent(slot[o])) BY <2>6, <2>7 DEF Streaming
    <3>2. NextEvent(slot[o]) \in Messages
      <4>1. slot[o] \in Serving BY <2>7 DEF Speaks
      <4> QED BY <4>1 DEF NextEvent, Serving, Messages, Pane!Events
    <3> QED BY <2>4, <2>5, <3>1, <3>2
  <2> QED BY <1>3, <2>1, <2>4, <2>7 DEF Streaming
<1> QED BY <1>4, <1>5

LEMMA PaneSends ==
    ASSUME PaneInv, Pane!sendMessage
    PROVE  PaneInv'
<1>1. /\ sends < MaxSends /\ sends' = sends + 1
      /\ UNCHANGED <<project, effect, timer, ref, connected, historyLoaded, held, drops, leaked>>
  BY DEF Pane!sendMessage
<1>2. /\ Pane!TypeOK /\ OneOfHook /\ Counted /\ (historyLoaded => held = <<>>)
      /\ Served(sockets, slot, started) /\ AllKnown(sockets, pane, held, started)
      /\ (~leaked => OthersQuiet /\ Streaming(sockets, pane, held, slot))
  BY DEF PaneInv
<1>3. /\ sockets \in Seq(Sockets) /\ slot \in [Projects -> {None} \cup Serving]
      /\ ref \in 0 .. Len(sockets) /\ pane \in Panes /\ held \in Seq(Messages)
      /\ started \in Nat /\ sends \in Nat /\ MaxSends \in Nat /\ MaxSockets \in Nat
      /\ Len(sockets) <= MaxSockets
  BY <1>2, PaneTypes, BoundsAreNumbers
<1>4. Len(sockets) \in Nat /\ DOMAIN sockets = 1 .. Len(sockets) BY <1>3, SocketsAre
<1>5. sends' \in 0 .. MaxSends BY <1>1, <1>3
<1>6. CASE ref # 0 /\ sockets[ref].state = "open"
  <2>1. /\ Pane!handle_message(sockets, ref) /\ queued' = queued
        /\ pane' = [pane EXCEPT !.inFlight = TRUE]
    BY <1>6 DEF Pane!sendMessage
  <2>2. ref \in DOMAIN sockets /\ ref \in 1 .. MaxSockets BY <1>3, <1>4, <1>6
  <2>3. started + 1 \in Pane!Turns /\ started + 1 <= sends'
    BY <1>1, <1>2, <1>3 DEF Counted, Pane!Turns
  <2>4. /\ SameSockets(sockets, sockets') /\ DOMAIN sockets' = DOMAIN sockets
        /\ started' = started + 1 /\ slot' \in [Projects -> {None} \cup Serving]
        /\ Served(sockets', slot', started') /\ AllKnown(sockets', pane, held, started')
    BY <1>2, <1>3, <1>6, <2>1, <2>2, <2>3, HandledKnown
  <2>5. /\ pane' \in Panes /\ pane'.buffer = pane.buffer /\ pane'.entries \subseteq pane.entries
        /\ pane'.completed = pane.completed
    BY <1>3, <2>1 DEF Panes
  <2>6. /\ \A n : Knows(pane, n) => Knows(pane', n) 
        /\ \A e : Fits(pane, e) => Fits(pane', e)
        /\ Apart(pane) => Apart(pane')
    BY <2>5, SameText
  <2>7. AllKnown(sockets', pane', held, started') BY <2>4, <2>6, TextFlows
  <2>8. ASSUME ~leaked PROVE Streaming(sockets', pane', held, slot')
    <3>1. OneOpen(sockets) BY <1>2, <2>8, OneIsOpen DEF OneOpen
    <3>2. Streaming(sockets', pane, held, slot')
      BY <1>2, <1>3, <1>6, <2>1, <2>2, <2>3, <2>8, <3>1, HandledStreams
    <3> QED BY <2>6, <3>2, TextFlows
  <2>9. Pane!TypeOK'
    <3>1. started' \in 0 .. MaxSends + 1 BY <2>3, <2>4, <1>3 DEF Pane!Turns
    <3>2. sockets' \in Seq(Sockets) /\ Len(sockets') = Len(sockets) BY <2>4 DEF SameSockets
    <3> QED BY <1>1, <1>2, <1>5, <2>1, <2>4, <2>5, <3>1, <3>2, PaneTypes, PaneTypesNext
  <2>10. Counted' BY <1>1, <1>2, <1>3, <2>1, <2>3, <2>4 DEF Counted
  <2>11. OneOfHook' /\ (OthersQuiet => OthersQuiet') BY <1>1, <1>2, <1>3, <1>4, <2>4, SameHook
  <2> QED BY <1>1, <1>2, <2>4, <2>7, <2>8, <2>9, <2>10, <2>11 DEF PaneInv
<1>7. CASE ~(ref # 0 /\ sockets[ref].state = "open")
  <2>1. queued' = TRUE /\ UNCHANGED <<sockets, slot, started, pane>> BY <1>7 DEF Pane!sendMessage
  <2>2. Pane!TypeOK' BY <1>1, <1>2, <1>5, <2>1, PaneTypes, PaneTypesNext
  <2>3. Counted' BY <1>1, <1>2, <1>3, <2>1 DEF Counted
  <2>4. OneOfHook' /\ (OthersQuiet => OthersQuiet')
    BY <1>1, <1>2, <2>1 DEF OneOfHook, OthersQuiet, Pane!OneSocket
  <2> QED BY <1>1, <1>2, <2>1, <2>2, <2>3, <2>4 DEF PaneInv
<1> QED BY <1>6, <1>7

LEMMA SocketChanged ==
    ASSUME NEW s \in Sockets, NEW st \in States
    PROVE  /\ [s EXCEPT !.state = st, !.wire = <<>>] \in Sockets
           /\ [s EXCEPT !.state = st, !.wire = <<>>].project = s.project
           /\ [s EXCEPT !.state = st, !.wire = <<>>].effect = s.effect
           /\ [s EXCEPT !.state = st, !.wire = <<>>].state = st
           /\ [s EXCEPT !.state = st, !.wire = <<>>].wire = <<>>
           /\ [s EXCEPT !.state = st] \in Sockets
           /\ [s EXCEPT !.state = st].project = s.project
           /\ [s EXCEPT !.state = st].effect = s.effect
           /\ [s EXCEPT !.state = st].state = st
           /\ [s EXCEPT !.state = st].wire = s.wire
<1> DEFINE e == <<>>
           W == Seq(Messages)
<1>1. e \in W OBVIOUS
<1>2. Sockets = [project : Projects, effect : 0 .. MaxSockets, state : States, wire : W]
  BY DEF Sockets
<1> HIDE DEF e, W
<1>3. [s EXCEPT !.state = st] \in Sockets BY <1>2
<1>4. /\ [s EXCEPT !.state = st].project = s.project
      /\ [s EXCEPT !.state = st].effect = s.effect
      /\ [s EXCEPT !.state = st].state = st
      /\ [s EXCEPT !.state = st].wire = s.wire
  BY <1>2
<1>5. [s EXCEPT !.state = st, !.wire = e] \in Sockets BY <1>1, <1>2
<1>6. /\ [s EXCEPT !.state = st, !.wire = e].project = s.project
      /\ [s EXCEPT !.state = st, !.wire = e].effect = s.effect
      /\ [s EXCEPT !.state = st, !.wire = e].state = st
      /\ [s EXCEPT !.state = st, !.wire = e].wire = e
  BY <1>2
<1> QED BY <1>3, <1>4, <1>5, <1>6 DEF e

LEMMA PaneFacts ==
    ASSUME PaneInv
    PROVE  /\ Pane!TypeOK /\ OneOfHook /\ Counted /\ (historyLoaded => held = <<>>)
           /\ Served(sockets, slot, started) /\ AllKnown(sockets, pane, held, started)
           /\ (~leaked => OthersQuiet /\ Streaming(sockets, pane, held, slot))
           /\ sockets \in Seq(Sockets) /\ slot \in [Projects -> {None} \cup Serving]
           /\ ref \in 0 .. Len(sockets) /\ pane \in Panes /\ held \in Seq(Messages)
           /\ started \in Nat /\ sends \in Nat /\ MaxSends \in Nat /\ MaxSockets \in Nat
           /\ Len(sockets) <= MaxSockets /\ Len(sockets) \in Nat
           /\ DOMAIN sockets = 1 .. Len(sockets)
           /\ effect \in 0 .. MaxSockets /\ effect \in Nat /\ project \in Projects
<1>1. Pane!TypeOK BY DEF PaneInv
<1>2. /\ sockets \in Seq(Sockets) /\ slot \in [Projects -> {None} \cup Serving]
      /\ ref \in 0 .. Len(sockets) /\ pane \in Panes /\ held \in Seq(Messages)
      /\ started \in Nat /\ sends \in Nat /\ MaxSends \in Nat /\ MaxSockets \in Nat
      /\ Len(sockets) <= MaxSockets
      /\ effect \in 0 .. MaxSockets /\ project \in Projects
  BY <1>1, PaneTypes, BoundsAreNumbers
<1>3. Len(sockets) \in Nat /\ DOMAIN sockets = 1 .. Len(sockets) BY <1>2, SocketsAre
<1> QED BY <1>1, <1>2, <1>3 DEF PaneInv

LEMMA PaneFrees ==
    ASSUME PaneInv, NEW p \in Projects, Pane!Frees(p)
    PROVE  PaneInv'
<1>1. /\ slot' = [slot EXCEPT ![p] = None]
      /\ UNCHANGED <<project, effect, timer, sockets, ref, connected, queued, pane,
                     historyLoaded, held, started, sends, drops, leaked>>
  BY DEF Pane!Frees, Pane!hook
<1>2. Pane!TypeOK' BY <1>1, PaneFacts, PaneTypes, PaneTypesNext
<1>3. slot'[p] = None /\ \A o \in Projects \ {p} : slot'[o] = slot[o] BY <1>1, PaneFacts
<1>4. Served(sockets', slot', started') BY <1>1, <1>3, PaneFacts DEF Served
<1>5. Quieter(sockets, sockets') BY <1>1 DEF Quieter
<1>6. \A o \in Projects : Speaks(sockets', slot', o) => Speaks(sockets, slot, o) /\ slot'[o] = slot[o]
  BY <1>1, <1>3 DEF Speaks
<1>7. ~leaked => Streaming(sockets', pane, held, slot') BY <1>5, <1>6, PaneFacts, QuietStreams
<1>8. OneOfHook' /\ (OthersQuiet => OthersQuiet')
  BY <1>1, PaneFacts DEF OneOfHook, OthersQuiet, Pane!OneSocket
<1> QED BY <1>1, <1>2, <1>4, <1>7, <1>8, PaneFacts DEF PaneInv, Counted

LEMMA PaneConnects ==
    ASSUME PaneInv, Pane!connect
    PROVE  PaneInv'
<1> DEFINE new == [project |-> project, effect |-> effect, state |-> "connecting", wire |-> <<>>]
           n == Len(sockets) + 1
<1>1. /\ timer /\ Len(sockets) < MaxSockets /\ timer' = FALSE
      /\ sockets' = Append(sockets, new) /\ ref' = Len(sockets')
      /\ UNCHANGED <<project, effect, connected, queued, pane, historyLoaded, held,
                     slot, started, sends, drops, leaked>>
  BY DEF Pane!connect
<1>2. new \in Sockets BY PaneFacts DEF Sockets, States
<1>3. /\ sockets' \in Seq(Sockets) /\ Len(sockets') = n /\ DOMAIN sockets' = 1 .. n
      /\ sockets'[n] = new /\ \A i \in DOMAIN sockets : sockets'[i] = sockets[i]
      /\ \A i \in DOMAIN sockets' : i \in DOMAIN sockets \/ i = n
      /\ DOMAIN sockets \subseteq DOMAIN sockets' /\ n \notin DOMAIN sockets /\ n \in DOMAIN sockets'
      /\ n # 0 /\ n <= MaxSockets /\ n \in 0 .. n
  <2> HIDE DEF Sockets, new
  <2> QED BY <1>1, <1>2, PaneFacts
<1>4. /\ new.project = project /\ new.effect = effect /\ new.state = "connecting" /\ new.wire = <<>>
  OBVIOUS
<1> HIDE DEF new, n
<1>5. Pane!TypeOK'
  <2>1. Pane!TypeOK /\ timer' \in BOOLEAN /\ ref' \in 0 .. Len(sockets') BY <1>1, <1>3, PaneFacts
  <2> QED BY <1>1, <1>3, <2>1, PaneTypes, PaneTypesNext
<1>6. OneOfHook'
  <2>1. OneOfHook BY PaneFacts
  <2>2. \A i \in DOMAIN sockets : sockets[i].effect = effect => sockets[i].state = "closed"
    BY <1>1, <2>1 DEF OneOfHook, Pane!OneSocket
  <2>3. \A i \in DOMAIN sockets' : sockets'[i].effect <= effect
    BY <1>3, <1>4, <2>1, PaneFacts DEF OneOfHook
  <2>4. Pane!OneSocket' BY <1>1, <1>3, <1>4, <2>2 DEF Pane!OneSocket
  <2> QED BY <1>1, <1>3, <1>4, <2>3, <2>4 DEF OneOfHook
<1>7. Served(sockets', slot', started')
  <2>1. Served(sockets, slot, started) BY PaneFacts
  <2> QED BY <1>1, <1>3, <2>1 DEF Served
<1>8. Quieter(sockets, sockets') BY <1>3, <1>4 DEF Quieter
<1>9. AllKnown(sockets', pane', held', started') BY <1>1, <1>8, PaneFacts, QuietFlows
<1>10. ASSUME ~leaked PROVE OthersQuiet' /\ Streaming(sockets', pane', held', slot')
  <2>1. Served(sockets, slot, started) /\ OthersQuiet /\ Streaming(sockets, pane, held, slot)
    BY <1>10, PaneFacts
  <2>2. \A o \in Projects : Speaks(sockets', slot, o) => Speaks(sockets, slot, o)
    BY <1>3, <2>1 DEF Speaks, Served
  <2>3. OthersQuiet' BY <1>1, <1>3, <1>4, <2>1 DEF OthersQuiet
  <2>4. Streaming(sockets', pane, held, slot) BY <1>8, <2>1, <2>2, QuietStreams
  <2> QED BY <1>1, <2>3, <2>4
<1> QED BY <1>1, <1>5, <1>6, <1>7, <1>9, <1>10, PaneFacts DEF PaneInv, Counted

LEMMA PaneCloses ==
    ASSUME PaneInv, NEW i \in DOMAIN sockets, Pane!onclose(i)
    PROVE  PaneInv'
<1> DEFINE new == [sockets[i] EXCEPT !.state = "closed", !.wire = <<>>]
<1>1. /\ sockets' = [sockets EXCEPT ![i] = new] /\ Pane!Closing(i)
      /\ connected' = FALSE /\ ref' = 0
      /\ timer' = (timer \/ sockets[i].effect = effect)
      /\ pane' = IF connected /\ pane.inFlight THEN Pane!Flushed(pane) ELSE pane
      /\ UNCHANGED <<project, effect, queued, historyLoaded, held, slot, started, sends, leaked>>
  <2>1. Pane!Closed(i, sockets[i].effect = effect) BY DEF Pane!onclose
  <2> QED BY <2>1 DEF Pane!Closed
<1>2. sockets[i] \in Sockets BY PaneFacts, SocketsAre
<1>3. new \in Sockets /\ new.project = sockets[i].project /\ new.effect = sockets[i].effect
      /\ new.state = "closed" /\ new.wire = <<>>
  <2>1. "closed" \in States BY DEF States
  <2> QED BY <1>2, <2>1, SocketChanged
<1> HIDE DEF new
<1>4. /\ sockets' \in Seq(Sockets) /\ Len(sockets') = Len(sockets) /\ DOMAIN sockets' = DOMAIN sockets
      /\ sockets'[i] = new /\ \A j \in DOMAIN sockets \ {i} : sockets'[j] = sockets[j]
  BY <1>1, <1>3, PaneFacts, SocketSet
<1>5. /\ pane' \in Panes /\ (\A n : Knows(pane, n) => Knows(pane', n))
      /\ (\A e : Fits(pane, e) => Fits(pane', e)) /\ (Apart(pane) => Apart(pane'))
  <2>1. pane \in Panes BY PaneFacts
  <2> QED BY <1>1, <2>1, FlushedText
<1>6. Pane!TypeOK'
  <2>1. drops' \in 0 .. MaxDrops
    <3>1. drops \in 0 .. MaxDrops /\ MaxDrops \in Nat BY PaneFacts, PaneTypes, BoundsAreNumbers
    <3>2. drops' = drops \/ (drops < MaxDrops /\ drops' = drops + 1) BY <1>1 DEF Pane!Closing
    <3> QED BY <3>1, <3>2
  <2>2. Pane!TypeOK /\ timer' \in BOOLEAN /\ ref' \in 0 .. Len(sockets')
    <3>1. timer \in BOOLEAN BY PaneFacts, PaneTypes
    <3> QED BY <1>1, <1>4, <3>1, PaneFacts
  <2> QED BY <1>1, <1>4, <1>5, <2>1, <2>2, PaneTypes, PaneTypesNext
<1>7. OneOfHook'
  <2>1. OneOfHook BY PaneFacts
  <2>2. \A j \in DOMAIN sockets' : sockets'[j].effect <= effect BY <1>3, <1>4, <2>1 DEF OneOfHook
  <2>3. \A j, k \in DOMAIN sockets : sockets[j].effect = effect /\ sockets[j].state # "closed"
            /\ sockets[k].effect = effect /\ sockets[k].state # "closed" => j = k
    BY <2>1 DEF OneOfHook, Pane!OneSocket
  <2>4. \A j \in DOMAIN sockets' : sockets'[j].state # "closed" =>
            j # i /\ sockets'[j] = sockets[j]
    BY <1>3, <1>4
  <2>5. sockets[i].state # "closed" BY <1>1 DEF Pane!Closing
  <2>6. timer => \A j \in DOMAIN sockets : sockets[j].effect = effect => sockets[j].state = "closed"
    BY <2>1 DEF OneOfHook, Pane!OneSocket
  <2>7. timer' => \A j \in DOMAIN sockets' : sockets'[j].effect = effect => sockets'[j].state = "closed"
    BY <1>1, <1>4, <2>3, <2>4, <2>5, <2>6
  <2>8. Pane!OneSocket' BY <1>1, <1>4, <2>3, <2>4, <2>7 DEF Pane!OneSocket
  <2> QED BY <1>1, <2>2, <2>8 DEF OneOfHook
<1>8. Served(sockets', slot', started')
  <2>1. Served(sockets, slot, started) BY PaneFacts
  <2> QED BY <1>1, <1>3, <1>4, <2>1 DEF Served
<1>9. Quieter(sockets, sockets') BY <1>3, <1>4 DEF Quieter
<1>10. AllKnown(sockets', pane', held', started')
  <2>1. AllKnown(sockets', pane, held, started) BY <1>9, PaneFacts, QuietFlows
  <2> QED BY <1>1, <1>5, <2>1, TextFlows
<1>11. ASSUME ~leaked PROVE OthersQuiet' /\ Streaming(sockets', pane', held', slot')
  <2>1. OthersQuiet /\ Streaming(sockets, pane, held, slot) BY <1>11, PaneFacts
  <2>2. \A o \in Projects : slot[o] # None => slot[o].socket \in DOMAIN sockets
    BY PaneFacts DEF Served
  <2>3. \A o \in Projects : Speaks(sockets', slot, o) => Speaks(sockets, slot, o)
    BY <1>3, <1>4, <2>2 DEF Speaks
  <2>4. OthersQuiet' BY <1>1, <1>3, <1>4, <2>1 DEF OthersQuiet
  <2>5. Streaming(sockets', pane, held, slot) BY <1>9, <2>1, <2>3, QuietStreams
  <2>6. Streaming(sockets', pane', held, slot) BY <1>5, <2>5, TextFlows
  <2> QED BY <1>1, <2>4, <2>6
<1> QED BY <1>1, <1>6, <1>7, <1>8, <1>10, <1>11, PaneFacts DEF PaneInv, Counted

LEMMA PaneSwitches ==
    ASSUME PaneInv, NEW p \in Projects, Pane!switchProject(p)
    PROVE  PaneInv'
<1>1. /\ effect < MaxSockets - 1
      /\ project' = p /\ effect' = effect + 1 /\ timer' = TRUE /\ ref' = 0
      /\ sockets' = IF ref = 0 THEN sockets
                    ELSE [sockets EXCEPT ![ref].state = "closing", ![ref].wire = <<>>]
      /\ leaked' = (leaked \/ (ref = 0 /\ \E i \in DOMAIN sockets :
                        sockets[i].effect = effect /\ sockets[i].state \in {"connecting", "open"}))
      /\ historyLoaded' = FALSE /\ held' = <<>>
      /\ UNCHANGED <<connected, queued, pane, slot, started, sends, drops>>
  BY DEF Pane!switchProject
<1>2. /\ sockets' \in Seq(Sockets) /\ Len(sockets') = Len(sockets) /\ DOMAIN sockets' = DOMAIN sockets
      /\ \A j \in DOMAIN sockets :
            \/ sockets'[j] = sockets[j] /\ j # ref
            \/ j = ref /\ sockets'[j].project = sockets[j].project /\ sockets'[j].effect = sockets[j].effect
               /\ sockets'[j].state = "closing" /\ sockets'[j].wire = <<>>
  <2>1. CASE ref = 0 BY <1>1, <2>1, PaneFacts
  <2>2. CASE ref # 0
    <3> DEFINE new == [sockets[ref] EXCEPT !.state = "closing", !.wire = <<>>]
    <3>1. ref \in DOMAIN sockets BY <2>2, PaneFacts
    <3>2. sockets[ref] \in Sockets BY <3>1, PaneFacts, SocketsAre
    <3>3. new \in Sockets /\ new.project = sockets[ref].project /\ new.effect = sockets[ref].effect
          /\ new.state = "closing" /\ new.wire = <<>>
      <4>1. "closing" \in States BY DEF States
      <4> QED BY <3>2, <4>1, SocketChanged
    <3>4. sockets' = [sockets EXCEPT ![ref] = new] BY <1>1, <2>2
    <3> HIDE DEF new
    <3>5. /\ sockets' \in Seq(Sockets) /\ Len(sockets') = Len(sockets) /\ DOMAIN sockets' = DOMAIN sockets
          /\ sockets'[ref] = new /\ \A j \in DOMAIN sockets \ {ref} : sockets'[j] = sockets[j]
      BY <3>1, <3>3, <3>4, PaneFacts, SocketSet
    <3> QED BY <3>3, <3>5
  <2> QED BY <2>1, <2>2
<1>3. Pane!TypeOK'
  <2>1. effect' \in 0 .. MaxSockets /\ ref' \in 0 .. Len(sockets') BY <1>1, <1>2, PaneFacts
  <2>2. leaked' \in BOOLEAN /\ timer' \in BOOLEAN /\ historyLoaded' \in BOOLEAN
    <3>1. leaked \in BOOLEAN BY PaneFacts, PaneTypes
    <3> QED BY <1>1, <3>1
  <2>3. Pane!TypeOK /\ held' \in Seq(Messages) BY <1>1, PaneFacts
  <2> QED BY <1>1, <1>2, <2>1, <2>2, <2>3, PaneTypes, PaneTypesNext
<1>4. OneOfHook'
  <2>1. \A j \in DOMAIN sockets : sockets[j].effect \in Nat /\ sockets[j].effect <= effect
    <3>1. \A j \in DOMAIN sockets : sockets[j].effect \in Nat BY PaneFacts, SocketsAre
    <3> QED BY <3>1, PaneFacts DEF OneOfHook
  <2>2. \A j \in DOMAIN sockets' : sockets'[j].effect \in Nat /\ sockets'[j].effect <= effect
    BY <1>2, <2>1
  <2>3. \A j \in DOMAIN sockets' : sockets'[j].effect <= effect' /\ sockets'[j].effect # effect'
    BY <1>1, <2>2, PaneFacts
  <2> QED BY <1>1, <2>3 DEF OneOfHook, Pane!OneSocket
<1>5. Served(sockets', slot', started')
  <2>1. Served(sockets, slot, started) BY PaneFacts
  <2> QED BY <1>1, <1>2, <2>1 DEF Served
<1>6. Quieter(sockets, sockets') BY <1>2 DEF Quieter
<1>7. AllKnown(sockets', pane', held', started')
  <2>1. AllKnown(sockets', pane, held, started) BY <1>6, PaneFacts, QuietFlows
  <2>2. DOMAIN held' = {} BY <1>1
  <2> QED BY <1>1, <2>1, <2>2 DEF AllKnown
<1>8. ASSUME ~leaked' PROVE OthersQuiet' /\ Streaming(sockets', pane', held', slot')
  <2>1. ~leaked /\ OthersQuiet /\ Streaming(sockets, pane, held, slot) BY <1>1, <1>8, PaneFacts
  <2>2. \A j \in DOMAIN sockets : j # ref => sockets[j].state \in {"closing", "closed"}
    <3>1. CASE ref = 0
      <4>1. \A j \in DOMAIN sockets :
               ~(sockets[j].effect = effect /\ sockets[j].state \in {"connecting", "open"})
        BY <1>1, <1>8, <3>1
      <4> QED BY <2>1, <4>1 DEF OthersQuiet
    <3>2. CASE ref # 0
      <4>1. ref \in DOMAIN sockets /\ sockets[ref].effect = effect /\ sockets[ref].state # "closed"
        BY <3>2, PaneFacts DEF OneOfHook
      <4>2. \A j \in DOMAIN sockets : sockets[j].effect = effect /\ sockets[j].state # "closed" => j = ref
        BY <4>1, PaneFacts DEF OneOfHook, Pane!OneSocket
      <4> QED BY <2>1, <4>2 DEF OthersQuiet
    <3> QED BY <3>1, <3>2
  <2>3. \A j \in DOMAIN sockets' : sockets'[j].state \in {"closing", "closed"} /\ sockets'[j].wire = <<>>
    BY <1>2, <2>1, <2>2 DEF OthersQuiet
  <2>4. \A j \in DOMAIN sockets' : sockets'[j].effect # effect'
    <3>1. \A j \in DOMAIN sockets : sockets[j].effect \in Nat /\ sockets[j].effect <= effect
      <4>1. \A j \in DOMAIN sockets : sockets[j].effect \in Nat BY PaneFacts, SocketsAre
      <4> QED BY <4>1, PaneFacts DEF OneOfHook
    <3>2. \A j \in DOMAIN sockets' : sockets'[j].effect \in Nat /\ sockets'[j].effect <= effect
      BY <1>2, <3>1
    <3> QED BY <1>1, <3>2, PaneFacts
  <2>5. OthersQuiet' BY <2>3, <2>4 DEF OthersQuiet
  <2>6. DOMAIN held' = {} /\ DOMAIN <<>> = {} BY <1>1
  <2>7. Flows(sockets', pane, held') BY <2>3, <2>6 DEF Flows, InOrder
  <2>8. \A o \in Projects : slot[o] # None => slot[o].socket \in DOMAIN sockets'
    BY <1>2, PaneFacts DEF Served
  <2>9. \A o \in Projects : ~Speaks(sockets', slot, o) BY <2>3, <2>8 DEF Speaks
  <2>10. Streaming(sockets', pane, held', slot) BY <2>1, <2>7, <2>9 DEF Streaming
  <2> QED BY <1>1, <2>5, <2>10
<1> QED BY <1>1, <1>3, <1>4, <1>5, <1>7, <1>8, PaneFacts DEF PaneInv, Counted

\* Opening a socket changes no wire; the only socket that opens is i.
LEMMA Registers ==
    ASSUME PaneInv, NEW i \in DOMAIN sockets, sockets[i].state = "connecting"
    PROVE  LET all == Pane!Registered(i) IN
           /\ all \in Seq(Sockets) /\ Len(all) = Len(sockets) /\ DOMAIN all = DOMAIN sockets
           /\ \A j \in DOMAIN sockets :
                 /\ all[j].project = sockets[j].project /\ all[j].effect = sockets[j].effect
                 /\ all[j].wire = sockets[j].wire
                 /\ all[j].state \in States
                 /\ all[j].state = "closed" <=> sockets[j].state = "closed"
                 /\ all[j].state = "connecting" => sockets[j].state = "connecting"
                 /\ j # i /\ all[j].state = "open" => sockets[j].state = "open"
                 /\ sockets[j].state # "open" /\ j # i => all[j].state = sockets[j].state
           /\ all[i].state = "open"
<1> DEFINE all == Pane!Registered(i)
<1>1. sockets \in Seq(Sockets) /\ Len(sockets) \in Nat /\ DOMAIN sockets = 1 .. Len(sockets)
      /\ \A j \in DOMAIN sockets : sockets[j] \in Sockets
  BY PaneFacts, SocketsAre
<1>2. "open" \in States /\ "evicted" \in States BY DEF States
<1>3. all = [j \in DOMAIN sockets |->
        IF j = i THEN [sockets[j] EXCEPT !.state = "open"]
        ELSE IF sockets[j].state = "open" /\ sockets[j].project = sockets[i].project
             THEN [sockets[j] EXCEPT !.state = "evicted"]
             ELSE sockets[j]]
  BY DEF Pane!Registered
<1> HIDE DEF all
<1>4. \A j \in DOMAIN sockets :
         /\ [sockets[j] EXCEPT !.state = "open"] \in Sockets
         /\ [sockets[j] EXCEPT !.state = "open"].project = sockets[j].project
         /\ [sockets[j] EXCEPT !.state = "open"].effect = sockets[j].effect
         /\ [sockets[j] EXCEPT !.state = "open"].state = "open"
         /\ [sockets[j] EXCEPT !.state = "open"].wire = sockets[j].wire
         /\ [sockets[j] EXCEPT !.state = "evicted"] \in Sockets
         /\ [sockets[j] EXCEPT !.state = "evicted"].project = sockets[j].project
         /\ [sockets[j] EXCEPT !.state = "evicted"].effect = sockets[j].effect
         /\ [sockets[j] EXCEPT !.state = "evicted"].state = "evicted"
         /\ [sockets[j] EXCEPT !.state = "evicted"].wire = sockets[j].wire
  BY <1>1, <1>2, SocketChanged
<1>5. \A j \in DOMAIN sockets : sockets[j].state \in States BY <1>1 DEF Sockets
<1>6. DOMAIN all = DOMAIN sockets BY <1>3
<1>7. \A j \in DOMAIN sockets :
         \/ j = i /\ all[j] = [sockets[j] EXCEPT !.state = "open"]
         \/ j # i /\ sockets[j].state = "open" /\ all[j] = [sockets[j] EXCEPT !.state = "evicted"]
         \/ j # i /\ all[j] = sockets[j]
  BY <1>3
<1>8. ASSUME NEW j \in DOMAIN sockets
      PROVE  /\ all[j] \in Sockets
             /\ all[j].project = sockets[j].project /\ all[j].effect = sockets[j].effect
             /\ all[j].wire = sockets[j].wire
             /\ \/ j = i /\ all[j].state = "open"
                \/ j # i /\ sockets[j].state = "open" /\ all[j].state = "evicted"
                \/ j # i /\ all[j].state = sockets[j].state
  <2>1. CASE j = i /\ all[j] = [sockets[j] EXCEPT !.state = "open"]
    <3> DEFINE r == [sockets[j] EXCEPT !.state = "open"]
    <3>1. r \in Sockets /\ r.project = sockets[j].project /\ r.effect = sockets[j].effect
          /\ r.state = "open" /\ r.wire = sockets[j].wire
      BY <1>4
    <3>2. j = i /\ all[j] = r BY <2>1
    <3> HIDE DEF r
    <3> QED BY <3>1, <3>2
  <2>2. CASE j # i /\ sockets[j].state = "open" /\ all[j] = [sockets[j] EXCEPT !.state = "evicted"]
    <3> DEFINE r == [sockets[j] EXCEPT !.state = "evicted"]
    <3>1. r \in Sockets /\ r.project = sockets[j].project /\ r.effect = sockets[j].effect
          /\ r.state = "evicted" /\ r.wire = sockets[j].wire
      BY <1>4
    <3>2. j # i /\ sockets[j].state = "open" /\ all[j] = r BY <2>2
    <3> HIDE DEF r
    <3> QED BY <3>1, <3>2
  <2>3. CASE j # i /\ all[j] = sockets[j] BY <1>1, <2>3
  <2> QED BY <1>7, <2>1, <2>2, <2>3
<1>9. all \in Seq(Sockets) /\ Len(all) = Len(sockets)
  <2>1. all = [j \in 1 .. Len(sockets) |-> all[j]] BY <1>1, <1>3, <1>6
  <2> HIDE DEF Sockets
  <2>2. all \in Seq(Sockets) BY <1>1, <1>8, <2>1
  <2> QED BY <1>1, <1>6, <2>2
<1>10. \A j \in DOMAIN sockets : all[j].state \in States BY <1>2, <1>5, <1>8
<1> QED BY <1>6, <1>8, <1>9, <1>10 DEF all

LEMMA PaneOpens ==
    ASSUME PaneInv, NEW i \in DOMAIN sockets, Pane!onopen(i)
    PROVE  PaneInv'
<1> DEFINE all == Pane!Registered(i)
<1>1. /\ sockets[i].state = "connecting"
      /\ connected' = (connected \/ sockets[i].effect = effect)
      /\ UNCHANGED <<project, effect, timer, ref, historyLoaded, held, sends, drops, leaked>>
  BY DEF Pane!onopen
<1>2. \/ /\ queued /\ ref = i /\ queued' = FALSE /\ pane' = [pane EXCEPT !.inFlight = TRUE]
         /\ Pane!handle_message(all, i)
      \/ /\ queued' = FALSE /\ pane' = [pane EXCEPT !.inFlight = TRUE]
         /\ sockets' = all /\ UNCHANGED <<slot, started>>
      \/ /\ sockets' = all /\ UNCHANGED <<queued, pane, slot, started>>
  BY Zenon DEF Pane!onopen
<1>3. /\ all \in Seq(Sockets) /\ Len(all) = Len(sockets) /\ DOMAIN all = DOMAIN sockets
      /\ \A j \in DOMAIN sockets :
            /\ all[j].project = sockets[j].project /\ all[j].effect = sockets[j].effect
            /\ all[j].wire = sockets[j].wire
            /\ all[j].state \in States
            /\ all[j].state = "closed" <=> sockets[j].state = "closed"
            /\ all[j].state = "connecting" => sockets[j].state = "connecting"
            /\ j # i /\ all[j].state = "open" => sockets[j].state = "open"
            /\ sockets[j].state # "open" /\ j # i => all[j].state = sockets[j].state
      /\ all[i].state = "open"
  BY <1>1, Registers
<1> HIDE DEF all
<1>4. Served(all, slot, started)
  <2>1. Served(sockets, slot, started) BY PaneFacts
  <2> QED BY <1>3, <2>1 DEF Served
<1>5. Quieter(sockets, all) BY <1>3 DEF Quieter
<1>6. AllKnown(all, pane, held, started) BY <1>5, PaneFacts, QuietFlows
<1>7. \A o \in Projects : Speaks(all, slot, o) => Speaks(sockets, slot, o)
  <2>1. Served(sockets, slot, started) BY PaneFacts
  <2> QED BY <1>1, <1>3, <2>1 DEF Speaks, Served
<1>8. ASSUME ~leaked PROVE Streaming(all, pane, held, slot)
  BY <1>5, <1>7, <1>8, PaneFacts, QuietStreams
<1>9. ASSUME ~leaked
      PROVE  /\ OneOpen(all)
             /\ \A j \in DOMAIN sockets : j # i => sockets[j].state \in {"closing", "closed"}
                                                   /\ all[j].state = sockets[j].state
             /\ sockets[i].effect = effect
  <2>1. OneOfHook /\ OthersQuiet BY <1>9, PaneFacts
  <2>2. sockets[i].effect = effect BY <1>1, <2>1 DEF OthersQuiet
  <2>3. \A j \in DOMAIN sockets : j # i => sockets[j].state \notin {"connecting", "open"}
    BY <1>1, <2>1, OneIsOpen
  <2>4. \A j \in DOMAIN sockets : j # i => sockets[j].state \in {"closing", "closed"}
    BY <2>1, <2>3 DEF OthersQuiet
  <2>5. OneOpen(all) BY <1>3, <2>4 DEF OneOpen
  <2> QED BY <1>3, <2>2, <2>4, <2>5
\* With the rest as it was, sockets that differ from all in no state will do.
<1>10. ASSUME SameSockets(all, sockets'), DOMAIN sockets' = DOMAIN all
       PROVE  OneOfHook' /\ (~leaked => OthersQuiet')
  <2>1. \A j \in DOMAIN sockets : /\ sockets'[j].effect = sockets[j].effect
                                  /\ sockets'[j].state = all[j].state
    BY <1>3, <1>10 DEF SameSockets
  <2>2. OneOfHook
    BY PaneFacts
  <2>3. OneOfHook'
    <3>1. \A j \in DOMAIN sockets' : sockets'[j].effect <= effect
      BY <1>3, <1>10, <2>1, <2>2 DEF OneOfHook
    <3>2. ref # 0 => ref \in DOMAIN sockets BY PaneFacts
    <3>3. ref # 0 => sockets'[ref].effect = effect /\ sockets'[ref].state # "closed"
      BY <1>3, <2>1, <2>2, <3>2 DEF OneOfHook
    <3>4. Pane!OneSocket' BY <1>1, <1>3, <1>10, <2>1, <2>2 DEF OneOfHook, Pane!OneSocket
    <3> QED BY <1>1, <3>1, <3>3, <3>4 DEF OneOfHook
  <2>4. ASSUME ~leaked PROVE OthersQuiet'
    <3>1. OthersQuiet /\ sockets[i].effect = effect
          /\ \A j \in DOMAIN sockets : j # i => all[j].state = sockets[j].state
      BY <1>9, <2>4, PaneFacts
    <3>2. \A j \in DOMAIN sockets : j # i =>
             /\ sockets'[j].state = sockets[j].state
             /\ sockets[j].state # "open" => sockets'[j].wire = <<>>
      <4>1. \A j \in DOMAIN sockets : j # i /\ sockets[j].state # "open" =>
               all[j].state # "open" /\ all[j].wire = <<>>
        BY <1>3, <3>1 DEF OthersQuiet
      <4> QED BY <1>3, <1>10, <2>1, <3>1, <4>1 DEF SameSockets
    <3>3. sockets'[i].state = "open" BY <1>3, <2>1
    <3> QED BY <1>1, <1>3, <1>10, <2>1, <3>1, <3>2, <3>3 DEF OthersQuiet
  <2> QED BY <2>3, <2>4
<1>11. SameSockets(all, all) BY <1>3 DEF SameSockets
<1>12. connected' \in BOOLEAN
  <2>1. connected \in BOOLEAN BY PaneFacts, PaneTypes
  <2> QED BY <1>1, <2>1
<1>13. ASSUME pane' = [pane EXCEPT !.inFlight = TRUE]
       PROVE  /\ pane' \in Panes /\ (\A n : Knows(pane, n) => Knows(pane', n))
              /\ (\A e : Fits(pane, e) => Fits(pane', e)) /\ (Apart(pane) => Apart(pane'))
  <2>1. /\ pane' \in Panes /\ pane'.buffer = pane.buffer /\ pane'.entries \subseteq pane.entries
        /\ pane'.completed = pane.completed
    <3>1. pane \in Panes BY PaneFacts
    <3> QED BY <1>13, <3>1 DEF Panes
  <2> QED BY <2>1, SameText
<1>14. CASE queued /\ ref = i /\ queued' = FALSE /\ pane' = [pane EXCEPT !.inFlight = TRUE]
            /\ Pane!handle_message(all, i)
  <2>1. /\ started < sends /\ started \in Nat /\ sends \in Nat /\ MaxSends \in Nat
        /\ sends \in 0 .. MaxSends /\ i \in 1 .. MaxSockets
        /\ i \in DOMAIN all /\ started + 1 \in Pane!Turns
    <3>1. started < sends BY <1>14, PaneFacts DEF Counted
    <3>2. sends \in 0 .. MaxSends BY PaneFacts, PaneTypes
    <3>3. started + 1 \in Pane!Turns BY <3>1, <3>2, PaneFacts DEF Pane!Turns
    <3> QED BY <1>3, <3>1, <3>2, <3>3, PaneFacts
  <2>2. /\ SameSockets(all, sockets') /\ DOMAIN sockets' = DOMAIN all
        /\ started' = started + 1 /\ slot' \in [Projects -> {None} \cup Serving]
        /\ Served(sockets', slot', started') /\ AllKnown(sockets', pane, held, started')
    BY <1>3, <1>4, <1>6, <1>14, <2>1, PaneFacts, HandledKnown
  <2>3. AllKnown(sockets', pane', held, started') BY <1>13, <1>14, <2>2, TextFlows
  <2>4. ASSUME ~leaked PROVE Streaming(sockets', pane', held, slot')
    <3>1. Streaming(sockets', pane, held, slot')
      BY <1>3, <1>4, <1>6, <1>8, <1>9, <1>14, <2>1, <2>4, PaneFacts, HandledStreams
    <3> QED BY <1>13, <1>14, <3>1, TextFlows
  <2>5. Pane!TypeOK'
    <3>1. started' \in 0 .. MaxSends + 1 BY <2>1, <2>2 DEF Pane!Turns
    <3>2. sockets' \in Seq(Sockets) /\ Len(sockets') = Len(sockets) BY <1>3, <2>2 DEF SameSockets
    <3>3. queued' \in BOOLEAN /\ pane' \in Panes BY <1>13, <1>14
    <3> QED BY <1>1, <1>12, <2>2, <3>1, <3>2, <3>3, PaneFacts, PaneTypes, PaneTypesNext
  <2>6. Counted' BY <1>1, <1>14, <2>1, <2>2 DEF Counted
  <2> QED BY <1>1, <1>10, <2>2, <2>3, <2>4, <2>5, <2>6, PaneFacts DEF PaneInv
<1>15. ASSUME sockets' = all, UNCHANGED <<slot, started>>, queued' \in BOOLEAN, queued' => queued,
              pane' \in Panes, \A n : Knows(pane, n) => Knows(pane', n),
              \A e : Fits(pane, e) => Fits(pane', e), Apart(pane) => Apart(pane')
       PROVE  PaneInv'
  <2>1. Pane!TypeOK' BY <1>1, <1>3, <1>12, <1>15, PaneFacts, PaneTypes, PaneTypesNext
  <2>2. AllKnown(sockets', pane', held, started') BY <1>6, <1>15, TextFlows
  <2>3. ASSUME ~leaked PROVE Streaming(sockets', pane', held, slot')
    BY <1>8, <1>15, <2>3, TextFlows
  <2>4. OneOfHook' /\ (~leaked => OthersQuiet') BY <1>10, <1>11, <1>15
  <2>5. Counted' BY <1>1, <1>15, PaneFacts DEF Counted
  <2>6. Served(sockets', slot', started') BY <1>4, <1>15
  <2> QED BY <1>1, <2>1, <2>2, <2>3, <2>4, <2>5, <2>6, PaneFacts DEF PaneInv
<1>16. CASE /\ queued' = FALSE /\ pane' = [pane EXCEPT !.inFlight = TRUE]
            /\ sockets' = all /\ UNCHANGED <<slot, started>>
  BY <1>13, <1>15, <1>16
<1>17. CASE sockets' = all /\ UNCHANGED <<queued, pane, slot, started>>
  <2>1. queued' \in BOOLEAN /\ pane' \in Panes BY <1>17, PaneFacts, PaneTypes
  <2> QED BY <1>15, <1>17, <2>1
<1> QED BY <1>2, <1>14, <1>16, <1>17

LEMMA PaneInitially == Pane!Init => PaneInv
<1> SUFFICES ASSUME Pane!Init PROVE PaneInv OBVIOUS
<1>1. /\ project = Home /\ effect = 0 /\ timer = TRUE
      /\ sockets = <<>> /\ ref = 0 /\ connected = FALSE
      /\ queued = FALSE
      /\ pane = [inFlight |-> FALSE, buffer |-> {}, entries |-> {}, completed |-> {}]
      /\ historyLoaded = FALSE /\ held = <<>>
      /\ slot = [p \in Projects |-> None]
      /\ started = 0 /\ sends = 0 /\ drops = 0 /\ leaked = FALSE
  BY DEF Pane!Init
<1>2. DOMAIN sockets = {} /\ DOMAIN held = {} /\ Len(sockets) = 0 BY <1>1
<1>3. pane \in Panes BY <1>1 DEF Panes
<1>4. Pane!TypeOK
  <2>1. sockets \in Seq(Sockets) /\ held \in Seq(Messages) BY <1>1
  <2>2. slot \in [Projects -> {None} \cup Serving] BY <1>1
  <2>3. /\ project \in Projects /\ effect \in 0 .. MaxSockets /\ Len(sockets) <= MaxSockets
        /\ ref \in 0 .. Len(sockets) /\ started \in 0 .. MaxSends + 1
        /\ sends \in 0 .. MaxSends /\ drops \in 0 .. MaxDrops
    <3>1. MaxSockets \in Nat /\ MaxSends \in Nat /\ MaxDrops \in Nat BY BoundsAreNumbers
    <3> QED BY <1>1, <1>2, <3>1, HomeAssumption
  <2>4. /\ timer \in BOOLEAN /\ connected \in BOOLEAN /\ queued \in BOOLEAN
        /\ historyLoaded \in BOOLEAN /\ leaked \in BOOLEAN
    BY <1>1
  <2> QED BY <1>3, <2>1, <2>2, <2>3, <2>4, PaneTypes
<1>5. OneOfHook BY <1>1, <1>2 DEF OneOfHook, Pane!OneSocket
<1>6. Counted BY <1>1 DEF Counted
<1>7. Served(sockets, slot, started) BY <1>1 DEF Served
<1>8. AllKnown(sockets, pane, held, started) BY <1>1, <1>2 DEF AllKnown, Knows
<1>9. OthersQuiet BY <1>2 DEF OthersQuiet
<1>10. Streaming(sockets, pane, held, slot)
  <2>1. Flows(sockets, pane, held) BY <1>2 DEF Flows, InOrder
  <2>2. Apart(pane) BY <1>1 DEF Apart
  <2>3. \A p \in Projects : ~Speaks(sockets, slot, p) BY <1>1 DEF Speaks
  <2> QED BY <2>1, <2>2, <2>3 DEF Streaming
<1> QED BY <1>1, <1>4, <1>5, <1>6, <1>7, <1>8, <1>9, <1>10 DEF PaneInv

\* The events on their way are messages.
LEMMA WiresAre ==
    ASSUME NEW ss \in Seq(Sockets)
    PROVE  \A j \in DOMAIN ss : \A k \in DOMAIN ss[j].wire : ss[j].wire[k] \in Messages
<1>1. \A j \in DOMAIN ss : ss[j].wire \in Seq(Messages) BY SocketsAre
<1> HIDE DEF Messages
<1> QED BY <1>1

LEMMA NextEventIs ==
    ASSUME slot \in [Projects -> {None} \cup Serving], NEW p \in Projects, slot[p] # None
    PROVE  NextEvent(slot[p]) \in Messages
<1>1. slot[p] \in Serving OBVIOUS
<1> QED BY <1>1 DEF NextEvent, Serving, Messages, Pane!Events

LEMMA PaneLoads ==
    ASSUME PaneInv, Pane!loadHistory
    PROVE  PaneInv'
<1>1. /\ historyLoaded' = TRUE /\ held' = <<>>
      /\ UNCHANGED <<project, effect, timer, sockets, ref, connected, queued, slot,
                     started, sends, drops, leaked>>
      /\ \E entries \in {{}, pane.entries} :
             pane' = Pane!Applied([pane EXCEPT !.entries = entries], held)
  BY DEF Pane!loadHistory, Pane!hook
<1>2. PICK entries \in {{}, pane.entries} :
          pane' = Pane!Applied([pane EXCEPT !.entries = entries], held)
  BY <1>1
<1> DEFINE q == [pane EXCEPT !.entries = entries]
<1>3. pane \in Panes /\ held \in Seq(Messages) /\ started \in Nat BY PaneFacts
<1>4. /\ q \in Panes /\ q.buffer = pane.buffer /\ q.entries \subseteq pane.entries
      /\ q.completed = pane.completed
  BY <1>3 DEF Panes
<1>5. pane' = Pane!Applied(q, held) BY <1>2
<1> HIDE DEF q
<1>6. /\ \A n : Knows(pane, n) => Knows(q, n)
      /\ \A e : Fits(pane, e) => Fits(q, e)
      /\ Apart(pane) => Apart(q)
  BY <1>4, SameText
<1>7. AllKnown(sockets, pane, held, started) BY PaneFacts
<1>8. pane' \in Panes /\ Knows(pane', started)
  BY <1>3, <1>4, <1>5, <1>6, <1>7, AppliedTyped DEF AllKnown
<1>9. Pane!TypeOK'
  <2>1. held' \in Seq(Messages) /\ historyLoaded' \in BOOLEAN BY <1>1
  <2> QED BY <1>1, <1>8, <2>1, PaneFacts, PaneTypes, PaneTypesNext
<1>10. DOMAIN held' = {} BY <1>1
<1>11. AllKnown(sockets', pane', held', started') BY <1>1, <1>7, <1>8, <1>10 DEF AllKnown
<1>12. OneOfHook' /\ (OthersQuiet => OthersQuiet')
  BY <1>1, PaneFacts DEF OneOfHook, OthersQuiet, Pane!OneSocket
<1>13. ASSUME ~leaked PROVE Streaming(sockets', pane', held', slot')
  <2>1. Streaming(sockets, pane, held, slot) BY <1>13, PaneFacts
  <2>2. /\ Apart(q) /\ InOrder(held) /\ \A j \in DOMAIN held : Fits(q, held[j])
    BY <1>6, <2>1 DEF Streaming, Flows
  <2>3. /\ Apart(pane')
        /\ \A e \in Messages : Fits(q, e) /\ (\A j \in DOMAIN held : Before(held[j], e)) => Fits(pane', e)
    BY <1>3, <1>4, <1>5, <2>2, AppliedInOrder
  <2>4. Flows(sockets, pane', held')
    <3>1. InOrder(held') BY <1>10 DEF InOrder
    <3>2. \A j \in DOMAIN sockets : \A k \in DOMAIN sockets[j].wire : Fits(pane', sockets[j].wire[k])
      BY <1>6, <2>1, <2>3, PaneFacts, WiresAre DEF Streaming, Flows
    <3> QED BY <1>10, <2>1, <3>1, <3>2 DEF Streaming, Flows
  <2>5. ASSUME NEW p \in Projects, Speaks(sockets, slot, p)
        PROVE  Expects(sockets, pane', held', NextEvent(slot[p]))
    <3>1. Expects(sockets, pane, held, NextEvent(slot[p])) BY <2>1, <2>5 DEF Streaming
    <3>2. NextEvent(slot[p]) \in Messages BY <2>5, PaneFacts, NextEventIs DEF Speaks
    <3>3. Fits(pane', NextEvent(slot[p])) BY <1>6, <2>3, <3>1, <3>2 DEF Expects
    <3> QED BY <1>10, <3>1, <3>3 DEF Expects
  <2> QED BY <1>1, <2>3, <2>4, <2>5 DEF Streaming
<1> QED BY <1>1, <1>9, <1>11, <1>12, <1>13, PaneFacts DEF PaneInv, Counted

LEMMA PaneDelivers ==
    ASSUME PaneInv, NEW i \in DOMAIN sockets, Pane!Deliver(i)
    PROVE  PaneInv'
<1> DEFINE w == sockets[i].wire
           e == Head(w)
           new == [sockets[i] EXCEPT !.wire = Tail(w)]
<1>1. /\ w # <<>> /\ sockets' = [sockets EXCEPT ![i] = new]
      /\ IF historyLoaded
         THEN pane' = Pane!handleDownstream(pane, e) /\ held' = held
         ELSE held' = Append(held, e) /\ pane' = pane
      /\ UNCHANGED <<project, effect, timer, ref, connected, queued, historyLoaded,
                     slot, started, sends, drops, leaked>>
  BY DEF Pane!Deliver
<1>2. w \in Seq(Messages) /\ sockets[i] \in Sockets BY PaneFacts, SocketsAre
<1>3. /\ e = w[1] /\ e \in Messages /\ Tail(w) \in Seq(Messages)
      /\ 1 \in DOMAIN w /\ DOMAIN Tail(w) = 1 .. Len(w) - 1
      /\ \A k \in DOMAIN Tail(w) : k + 1 \in DOMAIN w /\ Tail(w)[k] = w[k + 1] /\ 1 < k + 1
  BY <1>1, <1>2, EventsTail
<1>4. new \in Sockets /\ new.project = sockets[i].project /\ new.effect = sockets[i].effect
      /\ new.state = sockets[i].state /\ new.wire = Tail(w)
  BY <1>2, <1>3 DEF Sockets
<1>5. sockets[i].wire = w OBVIOUS
<1> HIDE DEF new, e, w
<1>6. /\ sockets' \in Seq(Sockets) /\ Len(sockets') = Len(sockets) /\ DOMAIN sockets' = DOMAIN sockets
      /\ sockets'[i] = new /\ \A j \in DOMAIN sockets \ {i} : sockets'[j] = sockets[j]
  BY <1>1, <1>4, PaneFacts, SocketSet
<1>7. AllKnown(sockets, pane, held, started) /\ pane \in Panes /\ held \in Seq(Messages)
      /\ started \in Nat /\ e.turn <= started
  BY <1>3, <1>5, PaneFacts DEF AllKnown
<1>8. /\ pane' \in Panes /\ held' \in Seq(Messages) /\ Knows(pane', started)
      /\ \A j \in DOMAIN held' : held'[j].turn <= started
  <2>1. CASE historyLoaded
    <3>1. pane' = Pane!handleDownstream(pane, e) /\ held' = held BY <1>1, <2>1
    <3>2. Pane!handleDownstream(pane, e) \in Panes BY <1>3, <1>7, HandlesWhat
    <3>3. Knows(Pane!handleDownstream(pane, e), started) BY <1>3, <1>7, HandlesKnown DEF AllKnown
    <3> QED BY <1>7, <3>1, <3>2, <3>3 DEF AllKnown
  <2>2. CASE ~historyLoaded
    <3>1. held' = Append(held, e) /\ pane' = pane BY <1>1, <2>2
    <3>2. /\ Append(held, e) \in Seq(Messages) 
          /\ \A k \in DOMAIN Append(held, e) :
                (k \in DOMAIN held /\ Append(held, e)[k] = held[k]) \/ Append(held, e)[k] = e
      BY <1>3, <1>7, EventsAppend
    <3> QED BY <1>7, <3>1, <3>2 DEF AllKnown
  <2> QED BY <2>1, <2>2
<1>9. Pane!TypeOK'
  BY <1>1, <1>6, <1>8, PaneFacts, PaneTypes, PaneTypesNext
<1>10. OneOfHook'
  <2>1. OneOfHook BY PaneFacts
  <2>2. \A j \in DOMAIN sockets : sockets'[j].effect = sockets[j].effect
                                  /\ sockets'[j].state = sockets[j].state
    BY <1>4, <1>6
  <2>3. ref # 0 => ref \in DOMAIN sockets BY PaneFacts
  <2> QED BY <1>1, <1>6, <2>1, <2>2, <2>3 DEF OneOfHook, Pane!OneSocket
<1>11. Served(sockets', slot', started')
  <2>1. Served(sockets, slot, started) BY PaneFacts
  <2> QED BY <1>1, <1>4, <1>6, <2>1 DEF Served
<1>12. AllKnown(sockets', pane', held', started')
  <2>1. \A k \in DOMAIN Tail(w) : Tail(w)[k].turn <= started BY <1>3, <1>5, <1>7 DEF AllKnown
  <2>2. \A j \in DOMAIN sockets' : \A k \in DOMAIN sockets'[j].wire : sockets'[j].wire[k].turn <= started
    BY <1>4, <1>6, <1>7, <2>1 DEF AllKnown
  <2> QED BY <1>1, <1>8, <2>2 DEF AllKnown
<1>13. ASSUME ~leaked PROVE OthersQuiet' /\ Streaming(sockets', pane', held', slot')
  <2>1. OneOfHook /\ OthersQuiet /\ Streaming(sockets, pane, held, slot) BY <1>13, PaneFacts
  <2>2. \A j \in DOMAIN sockets : j # i => sockets[j].wire = <<>> /\ sockets'[j] = sockets[j]
    BY <1>1, <1>5, <1>6, <2>1, OneIsOpen
  <2>3. sockets[i].state = "open" BY <1>1, <1>5, <2>1 DEF OthersQuiet
  <2>4. OthersQuiet' BY <1>1, <1>4, <1>6, <2>1, <2>3 DEF OthersQuiet
  <2>5. /\ InOrder(w) /\ \A k \in DOMAIN w : Fits(pane, w[k]) /\ \A j \in DOMAIN held : Before(held[j], w[k])
    BY <1>5, <2>1 DEF Streaming, Flows
  <2>6. \A k \in DOMAIN Tail(w) : /\ Tail(w)[k] \in Messages /\ Fits(pane, Tail(w)[k])
                                  /\ Before(e, Tail(w)[k])
                                  /\ \A j \in DOMAIN held : Before(held[j], Tail(w)[k])
    <3>1. \A k \in DOMAIN w : w[k] \in Messages
      <4> HIDE DEF Messages
      <4> QED BY <1>2
    <3> QED BY <1>3, <2>5, <3>1 DEF InOrder
  <2>7. InOrder(Tail(w))
    <3>1. \A j, k \in DOMAIN Tail(w) : j < k => j + 1 < k + 1
      BY <1>3
    <3> QED BY <1>3, <2>5, <3>1 DEF InOrder
  <2>8. ASSUME NEW p \in Projects, Speaks(sockets', slot, p)
        PROVE  /\ NextEvent(slot[p]) \in Messages /\ Fits(pane, NextEvent(slot[p])) /\ Before(e, NextEvent(slot[p]))
               /\ \A j \in DOMAIN held : Before(held[j], NextEvent(slot[p]))
               /\ \A k \in DOMAIN Tail(w) : Before(Tail(w)[k], NextEvent(slot[p]))
    <3>1. Speaks(sockets, slot, p)
      <4>1. slot[p] # None => slot[p].socket \in DOMAIN sockets BY PaneFacts DEF Served
      <4> QED BY <1>4, <1>6, <2>8, <4>1 DEF Speaks
    <3>2. Expects(sockets, pane, held, NextEvent(slot[p])) BY <2>1, <3>1 DEF Streaming
    <3>3. \A k \in DOMAIN w : Before(w[k], NextEvent(slot[p])) BY <1>5, <3>2 DEF Expects
    <3>4. NextEvent(slot[p]) \in Messages BY <2>8, PaneFacts, NextEventIs DEF Speaks
    <3> QED BY <1>3, <3>2, <3>3, <3>4 DEF Expects
  <2>9. /\ InOrder(held) /\ \A j \in DOMAIN held : Fits(pane, held[j]) /\ Before(held[j], e)
        /\ Apart(pane) /\ Fits(pane, e)
    BY <1>3, <2>1, <2>5 DEF Streaming, Flows
  <2>10. /\ Apart(pane') /\ InOrder(held')
         /\ \A j \in DOMAIN held' : Fits(pane', held'[j])
         /\ \A f \in Messages : Fits(pane, f) /\ Before(e, f) => Fits(pane', f)
         /\ \A f : Before(e, f) /\ (\A j \in DOMAIN held : Before(held[j], f))
                      => \A j \in DOMAIN held' : Before(held'[j], f)
    <3>1. CASE historyLoaded
      <4>1. pane' = Pane!handleDownstream(pane, e) /\ held' = <<>> BY <1>1, <3>1, PaneFacts
      <4>2. DOMAIN held' = {} BY <4>1
      <4>3. InOrder(held') BY <4>2 DEF InOrder
      <4>4. /\ Apart(pane')
            /\ \A f \in Messages : Fits(pane, f) /\ Before(e, f) => Fits(pane', f)
        BY <1>3, <1>7, <2>9, <4>1, HandlesInOrder
      <4> QED BY <4>2, <4>3, <4>4
    <3>2. CASE ~historyLoaded
      <4>1. held' = Append(held, e) /\ pane' = pane BY <1>1, <3>2
      <4>2. \A k \in DOMAIN Append(held, e) :
                (k \in DOMAIN held /\ Append(held, e)[k] = held[k]) \/ Append(held, e)[k] = e
        BY <1>3, <1>7, EventsAppend
      <4>3. InOrder(held') BY <1>3, <1>7, <2>9, <4>1, InOrderAppend
      <4>4. \A j \in DOMAIN held' : Fits(pane', held'[j]) BY <2>9, <4>1, <4>2
      <4>5. \A f : Before(e, f) /\ (\A j \in DOMAIN held : Before(held[j], f))
                      => \A j \in DOMAIN held' : Before(held'[j], f)
        BY <4>1, <4>2
      <4> QED BY <2>9, <4>1, <4>3, <4>4, <4>5
    <3> QED BY <3>1, <3>2
  <2>11. DOMAIN <<>> = {} OBVIOUS
  <2>12. InOrder(<<>>) BY <2>11 DEF InOrder
  <2>13. Flows(sockets', pane', held')
    <3>1. /\ InOrder(sockets'[i].wire) /\ \A k \in DOMAIN sockets'[i].wire :
             Fits(pane', sockets'[i].wire[k]) /\ \A j \in DOMAIN held' : Before(held'[j], sockets'[i].wire[k])
      BY <1>4, <1>6, <2>6, <2>7, <2>10
    <3>2. \A j \in DOMAIN sockets : j # i => sockets'[j].wire = <<>> BY <2>2
    <3> QED BY <1>6, <2>10, <2>11, <2>12, <3>1, <3>2 DEF Flows
  <2>14. ASSUME NEW p \in Projects, Speaks(sockets', slot, p)
         PROVE  Expects(sockets', pane', held', NextEvent(slot[p]))
    <3> DEFINE c == NextEvent(slot[p])
    <3>1. c \in Messages /\ Fits(pane, c) /\ Before(e, c)
          /\ (\A j \in DOMAIN held : Before(held[j], c)) /\ (\A k \in DOMAIN Tail(w) : Before(Tail(w)[k], c))
      BY <2>8, <2>14
    <3> HIDE DEF c
    <3>2. Fits(pane', c) /\ \A j \in DOMAIN held' : Before(held'[j], c) BY <2>10, <3>1
    <3>3. \A j \in DOMAIN sockets' : \A k \in DOMAIN sockets'[j].wire : Before(sockets'[j].wire[k], c)
      BY <1>4, <1>6, <2>2, <2>11, <3>1
    <3>4. Expects(sockets', pane', held', c) BY <3>2, <3>3 DEF Expects
    <3> QED BY <3>4 DEF c
  <2> QED BY <1>1, <2>4, <2>10, <2>13, <2>14 DEF Streaming
<1> QED BY <1>1, <1>9, <1>10, <1>11, <1>12, <1>13, PaneFacts DEF PaneInv, Counted

LEMMA PaneStep == PaneInv /\ (Pane!Next \/ UNCHANGED paneVars) => PaneInv'
<1> SUFFICES ASSUME PaneInv, Pane!Next \/ UNCHANGED paneVars PROVE PaneInv' OBVIOUS
<1>1. CASE UNCHANGED paneVars
  <2>1. UNCHANGED <<project, effect, timer, sockets, ref, connected, queued, pane,
                    historyLoaded, held, slot, started, sends, drops, leaked>>
    BY <1>1 DEF paneVars
  <2>2. Pane!TypeOK' BY <2>1, PaneFacts, PaneTypes, PaneTypesNext
  <2>3. OneOfHook' /\ (OthersQuiet => OthersQuiet')
    BY <2>1, PaneFacts DEF OneOfHook, OthersQuiet, Pane!OneSocket
  <2>4. Served(sockets', slot', started') /\ AllKnown(sockets', pane', held', started')
        /\ (~leaked => Streaming(sockets', pane', held', slot'))
    BY <2>1, PaneFacts
  <2> QED BY <2>1, <2>2, <2>3, <2>4, PaneFacts DEF PaneInv, Counted
<1>2. ASSUME NEW i \in DOMAIN sockets, Pane!onopen(i) \/ Pane!onclose(i) \/ Pane!Deliver(i)
      PROVE  PaneInv'
  BY <1>2, PaneOpens, PaneCloses, PaneDelivers
<1>3. ASSUME NEW p \in Projects,
             Pane!Streams(p) \/ Pane!Completes(p) \/ Pane!Fails(p) \/ Pane!Frees(p)
      PROVE  PaneInv'
  BY <1>3, PaneStreams, PaneCompletes, PaneFails, PaneFrees
<1> QED BY <1>1, <1>2, <1>3, PaneConnects, PaneSwitches, PaneSends, PaneLoads DEF Pane!Next

\* The hook has one connection of its own under way, and no entry of the
\* transcript joins two answers the pane was told are complete.
THEOREM PaneIsConsistent == Spec => []PaneConsistent
<1>1. Init => PaneInv BY PaneInitially DEF Init
<1>2. PaneInv /\ [Next]_vars => PaneInv' BY StepOfEach, PaneStep
<1> QED BY <1>1, <1>2, PaneConsists, PTL DEF Spec
=============================================================================

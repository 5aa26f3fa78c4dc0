-------------------------- MODULE Citations_proof --------------------------
(* The cite-aware stream (CitationStream), for texts and deltas of any      *)
(* length: in what pieces the text comes makes no difference.               *)
(*                                                                          *)
(* An advance either meets a stop (a quote mark, markup) and takes it, or   *)
(* passes everything but a tail that may yet become markup.  What comes     *)
(* after changes neither: a first stop stays the first one, and what was    *)
(* passed would have been passed later.  So advancing and then receiving    *)
(* more leads to the same blocked stream as receiving first, and by         *)
(* induction along the advances of feed so do two deltas and one.           *)
EXTENDS Services_proof

-----------------------------------------------------------------------------
(* Parts of a sequence.                                                     *)

LEMMA PartsAre ==
    ASSUME NEW T, NEW s \in Seq(T), NEW n \in 0 .. Len(s)
    PROVE  /\ Citations!Upto(s, n) \in Seq(T) /\ Len(Citations!Upto(s, n)) = n
           /\ \A i \in 1 .. n : Citations!Upto(s, n)[i] = s[i]
           /\ Citations!After(s, n) \in Seq(T) /\ Len(Citations!After(s, n)) = Len(s) - n
           /\ \A i \in 1 .. Len(s) - n : Citations!After(s, n)[i] = s[n + i]
<1> DEFINE l == Len(s)
           u == SubSeq(s, 1, n)
           a == SubSeq(s, n + 1, l)
<1>1. l \in Nat /\ n \in Nat /\ n <= l /\ \A i \in 1 .. l : s[i] \in T OBVIOUS
<1>2. Citations!Upto(s, n) = u /\ Citations!After(s, n) = a BY DEF Citations!Upto, Citations!After
<1> HIDE DEF l
<1>3. \A i \in 1 .. n : s[i] \in T BY <1>1
<1>4. /\ u \in Seq(T) /\ Len(u) = IF 1 <= n THEN n - 1 + 1 ELSE 0
      /\ \A i \in 1 .. n - 1 + 1 : u[i] = s[1 + i - 1]
  BY <1>1, <1>3, SubSeqProperties
<1> DEFINE m == n + 1
<1>5. m \in Int /\ l \in Int /\ \A i \in m .. l : s[i] \in T BY <1>1
<1> DEFINE c == SubSeq(s, m, l)
<1>6. /\ c \in Seq(T) /\ Len(c) = IF m <= l THEN l - m + 1 ELSE 0
      /\ \A i \in 1 .. l - m + 1 : c[i] = s[m + i - 1]
  <2> HIDE DEF m
  <2> QED BY <1>5, SubSeqProperties
<1>7. c = a OBVIOUS
<1> HIDE DEF u, a, c
<1>8. Len(u) = n /\ \A i \in 1 .. n : u[i] = s[i]
  <2>1. n - 1 + 1 = n /\ \A i \in 1 .. n : 1 + i - 1 = i BY <1>1
  <2> QED BY <1>1, <1>4, <2>1
<1>9. Len(a) = l - n /\ \A i \in 1 .. l - n : a[i] = s[n + i]
  <2>1. l - m + 1 = l - n /\ \A i \in 1 .. l - n : m + i - 1 = n + i BY <1>1
  <2>2. (IF m <= l THEN l - m + 1 ELSE 0) = l - n BY <1>1
  <2> HIDE DEF m
  <2> QED BY <1>6, <1>7, <2>1, <2>2
<1> QED BY <1>2, <1>4, <1>6, <1>7, <1>8, <1>9 DEF l

LEMMA ConcatIs ==
    ASSUME NEW T, NEW s \in Seq(T), NEW d \in Seq(T)
    PROVE  /\ s \o d \in Seq(T) /\ Len(s \o d) = Len(s) + Len(d)
           /\ \A i \in 1 .. Len(s) : (s \o d)[i] = s[i]
           /\ \A i \in 1 .. Len(d) : (s \o d)[Len(s) + i] = d[i]
<1> DEFINE r == s \o d
           l == Len(s)
           m == Len(d)
<1>1. /\ l \in Nat /\ m \in Nat /\ r \in Seq(T) /\ Len(r) = l + m
      /\ \A i \in 1 .. l + m : r[i] = IF i <= l THEN s[i] ELSE d[i - l]
  BY ConcatProperties
<1> HIDE DEF r, l, m
<1>2. \A i \in 1 .. l : r[i] = s[i]
  <2>1. \A i \in 1 .. l : i \in 1 .. l + m /\ i <= l BY <1>1
  <2> QED BY <1>1, <2>1
<1>3. \A i \in 1 .. m : r[l + i] = d[i]
  <2>1. \A i \in 1 .. m : l + i \in 1 .. l + m /\ ~(l + i <= l) /\ l + i - l = i BY <1>1
  <2> QED BY <1>1, <2>1
<1> QED BY <1>1, <1>2, <1>3 DEF r, l, m

\* What is cut off stays so when more comes.
LEMMA PartsOfConcat ==
    ASSUME NEW T, NEW s \in Seq(T), NEW d \in Seq(T), NEW n \in 0 .. Len(s)
    PROVE  /\ n \in 0 .. Len(s \o d)
           /\ Citations!Upto(s \o d, n) = Citations!Upto(s, n)
           /\ Citations!After(s \o d, n) = Citations!After(s, n) \o d
<1> DEFINE r == s \o d
           l == Len(s)
           m == Len(d)
           a == Citations!After(s, n)
           b == a \o d
           c == Citations!After(r, n)
           u == Citations!Upto(s, n)
           v == Citations!Upto(r, n)
<1>1. /\ l \in Nat /\ m \in Nat /\ n \in Nat /\ n <= l /\ r \in Seq(T) /\ Len(r) = l + m
      /\ \A i \in 1 .. l : r[i] = s[i]
      /\ \A i \in 1 .. m : r[l + i] = d[i]
  BY ConcatIs
<1>2. n \in 0 .. Len(r)
  <2> HIDE DEF r, l, m
  <2> QED BY <1>1
<1>3. /\ u \in Seq(T) /\ Len(u) = n /\ \A i \in 1 .. n : u[i] = s[i]
      /\ a \in Seq(T) /\ Len(a) = l - n /\ \A i \in 1 .. l - n : a[i] = s[n + i]
  <2> HIDE DEF r, m
  <2> QED BY PartsAre
<1>4. /\ v \in Seq(T) /\ Len(v) = n /\ \A i \in 1 .. n : v[i] = r[i]
      /\ c \in Seq(T) /\ Len(c) = l + m - n /\ \A i \in 1 .. l + m - n : c[i] = r[n + i]
  <2> HIDE DEF r, l, m
  <2>1. Len(r) - n = l + m - n BY <1>1
  <2> QED BY <1>1, <1>2, <2>1, PartsAre
<1>5. /\ b \in Seq(T) /\ Len(b) = l - n + m
      /\ \A i \in 1 .. l - n : b[i] = a[i]
      /\ \A i \in 1 .. m : b[l - n + i] = d[i]
  <2> HIDE DEF a, l, m
  <2>0. a \in Seq(T) BY <1>3
  <2>1. /\ b \in Seq(T) /\ Len(b) = Len(a) + Len(d)
        /\ \A i \in 1 .. Len(a) : b[i] = a[i]
        /\ \A i \in 1 .. Len(d) : b[Len(a) + i] = d[i]
    BY <2>0, ConcatIs
  <2> HIDE DEF b
  <2>2. Len(a) = l - n /\ Len(d) = m BY <1>3 DEF m
  <2> QED BY <2>1, <2>2
<1> HIDE DEF r, l, m, a, b, c, u, v
<1>6. u = v
  <2>1. \A i \in 1 .. n : i \in 1 .. l BY <1>1
  <2>2. Len(u) = Len(v) /\ \A i \in 1 .. Len(u) : u[i] = v[i] BY <1>1, <1>3, <1>4, <2>1
  <2> QED BY <1>3, <1>4, <2>2, SeqEqual
<1>7. b = c
  <2>1. Len(b) = Len(c) /\ Len(b) = l - n + m /\ Len(c) = l + m - n BY <1>1, <1>4, <1>5
  <2>2. ASSUME NEW i \in 1 .. Len(b) PROVE b[i] = c[i]
    <3>1. i \in 1 .. l - n + m /\ i \in 1 .. l + m - n BY <1>1, <2>1
    <3>2. c[i] = r[n + i] BY <1>4, <3>1
    <3>3. CASE i <= l - n
      <4>1. i \in 1 .. l - n /\ n + i \in 1 .. l BY <1>1, <3>1, <3>3
      <4> QED BY <1>1, <1>3, <1>5, <3>2, <4>1
    <3>4. CASE ~(i <= l - n)
      <4> DEFINE k == i - (l - n)
      <4>1. k \in 1 .. m /\ l - n + k = i /\ l + k = n + i BY <1>1, <3>1, <3>4
      <4> HIDE DEF k
      <4>2. b[l - n + k] = d[k] /\ r[l + k] = d[k] BY <1>1, <1>5, <4>1
      <4> QED BY <3>2, <4>1, <4>2
    <3> QED BY <3>3, <3>4
  <2> QED BY <1>4, <1>5, <2>1, <2>2, SeqEqual
<1> QED BY <1>2, <1>6, <1>7 DEF r, a, b, c, u, v

\* Cutting twice.
LEMMA PartsOfParts ==
    ASSUME NEW T, NEW s \in Seq(T), NEW n \in 0 .. Len(s), NEW m \in 0 .. Len(s) - n
    PROVE  /\ n + m \in 0 .. Len(s) /\ m \in 0 .. Len(Citations!After(s, n))
           /\ Citations!Upto(s, n) \o Citations!Upto(Citations!After(s, n), m) = Citations!Upto(s, n + m)
           /\ Citations!After(Citations!After(s, n), m) = Citations!After(s, n + m)
<1> DEFINE l == Len(s)
           k == n + m
           u == Citations!Upto(s, n)
           a == Citations!After(s, n)
           w == Citations!Upto(a, m)
           b == Citations!After(a, m)
           x == Citations!Upto(s, k)
           c == Citations!After(s, k)
           y == u \o w
<1>1. l \in Nat /\ n \in Nat /\ m \in Nat /\ k \in Nat /\ k <= l /\ k \in 0 .. l OBVIOUS
<1>2. /\ u \in Seq(T) /\ Len(u) = n /\ \A i \in 1 .. n : u[i] = s[i]
      /\ a \in Seq(T) /\ Len(a) = l - n /\ \A i \in 1 .. l - n : a[i] = s[n + i]
  BY PartsAre
<1>3. m \in 0 .. Len(a)
  <2> HIDE DEF a
  <2> QED BY <1>2
<1>4. /\ w \in Seq(T) /\ Len(w) = m /\ \A i \in 1 .. m : w[i] = a[i]
      /\ b \in Seq(T) /\ Len(b) = l - n - m /\ \A i \in 1 .. l - n - m : b[i] = a[m + i]
  <2> HIDE DEF a
  <2> QED BY <1>2, <1>3, PartsAre
<1>5. /\ x \in Seq(T) /\ Len(x) = k /\ \A i \in 1 .. k : x[i] = s[i]
      /\ c \in Seq(T) /\ Len(c) = l - k /\ \A i \in 1 .. l - k : c[i] = s[k + i]
  <2> HIDE DEF k
  <2> QED BY <1>1, PartsAre
<1>6. /\ y \in Seq(T) /\ Len(y) = n + m
      /\ \A i \in 1 .. n : y[i] = u[i]
      /\ \A i \in 1 .. m : y[n + i] = w[i]
  <2> HIDE DEF u, w
  <2>0. u \in Seq(T) /\ w \in Seq(T) BY <1>2, <1>4
  <2>1. /\ y \in Seq(T) /\ Len(y) = Len(u) + Len(w)
        /\ \A i \in 1 .. Len(u) : y[i] = u[i]
        /\ \A i \in 1 .. Len(w) : y[Len(u) + i] = w[i]
    BY <2>0, ConcatIs
  <2> HIDE DEF y
  <2>2. Len(u) = n /\ Len(w) = m BY <1>2, <1>4
  <2> QED BY <2>1, <2>2
<1> HIDE DEF l, u, a, w, b, x, c, y
<1>7. y = x
  <2>1. ASSUME NEW i \in 1 .. Len(y) PROVE y[i] = x[i]
    <3>1. i \in 1 .. k BY <1>6
    <3>2. CASE i <= n
      <4>1. i \in 1 .. n BY <1>1, <3>1, <3>2
      <4> QED BY <1>2, <1>5, <1>6, <3>1, <4>1
    <3>3. CASE ~(i <= n)
      <4> DEFINE j == i - n
      <4>1. j \in 1 .. m /\ j \in 1 .. l - n /\ n + j = i BY <1>1, <3>1, <3>3
      <4> HIDE DEF j
      <4>2. y[n + j] = w[j] /\ w[j] = a[j] /\ a[j] = s[n + j] BY <1>2, <1>4, <1>6, <4>1
      <4>3. x[i] = s[i] BY <1>5, <3>1
      <4> QED BY <4>1, <4>2, <4>3
    <3> QED BY <3>2, <3>3
  <2>2. Len(y) = Len(x) BY <1>5, <1>6
  <2> QED BY <1>5, <1>6, <2>1, <2>2, SeqEqual
<1>8. b = c
  <2>1. Len(b) = Len(c) /\ Len(b) = l - k BY <1>1, <1>4, <1>5
  <2>2. ASSUME NEW i \in 1 .. Len(b) PROVE b[i] = c[i]
    <3>1. /\ i \in 1 .. l - n - m /\ i \in 1 .. l - k /\ m + i \in 1 .. l - n
          /\ n + (m + i) = k + i
      BY <1>1, <2>1
    <3>2. b[i] = a[m + i] /\ c[i] = s[k + i] BY <1>4, <1>5, <3>1
    <3>3. a[m + i] = s[n + (m + i)] BY <1>2, <3>1
    <3> QED BY <3>1, <3>2, <3>3
  <2> QED BY <1>4, <1>5, <2>1, <2>2, SeqEqual
<1> QED BY <1>1, <1>3, <1>7, <1>8 DEF l, u, a, w, b, x, c, y

-----------------------------------------------------------------------------
(* Citations: where a state stops in the buffer, and what it holds back.    *)

Buffers == Seq(Citations!Tokens)
Marked  == {Citations!LtCi, Citations!LtSlCi}

\* The token at i ends the run of a state: a quote mark, markup, any <.
StopsAt(q, b, i) ==
    /\ i \in 1 .. Len(b)
    /\ \/ q = "prose" /\ b[i] = Citations!Quote
       \/ q = "prose" /\ i < Len(b) /\ b[i] \in Marked /\ b[i + 1] = Citations!Te
       \/ q = "in_tag" /\ i < Len(b) /\ b[i] = Citations!LtSlCi /\ b[i + 1] = Citations!Te
       \/ q = "in_quote" /\ b[i] \in Marked \cup {Citations!Quote}

\* How much of the end may grow into markup.
Hold(q, b) ==
    IF /\ b # <<>>
       /\ \/ q = "prose" /\ b[Len(b)] \in Marked
          \/ q = "in_tag" /\ b[Len(b)] = Citations!LtSlCi
    THEN 1 ELSE 0

LEMMA TagsAre ==
    ASSUME NEW b \in Buffers, NEW i \in 1 .. Len(b), i < Len(b)
    PROVE  /\ Citations!At(b, i, Citations!OpenTag) <=> b[i] = Citations!LtCi /\ b[i + 1] = Citations!Te
           /\ Citations!At(b, i, Citations!CloseTag) <=> b[i] = Citations!LtSlCi /\ b[i + 1] = Citations!Te
<1> DEFINE T == Citations!Tokens
           w == SubSeq(b, i, i + 1)
           j == i + 1
<1>1. /\ b \in Seq(T) /\ Len(b) \in Nat /\ i \in Int /\ j \in Int /\ i <= j /\ j - i + 1 = 2
      /\ i \in 1 .. Len(b) /\ j \in 1 .. Len(b)
  BY DEF Buffers
<1>2. \A k \in i .. j : b[k] \in T
  <2>1. \A k \in i .. j : k \in 1 .. Len(b) BY <1>1
  <2> HIDE DEF T
  <2> QED BY <1>1, <2>1
<1>3. /\ w \in Seq(T) /\ Len(w) = 2 /\ \A k \in 1 .. 2 : w[k] = b[i + k - 1]
  <2> HIDE DEF T, j
  <2>1. /\ SubSeq(b, i, j) \in Seq(T)
        /\ Len(SubSeq(b, i, j)) = IF i <= j THEN j - i + 1 ELSE 0
        /\ \A k \in 1 .. j - i + 1 : SubSeq(b, i, j)[k] = b[i + k - 1]
    BY <1>1, <1>2, SubSeqProperties
  <2>2. SubSeq(b, i, j) = w BY DEF j
  <2> HIDE DEF w
  <2> QED BY <1>1, <2>1, <2>2
<1>4. w[1] = b[i] /\ w[2] = b[i + 1]
  <2>1. 1 \in 1 .. 2 /\ 2 \in 1 .. 2 /\ i + 1 - 1 = i /\ i + 2 - 1 = i + 1 BY <1>1
  <2> HIDE DEF w
  <2> QED BY <1>3, <2>1
<1>5. ASSUME NEW x \in T, NEW y \in T
      PROVE  w = <<x, y>> <=> b[i] = x /\ b[i + 1] = y
  <2> DEFINE v == <<x, y>>
  <2>1. v \in Seq(T) /\ Len(v) = 2 /\ v[1] = x /\ v[2] = y OBVIOUS
  <2> HIDE DEF w, v, T
  <2>2. w = v => b[i] = x /\ b[i + 1] = y BY <1>4, <2>1
  <2>3. ASSUME b[i] = x, b[i + 1] = y PROVE w = v
    <3>1. \A k \in 1 .. Len(w) : w[k] = v[k]
      <4>1. \A k \in 1 .. 2 : k = 1 \/ k = 2 OBVIOUS
      <4> QED BY <1>3, <1>4, <2>1, <2>3, <4>1
    <3> QED BY <1>3, <2>1, <3>1, SeqEqual
  <2> QED BY <2>2, <2>3 DEF v
<1>6. /\ Citations!At(b, i, Citations!OpenTag) <=> w = <<Citations!LtCi, Citations!Te>>
      /\ Citations!At(b, i, Citations!CloseTag) <=> w = <<Citations!LtSlCi, Citations!Te>>
  <2>1. /\ Len(Citations!OpenTag) = 2 /\ Len(Citations!CloseTag) = 2
        /\ i + Len(Citations!OpenTag) - 1 = i + 1 /\ i + Len(Citations!CloseTag) - 1 = i + 1
    BY <1>1 DEF Citations!OpenTag, Citations!CloseTag
  <2>2. Citations!At(b, i, Citations!OpenTag) <=> w = Citations!OpenTag
    BY <2>1, Zenon DEF Citations!At
  <2>3. Citations!At(b, i, Citations!CloseTag) <=> w = Citations!CloseTag
    BY <2>1, Zenon DEF Citations!At
  <2> QED BY <2>2, <2>3 DEF Citations!OpenTag, Citations!CloseTag
<1>7. /\ Citations!LtCi \in T /\ Citations!LtSlCi \in T /\ Citations!Te \in T BY DEF Citations!Tokens
<1> HIDE DEF T, w
<1> QED BY <1>5, <1>6, <1>7

LEMMA MarkupIs ==
    ASSUME NEW b \in Buffers, NEW i \in 1 .. Len(b)
    PROVE  Citations!IsMarkup(b, i) <=> i < Len(b) /\ b[i] \in Marked /\ b[i + 1] = Citations!Te
BY TagsAre DEF Citations!IsMarkup, Marked

LEMMA StopsAre ==
    ASSUME NEW b \in Buffers
    PROVE  /\ Citations!Triggers(b) = {i \in 1 .. Len(b) : StopsAt("prose", b, i)}
           /\ {i \in 1 .. Len(b) - 1 : Citations!At(b, i, Citations!CloseTag)}
                = {i \in 1 .. Len(b) : StopsAt("in_tag", b, i)}
           /\ {i \in DOMAIN b : b[i] \in {Citations!Quote, Citations!LtCi, Citations!LtSlCi}}
                = {i \in 1 .. Len(b) : StopsAt("in_quote", b, i)}
<1>1. Len(b) \in Nat /\ DOMAIN b = 1 .. Len(b) BY DEF Buffers
<1>2. Citations!Triggers(b) = {i \in 1 .. Len(b) : StopsAt("prose", b, i)}
  BY <1>1, MarkupIs DEF Citations!Triggers, StopsAt
<1>3. {i \in 1 .. Len(b) - 1 : Citations!At(b, i, Citations!CloseTag)}
        = {i \in 1 .. Len(b) : StopsAt("in_tag", b, i)}
  <2>1. \A i : i \in 1 .. Len(b) - 1 <=> i \in 1 .. Len(b) /\ i < Len(b) BY <1>1
  <2>2. \A i \in 1 .. Len(b) : StopsAt("in_tag", b, i)
                 <=> i < Len(b) /\ Citations!At(b, i, Citations!CloseTag)
    BY <1>1, TagsAre DEF StopsAt
  <2> QED BY <2>1, <2>2
<1>4. {i \in DOMAIN b : b[i] \in {Citations!Quote, Citations!LtCi, Citations!LtSlCi}}
        = {i \in 1 .. Len(b) : StopsAt("in_quote", b, i)}
  BY <1>1 DEF StopsAt, Marked
<1> QED BY <1>2, <1>3, <1>4

LEMMA HoldIs ==
    ASSUME NEW b \in Buffers
    PROVE  /\ \A q : /\ Hold(q, b) \in {0, 1} /\ Len(b) - Hold(q, b) \in 0 .. Len(b)
                     /\ b = <<>> => Hold(q, b) = 0
           /\ Citations!_partial_suffix_overlap(b, {Citations!OpenTag, Citations!CloseTag}) = Hold("prose", b)
           /\ Citations!_partial_suffix_overlap(b, {Citations!CloseTag}) = Hold("in_tag", b)
           /\ Hold("in_quote", b) = 0
<1>1. Len(b) \in Nat /\ (b # <<>> => Len(b) >= 1) BY DEF Buffers
<1>2. Head(Citations!OpenTag) = Citations!LtCi /\ Head(Citations!CloseTag) = Citations!LtSlCi
  BY DEF Citations!OpenTag, Citations!CloseTag
<1>3. Citations!Last(b) = b[Len(b)] BY DEF Citations!Last
<1>4. \A q : Hold(q, b) \in {0, 1} /\ Len(b) - Hold(q, b) \in 0 .. Len(b) /\ (b = <<>> => Hold(q, b) = 0)
  BY <1>1 DEF Hold
<1>5. (\E t \in {Citations!OpenTag, Citations!CloseTag} : Citations!Last(b) = Head(t)) <=> b[Len(b)] \in Marked
  BY <1>2, <1>3 DEF Marked
<1>6. (\E t \in {Citations!CloseTag} : Citations!Last(b) = Head(t)) <=> b[Len(b)] = Citations!LtSlCi
  BY <1>2, <1>3
<1>7. Citations!_partial_suffix_overlap(b, {Citations!OpenTag, Citations!CloseTag}) = Hold("prose", b)
  BY <1>5 DEF Citations!_partial_suffix_overlap, Hold
<1>8. Citations!_partial_suffix_overlap(b, {Citations!CloseTag}) = Hold("in_tag", b)
  BY <1>6 DEF Citations!_partial_suffix_overlap, Hold
<1> QED BY <1>4, <1>7, <1>8 DEF Hold

\* More that comes moves no stop, and adds none before what is held back.
LEMMA StopsOfConcat ==
    ASSUME NEW b \in Buffers, NEW d \in Buffers, NEW q, NEW i
    PROVE  /\ StopsAt(q, b, i) => StopsAt(q, b \o d, i)
           /\ StopsAt(q, b \o d, i) /\ i <= Len(b) - Hold(q, b) => StopsAt(q, b, i)
<1> DEFINE e == b \o d
           l == Len(b)
           m == Len(d)
<1>1. /\ e \in Buffers /\ Len(e) = l + m /\ l \in Nat /\ m \in Nat
      /\ \A k \in 1 .. l : e[k] = b[k]
  BY ConcatIs DEF Buffers
<1>2. ASSUME StopsAt(q, b, i) PROVE StopsAt(q, e, i)
  <2> HIDE DEF e, l, m
  <2>1. i \in 1 .. l /\ e[i] = b[i] /\ i \in 1 .. Len(e) /\ l <= Len(e)
    BY <1>1, <1>2 DEF StopsAt, l
  <2>2. i < l => e[i + 1] = b[i + 1] /\ i < Len(e) BY <1>1, <2>1
  <2> QED BY <1>2, <2>1, <2>2 DEF StopsAt, l
<1>3. ASSUME StopsAt(q, e, i), i <= l - Hold(q, b) PROVE StopsAt(q, b, i)
  <2>1. Hold(q, b) \in {0, 1} BY HoldIs
  <2> HIDE DEF e, m
  <2>2. i \in 1 .. l /\ e[i] = b[i] BY <1>1, <1>3, <2>1 DEF StopsAt
  <2>3. i < l => e[i + 1] = b[i + 1] BY <1>1, <2>2
  <2>4. CASE i < l BY <1>3, <2>2, <2>3, <2>4 DEF StopsAt
  <2>5. CASE i = l
    <3>1. Hold(q, b) = 0 BY <1>1, <1>3, <2>1, <2>5
    <3>2. b # <<>> BY <1>1, <2>2, <2>5
    <3>3. ~(q = "prose" /\ b[i] \in Marked) /\ ~(q = "in_tag" /\ b[i] = Citations!LtSlCi)
      BY <2>5, <3>1, <3>2 DEF Hold
    <3> QED BY <1>3, <2>2, <3>3 DEF StopsAt
  <2> QED BY <1>1, <2>2, <2>4, <2>5
<1> QED BY <1>2, <1>3

\* What has been cut off moves the stops by as much.
LEMMA StopsOfAfter ==
    ASSUME NEW b \in Buffers, NEW n \in 0 .. Len(b), NEW q
    PROVE  /\ \A i \in Nat \ {0} : StopsAt(q, Citations!After(b, n), i) <=> StopsAt(q, b, n + i)
           /\ n <= Len(b) - Hold(q, b) => Hold(q, Citations!After(b, n)) = Hold(q, b)
<1> DEFINE a == Citations!After(b, n)
           l == Len(b)
<1>1. /\ a \in Buffers /\ Len(a) = l - n /\ l \in Nat /\ n \in Nat /\ n <= l
      /\ \A k \in 1 .. l - n : a[k] = b[n + k]
  <2> DEFINE T == Citations!Tokens
  <2>1. b \in Seq(T) /\ l \in Nat /\ n \in Nat /\ n <= l BY DEF Buffers
  <2> HIDE DEF T
  <2>2. /\ a \in Seq(T) /\ Len(a) = l - n
        /\ \A k \in 1 .. l - n : a[k] = b[n + k]
    BY <2>1, PartsAre
  <2> HIDE DEF a, l
  <2> QED BY <2>1, <2>2 DEF Buffers, T
<1>2. ASSUME NEW i \in Nat \ {0} PROVE StopsAt(q, a, i) <=> StopsAt(q, b, n + i)
  <2> HIDE DEF a
  <2>1. i \in 1 .. Len(a) <=> n + i \in 1 .. Len(b) BY <1>1
  <2>2. i < Len(a) <=> n + i < Len(b) BY <1>1
  <2>3. i \in 1 .. Len(a) => a[i] = b[n + i] BY <1>1
  <2>4. i < Len(a) => a[i + 1] = b[n + i + 1]
    <3>1. i < Len(a) => i + 1 \in 1 .. l - n /\ n + (i + 1) = n + i + 1 BY <1>1
    <3> QED BY <1>1, <3>1
  <2> QED BY <2>1, <2>2, <2>3, <2>4 DEF StopsAt
<1>3. ASSUME n <= l - Hold(q, b) PROVE Hold(q, a) = Hold(q, b)
  <2>1. Hold(q, b) \in {0, 1} /\ (a = <<>> => Hold(q, a) = 0) BY <1>1, HoldIs
  <2> HIDE DEF a
  <2>2. CASE a = <<>>
    <3>1. Len(a) = 0 BY <2>2
    <3>2. n = l BY <1>1, <3>1
    <3>3. Hold(q, b) = 0 BY <1>1, <1>3, <2>1, <3>2
    <3> QED BY <2>1, <2>2, <3>3
  <2>3. CASE a # <<>>
    <3>1. Len(a) \in 1 .. l - n /\ n + Len(a) = l /\ b # <<>> BY <1>1, <2>3 DEF Buffers
    <3>2. a[Len(a)] = b[Len(b)] BY <1>1, <3>1
    <3> QED BY <2>3, <3>1, <3>2 DEF Hold
  <2> QED BY <2>2, <2>3
<1> QED BY <1>2, <1>3

-----------------------------------------------------------------------------
(* Citations: one advance.                                                  *)

Showable    == Citations!Tokens \cup Citations!SpanKinds \cup {"end"}
Quotes   == {<<"x">>, <<"x", "x">>}
Phases   == {"prose", "in_tag", "in_quote"}
Streams  == [state : Phases, buf : Buffers, held : Buffers, text : Seq(Showable), citations : Seq(Quotes)]

\* The stream s with b in its buffer, and with the first n tokens of its
\* buffer where its state puts what passes.
Put(s, b)   == [s EXCEPT !.buf = b]
Front(s)    == IF s.state = "prose" THEN s.text ELSE s.held
Passed(s, n) ==
    LET piece == Citations!Upto(s.buf, n)
        rest  == Citations!After(s.buf, n)
    IN  IF s.state = "prose" THEN [s EXCEPT !.text = @ \o piece, !.buf = rest]
        ELSE [s EXCEPT !.held = @ \o piece, !.buf = rest]

\* The tokens a stop takes, counted from the one before it.
Takes(q, z) == IF z = Citations!Quote THEN 1 ELSE IF q = "in_quote" THEN 0 ELSE 2

\* What becomes of s, its buffer apart, when z stops it after x.
Record(q, h, t, c) == [state |-> q, buf |-> <<>>, held |-> h, text |-> t, citations |-> c]
Stopped(s, x, z) ==
    CASE s.state = "prose" ->
           IF z = Citations!Quote THEN Record("in_quote", <<>>, x, s.citations)
           ELSE IF z = Citations!LtCi THEN Record("in_tag", <<>>, x, s.citations)
           ELSE Record("prose", s.held, x, s.citations)
      [] s.state = "in_tag" ->
           Citations!_resolve_span(Record("prose", <<>>, s.text, s.citations), Citations!_strip_tag_markup(x))
      [] OTHER ->
           IF z # Citations!Quote
           THEN Record("prose", <<>>, s.text \o (<<Citations!Quote>> \o x), s.citations)
           ELSE IF Len(x) >= MinQuote
           THEN Citations!_resolve_span(Record("prose", <<>>, s.text, s.citations), x)
           ELSE Record("prose", <<>>, s.text \o (<<Citations!Quote>> \o x \o <<Citations!Quote>>), s.citations)

FirstStop(s, i) == StopsAt(s.state, s.buf, i) /\ \A j \in 1 .. Len(s.buf) : StopsAt(s.state, s.buf, j) => i <= j
Quiet(s)    == \A i \in 1 .. Len(s.buf) : ~StopsAt(s.state, s.buf, i)

\* A record of a stream is its fields.
LEMMA FieldsAre ==
    ASSUME NEW s \in Streams
    PROVE  /\ s.state \in Phases /\ s.buf \in Buffers /\ s.held \in Buffers
           /\ s.text \in Seq(Showable) /\ s.citations \in Seq(Quotes)
           /\ s = [state |-> s.state, buf |-> s.buf, held |-> s.held, text |-> s.text,
                   citations |-> s.citations]
<1> DEFINE T == Seq(Showable)
           C == Seq(Quotes)
<1>1. s \in [state : Phases, buf : Buffers, held : Buffers, text : T, citations : C] BY DEF Streams
<1> HIDE DEF T, C
<1> QED BY <1>1 DEF T, C

LEMMA StreamIs ==
    ASSUME NEW q \in Phases, NEW b \in Buffers, NEW h \in Buffers, NEW t \in Seq(Showable), NEW c \in Seq(Quotes)
    PROVE  [state |-> q, buf |-> b, held |-> h, text |-> t, citations |-> c] \in Streams
<1> DEFINE T == Seq(Showable)
           C == Seq(Quotes)
<1>1. t \in T /\ c \in C OBVIOUS
<1> HIDE DEF T, C
<1>2. [state |-> q, buf |-> b, held |-> h, text |-> t, citations |-> c]
        \in [state : Phases, buf : Buffers, held : Buffers, text : T, citations : C]
  BY <1>1
<1> QED BY <1>2 DEF Streams, T, C

LEMMA PutIs ==
    ASSUME NEW s \in Streams, NEW b \in Buffers
    PROVE  /\ Put(s, b) \in Streams /\ Put(s, b).state = s.state /\ Put(s, b).buf = b
           /\ Put(s, b).held = s.held /\ Put(s, b).text = s.text /\ Put(s, b).citations = s.citations
           /\ \A c \in Buffers : Put(Put(s, b), c) = Put(s, c)
           /\ Put(s, s.buf) = s
<1>1. /\ s = [state |-> s.state, buf |-> s.buf, held |-> s.held, text |-> s.text, citations |-> s.citations]
      /\ s.state \in Phases /\ s.held \in Buffers
      /\ s.text \in Seq(Showable) /\ s.citations \in Seq(Quotes)
  BY FieldsAre
<1> DEFINE q == s.state
           h == s.held
           t == s.text
           c == s.citations
           r == s.buf
<1>2. s = [state |-> q, buf |-> r, held |-> h, text |-> t, citations |-> c] BY <1>1
<1> HIDE DEF q, h, t, c, r
<1>3. \A d : Put(s, d) = [state |-> q, buf |-> d, held |-> h, text |-> t, citations |-> c] BY <1>2 DEF Put
<1>4. \A d, f : Put(Put(s, d), f) = Put(s, f) BY <1>3 DEF Put
<1>5. Put(s, r) = s BY <1>2, <1>3
<1>6. Put(s, b) \in Streams BY <1>1, <1>3, StreamIs DEF q, h, t, c
<1>7. /\ Put(s, b).state = q /\ Put(s, b).buf = b /\ Put(s, b).held = h /\ Put(s, b).text = t
      /\ Put(s, b).citations = c
  BY <1>3
<1> QED BY <1>4, <1>5, <1>6, <1>7 DEF q, h, t, c, r

LEMMA ConstantsAre ==
    /\ <<>> \in Buffers /\ Citations!Tokens \subseteq Showable
    /\ Buffers \subseteq Seq(Showable) /\ <<Citations!Quote>> \in Seq(Showable)
    /\ {"cite", "unverified", "end"} \subseteq Showable
<1>1. <<>> \in Buffers BY DEF Buffers
<1>2. Citations!Tokens \subseteq Showable BY DEF Showable
<1>3. Buffers \subseteq Seq(Showable)
  <2> DEFINE S == Showable
             T == Citations!Tokens
  <2> SUFFICES ASSUME NEW b \in Seq(T) PROVE b \in Seq(S) BY DEF Buffers
  <2>1. T \subseteq S BY <1>2
  <2> HIDE DEF S, T
  <2> QED BY <2>1
<1>4. <<Citations!Quote>> \in Seq(Showable)
  <2> DEFINE S == Showable
             z == Citations!Quote
  <2>1. z \in S BY DEF Showable, Citations!Tokens
  <2> HIDE DEF S, z
  <2>2. <<z>> \in Seq(S) BY <2>1
  <2> QED BY <2>2 DEF S, z
<1>5. {"cite", "unverified", "end"} \subseteq Showable BY DEF Showable, Citations!SpanKinds
<1> QED BY <1>1, <1>2, <1>3, <1>4, <1>5

LEMMA StripIs ==
    ASSUME NEW x \in Buffers
    PROVE  Citations!_strip_tag_markup(x) \in Buffers
<1> DEFINE T == Citations!Tokens
           D == DOMAIN x
           own == [i \in D |-> i]
           R == {i \in D : ~Citations!IsMarkup(x, i) /\ ~(i > 1 /\ Citations!IsMarkup(x, i - 1))}
           a == Among(own, R)
<1>1. x \in Seq(T) /\ Len(x) \in Nat /\ D = 1 .. Len(x) BY DEF Buffers
<1>2. own \in Seq(D)
  <2> DEFINE l == Len(x)
  <2>1. l \in Nat /\ D = 1 .. l BY <1>1
  <2> HIDE DEF D, l
  <2>2. own \in [1 .. l -> D] BY <2>1
  <2> HIDE DEF own
  <2> QED BY <2>1, <2>2
<1>3. Citations!_strip_tag_markup(x) = [k \in DOMAIN a |-> x[a[k]]]
  <2>1. Citations!Among(own, R) = a BY Zenon DEF Citations!Among, Among
  <2> HIDE DEF a
  <2> QED BY <2>1, Zenon DEF Citations!_strip_tag_markup
<1>4. a \in Seq(D)
  <2> HIDE DEF D, own, R
  <2> QED BY <1>2, AmongIs
<1>5. \A i \in D : x[i] \in T BY <1>1
<1> HIDE DEF T, D, a
<1>6. /\ Len(a) \in Nat /\ DOMAIN a = 1 .. Len(a) /\ \A k \in 1 .. Len(a) : a[k] \in D BY <1>4
<1> DEFINE l == Len(a)
           y == [k \in 1 .. l |-> x[a[k]]]
<1>7. y \in [1 .. l -> T] BY <1>5, <1>6
<1>8. y \in Seq(T)
  <2>1. l \in Nat BY <1>6
  <2> HIDE DEF l, y
  <2> QED BY <1>7, <2>1
<1> QED BY <1>3, <1>6, <1>8 DEF Buffers, T

\* A span is shown between its marks, and cited when it is one of the quotes.
LEMMA ResolveIs ==
    ASSUME NEW x \in Buffers, NEW t \in Seq(Showable), NEW c \in Seq(Quotes)
    PROVE  LET r == Citations!_resolve_span(Record("prose", <<>>, t, c), x)
           IN  /\ r \in Streams /\ r.state = "prose" /\ r.held = <<>>
               /\ \A b \in Buffers :
                     Citations!_resolve_span(Put(Record("prose", <<>>, t, c), b), x) = Put(r, b)
<1> DEFINE one == Citations!Span("cite", x)
           two == Citations!Span("unverified", x)
           nil == <<>>
           R(b, u, d) == [state |-> "prose", buf |-> b, held |-> nil, text |-> u, citations |-> d]
           T == Seq(Showable)
           C == Seq(Quotes)
<1>1. one \in T /\ two \in T /\ t \o one \in T /\ t \o two \in T
  <2> DEFINE S == Showable
             k == "cite"
             v == "unverified"
             z == "end"
  <2>1. x \in Seq(S) /\ k \in S /\ v \in S /\ z \in S BY ConstantsAre
  <2>2. one = <<k>> \o x \o <<z>> /\ two = <<v>> \o x \o <<z>> BY DEF Citations!Span
  <2> HIDE DEF S, k, v, z, one, two
  <2>3. <<k>> \in Seq(S) /\ <<v>> \in Seq(S) /\ <<z>> \in Seq(S) BY <2>1
  <2>4. <<k>> \o x \in Seq(S) /\ <<v>> \o x \in Seq(S) BY <2>1, <2>3, ConcatProperties
  <2>5. one \in Seq(S) /\ two \in Seq(S) BY <2>2, <2>3, <2>4, ConcatProperties
  <2>6. t \in Seq(S) BY DEF S
  <2>7. t \o one \in Seq(S) /\ t \o two \in Seq(S) BY <2>5, <2>6, ConcatProperties
  <2> QED BY <2>5, <2>7 DEF S
<1>2. x \in Quotes => Append(c, x) \in C
  <2> HIDE DEF nil
  <2> QED BY AppendProperties
<1> DEFINE t1 == t \o one
           t2 == t \o two
           c1 == Append(c, x)
<1>3. nil \in Buffers BY ConstantsAre
<1>4. \A b : Put(Record("prose", <<>>, t, c), b) = R(b, t, c) BY DEF Put, Record
<1>5. Record("prose", <<>>, t, c) = R(nil, t, c) BY DEF Record
<1>6. \A b : Citations!_resolve_span(R(b, t, c), x)
               = IF x \in Quotes THEN R(b, t1, c1) ELSE R(b, t2, c)
  <2> SUFFICES ASSUME NEW b
               PROVE  Citations!_resolve_span(R(b, t, c), x)
                        = IF x \in Quotes THEN R(b, t1, c1) ELSE R(b, t2, c)
    OBVIOUS
  <2> HIDE DEF one, two, nil
  <2>1. /\ Citations!Emit(R(b, t, c), one) = R(b, t1, c)
        /\ Citations!Emit(R(b, t, c), two) = R(b, t2, c)
    <3>1. ASSUME NEW p PROVE Citations!Emit(R(b, t, c), p) = R(b, t \o p, c)
      <4> DEFINE u == t \o p
      <4>1. R(b, t, c).text = t OBVIOUS
      <4>2. Citations!Emit(R(b, t, c), p) = [R(b, t, c) EXCEPT !.text = u]
        <5> HIDE DEF R
        <5> QED BY <4>1, Zenon DEF Citations!Emit
      <4> HIDE DEF u
      <4>3. [R(b, t, c) EXCEPT !.text = u] = R(b, u, c) OBVIOUS
      <4> QED BY <4>2, <4>3 DEF u
    <3> QED BY <3>1
  <2> DEFINE e == Citations!Emit(R(b, t, c), one)
  <2>2. [e EXCEPT !.citations = Append(@, x)] = R(b, t1, c1)
    <3>1. e = R(b, t1, c) BY <2>1
    <3> HIDE DEF e, t1, c1
    <3>2. e.citations = c BY <3>1
    <3>3. [e EXCEPT !.citations = c1] = R(b, t1, c1) BY <3>1
    <3>4. [e EXCEPT !.citations = Append(@, x)] = [e EXCEPT !.citations = c1] BY <3>2 DEF c1
    <3> QED BY <3>3, <3>4
  <2>3. Citations!_resolve_span(R(b, t, c), x)
          = IF x \in Quotes THEN [e EXCEPT !.citations = Append(@, x)]
            ELSE Citations!Emit(R(b, t, c), two)
    <3> HIDE DEF R
    <3> QED BY DEF Citations!_resolve_span, Quotes, one, two
  <2> HIDE DEF e, t1, t2, c1
  <2> QED BY <2>1, <2>2, <2>3
<1> HIDE DEF t1, t2, c1, one, two
<1>7. \A b \in Buffers, u \in T, d \in C : R(b, u, d) \in Streams
  <2>1. "prose" \in Phases BY DEF Phases
  <2> HIDE DEF nil
  <2> QED BY <1>3, <2>1, StreamIs
<1>8. \A b, u, d, f : Put(R(b, u, d), f) = R(f, u, d) BY DEF Put
<1>9. t1 \in T /\ t2 \in T /\ c \in C /\ (x \in Quotes => c1 \in C) BY <1>1, <1>2 DEF t1, t2, c1
<1> DEFINE r == Citations!_resolve_span(Record("prose", <<>>, t, c), x)
<1>10. r = IF x \in Quotes THEN R(nil, t1, c1) ELSE R(nil, t2, c)
  <2> HIDE DEF R, nil
  <2> QED BY <1>5, <1>6
<1>11. r \in Streams
  <2> HIDE DEF R, r, nil, T, C
  <2> QED BY <1>3, <1>7, <1>9, <1>10
<1>12. r.state = "prose" /\ r.held = nil
  <2> HIDE DEF r, nil
  <2> QED BY <1>10
<1>13. ASSUME NEW b \in Buffers
       PROVE  Citations!_resolve_span(Put(Record("prose", <<>>, t, c), b), x) = Put(r, b)
  <2> HIDE DEF R, r, nil
  <2>1. Citations!_resolve_span(Put(Record("prose", <<>>, t, c), b), x)
          = IF x \in Quotes THEN R(b, t1, c1) ELSE R(b, t2, c)
    BY <1>4, <1>6
  <2>2. Put(r, b) = IF x \in Quotes THEN R(b, t1, c1) ELSE R(b, t2, c) BY <1>8, <1>10
  <2> QED BY <2>1, <2>2
<1> HIDE DEF r
<1> QED BY <1>11, <1>12, <1>13 DEF r, nil

\* The stream with these fields.
Made(q, b, h, t, c) == [state |-> q, buf |-> b, held |-> h, text |-> t, citations |-> c]

LEMMA MadeIs ==
    /\ \A s \in Streams : s = Made(s.state, s.buf, s.held, s.text, s.citations)
    /\ \A q, b, h, t, c : /\ Made(q, b, h, t, c).state = q /\ Made(q, b, h, t, c).buf = b
                          /\ Made(q, b, h, t, c).held = h /\ Made(q, b, h, t, c).text = t
                          /\ Made(q, b, h, t, c).citations = c
    /\ \A q \in Phases, b \in Buffers, h \in Buffers, t \in Seq(Showable), c \in Seq(Quotes) :
          Made(q, b, h, t, c) \in Streams
    /\ \A q, b, h, t, c, d : Put(Made(q, b, h, t, c), d) = Made(q, d, h, t, c)
    /\ \A q, b, h, t, c, d : [Made(q, b, h, t, c) EXCEPT !.text = d] = Made(q, b, h, d, c)
    /\ \A q, b, h, t, c, d : [Made(q, b, h, t, c) EXCEPT !.held = d] = Made(q, b, d, t, c)
    /\ \A q, b, h, t, c, d : [Made(q, b, h, t, c) EXCEPT !.buf = d] = Made(q, d, h, t, c)
    /\ \A q, b, h, t, c, d : [Made(q, b, h, t, c) EXCEPT !.state = d] = Made(d, b, h, t, c)
<1>1. \A s \in Streams : s = Made(s.state, s.buf, s.held, s.text, s.citations)
  BY FieldsAre, Zenon DEF Made
<1>2. \A q \in Phases, b \in Buffers, h \in Buffers, t \in Seq(Showable), c \in Seq(Quotes) :
          Made(q, b, h, t, c) \in Streams
  BY StreamIs, Zenon DEF Made
<1>3. \A q, b, h, t, c : /\ Made(q, b, h, t, c).state = q /\ Made(q, b, h, t, c).buf = b
                         /\ Made(q, b, h, t, c).held = h /\ Made(q, b, h, t, c).text = t
                         /\ Made(q, b, h, t, c).citations = c
  BY DEF Made
<1>4. \A q, b, h, t, c, d : Put(Made(q, b, h, t, c), d) = Made(q, d, h, t, c) BY DEF Made, Put
<1>5. \A q, b, h, t, c, d : [Made(q, b, h, t, c) EXCEPT !.text = d] = Made(q, b, h, d, c) BY DEF Made
<1>6. \A q, b, h, t, c, d : [Made(q, b, h, t, c) EXCEPT !.held = d] = Made(q, b, d, t, c) BY DEF Made
<1>7. \A q, b, h, t, c, d : [Made(q, b, h, t, c) EXCEPT !.buf = d] = Made(q, d, h, t, c) BY DEF Made
<1>8. \A q, b, h, t, c, d : [Made(q, b, h, t, c) EXCEPT !.state = d] = Made(d, b, h, t, c) BY DEF Made
<1> QED BY <1>1, <1>2, <1>3, <1>4, <1>5, <1>6, <1>7, <1>8

\* The buffer alone moves on.
LEMMA MovesOn ==
    ASSUME NEW q, NEW b, NEW h, NEW t, NEW c, NEW n
    PROVE  [Made(q, b, h, t, c) EXCEPT !.buf = Citations!After(@, n)]
             = Made(q, Citations!After(b, n), h, t, c)
<1> DEFINE m == Made(q, b, h, t, c)
           a == Citations!After(b, n)
<1>1. m.buf = b BY MadeIs
<1>2. [m EXCEPT !.buf = Citations!After(@, n)] = [m EXCEPT !.buf = a]
  <2> HIDE DEF m
  <2> QED BY <1>1, Zenon
<1>3. [m EXCEPT !.buf = a] = Made(q, a, h, t, c)
  <2> HIDE DEF a
  <2> QED BY MadeIs
<1> QED BY <1>2, <1>3

\* The operations of the stream on its fields.
LEMMA OperationsAre ==
    ASSUME NEW q, NEW b, NEW h, NEW t, NEW c, NEW p
    PROVE  /\ Citations!Emit(Made(q, b, h, t, c), p) = Made(q, b, h, t \o p, c)
           /\ Citations!InState(Made(q, b, h, t, c), p) = Made(p, b, <<>>, t, c)
<1> DEFINE m == Made(q, b, h, t, c)
<1>1. m.text = t /\ m.buf = b BY MadeIs
<1>2. Citations!Emit(m, p) = Made(q, b, h, t \o p, c)
  <2> DEFINE u == t \o p
  <2>1. Citations!Emit(m, p) = [m EXCEPT !.text = u]
    <3> HIDE DEF m
    <3> QED BY <1>1, Zenon DEF Citations!Emit
  <2>2. [m EXCEPT !.text = u] = Made(q, b, h, u, c)
    <3> HIDE DEF u
    <3> QED BY MadeIs
  <2> QED BY <2>1, <2>2
<1>3. Citations!InState(m, p) = Made(p, b, <<>>, t, c)
  <2> DEFINE nil == <<>>
             w == Made(p, b, h, t, c)
  <2>1. Citations!InState(m, p) = [m EXCEPT !.state = p, !.held = nil] BY DEF Citations!InState
  <2> HIDE DEF nil
  <2>2. [m EXCEPT !.state = p] = w BY MadeIs
  <2>3. [w EXCEPT !.held = nil] = Made(p, b, nil, t, c) BY MadeIs
  <2> HIDE DEF m, w
  <2>4. [m EXCEPT !.state = p, !.held = nil] = [[m EXCEPT !.state = p] EXCEPT !.held = nil] OBVIOUS
  <2> QED BY <2>1, <2>2, <2>3, <2>4 DEF nil
<1> QED BY <1>2, <1>3

LEMMA PassedIs ==
    ASSUME NEW s \in Streams, NEW n \in 0 .. Len(s.buf)
    PROVE  /\ Passed(s, n) = IF s.state = "prose"
                           THEN Made(s.state, Citations!After(s.buf, n), s.held,
                                     s.text \o Citations!Upto(s.buf, n), s.citations)
                           ELSE Made(s.state, Citations!After(s.buf, n),
                                     s.held \o Citations!Upto(s.buf, n), s.text, s.citations)
           /\ Passed(s, n) \in Streams /\ Passed(s, n).state = s.state
           /\ Passed(s, n).buf = Citations!After(s.buf, n)
           /\ Front(Passed(s, n)) = Front(s) \o Citations!Upto(s.buf, n)
<1> DEFINE q == s.state
           b == s.buf
           h == s.held
           t == s.text
           c == s.citations
           u == Citations!Upto(b, n)
           a == Citations!After(b, n)
           g == Passed(s, n)
<1>1. /\ q \in Phases /\ b \in Buffers /\ h \in Buffers /\ t \in Seq(Showable) /\ c \in Seq(Quotes)
      /\ s = Made(q, b, h, t, c)
  BY FieldsAre, MadeIs
<1>2. u \in Buffers /\ a \in Buffers /\ u \in Seq(Showable)
  <2> DEFINE T == Citations!Tokens
  <2>1. b \in Seq(T) BY <1>1 DEF Buffers
  <2> HIDE DEF T, b, u, a
  <2>2. u \in Seq(T) /\ a \in Seq(T) BY <2>1, PartsAre DEF b, u, a
  <2> QED BY <2>2, ConstantsAre DEF Buffers, T
<1>3. h \o u \in Buffers /\ t \o u \in Seq(Showable)
  <2>1. h \o u \in Buffers BY <1>1, <1>2, ConcatProperties DEF Buffers
  <2> DEFINE T == Showable
  <2>2. t \in Seq(T) /\ u \in Seq(T) BY <1>1, <1>2
  <2> HIDE DEF T, t, u
  <2>3. t \o u \in Seq(T) BY <2>2, ConcatProperties
  <2> QED BY <2>1, <2>3 DEF T, t, u
<1>4. g = IF q = "prose" THEN Made(q, a, h, t \o u, c) ELSE Made(q, a, h \o u, t, c)
  <2> DEFINE tu == t \o u
             hu == h \o u
  <2>1. CASE q = "prose"
    <3>1. g = [s EXCEPT !.text = tu, !.buf = a] BY <2>1 DEF Passed
    <3> HIDE DEF q, b, h, t, c, u, a, g, tu
    <3> DEFINE w == Made(q, b, h, tu, c)
    <3>2. [s EXCEPT !.text = tu] = w BY <1>1, MadeIs
    <3>3. [w EXCEPT !.buf = a] = Made(q, a, h, tu, c) BY MadeIs
    <3> HIDE DEF w
    <3>4. [s EXCEPT !.text = tu, !.buf = a] = [[s EXCEPT !.text = tu] EXCEPT !.buf = a] OBVIOUS
    <3> QED BY <2>1, <3>1, <3>2, <3>3, <3>4 DEF tu
  <2>2. CASE q # "prose"
    <3>1. g = [s EXCEPT !.held = hu, !.buf = a] BY <2>2 DEF Passed
    <3> HIDE DEF q, b, h, t, c, u, a, g, hu
    <3> DEFINE w == Made(q, b, hu, t, c)
    <3>2. [s EXCEPT !.held = hu] = w BY <1>1, MadeIs
    <3>3. [w EXCEPT !.buf = a] = Made(q, a, hu, t, c) BY MadeIs
    <3> HIDE DEF w
    <3>4. [s EXCEPT !.held = hu, !.buf = a] = [[s EXCEPT !.held = hu] EXCEPT !.buf = a] OBVIOUS
    <3> QED BY <2>2, <3>1, <3>2, <3>3, <3>4 DEF hu
  <2> QED BY <2>1, <2>2
<1> HIDE DEF q, b, h, t, c, u, a, g
<1>5. g \in Streams BY <1>1, <1>2, <1>3, <1>4, MadeIs
<1>6. g.state = q /\ g.buf = a BY <1>4, MadeIs
<1>7. Front(g) = Front(s) \o u
  <2>1. CASE q = "prose"
    <3> DEFINE tu == t \o u
    <3>1. g = Made(q, a, h, tu, c) BY <1>4, <2>1
    <3> HIDE DEF tu
    <3>2. g.text = tu BY <3>1, MadeIs
    <3> QED BY <1>6, <2>1, <3>2 DEF Front, q, t, tu
  <2>2. CASE q # "prose"
    <3> DEFINE hu == h \o u
    <3>1. g = Made(q, a, hu, t, c) BY <1>4, <2>2
    <3> HIDE DEF hu
    <3>2. g.held = hu BY <3>1, MadeIs
    <3> QED BY <1>6, <2>2, <3>2 DEF Front, q, h, hu
  <2> QED BY <2>1, <2>2
<1> QED BY <1>4, <1>5, <1>6, <1>7 DEF q, b, h, t, c, u, a, g

\* Without a stop all passes but what is held back.
LEMMA QuietAdvances ==
    ASSUME NEW s \in Streams, Quiet(s)
    PROVE  Citations!Advance(s) = Passed(s, Len(s.buf) - Hold(s.state, s.buf))
<1> DEFINE q == s.state
           b == s.buf
           h == s.held
           t == s.text
           c == s.citations
           n == Len(b) - Hold(q, b)
           u == Citations!Upto(b, n)
           a == Citations!After(b, n)
<1>1. /\ q \in Phases /\ b \in Buffers /\ h \in Buffers /\ t \in Seq(Showable) /\ c \in Seq(Quotes)
      /\ s = Made(q, b, h, t, c)
  BY FieldsAre, MadeIs
<1>2. n \in 0 .. Len(b) BY <1>1, HoldIs
<1>3. Passed(s, n) = IF q = "prose" THEN Made(q, a, h, t \o u, c) ELSE Made(q, a, h \o u, t, c)
  BY <1>2, PassedIs
<1> HIDE DEF q, b, h, t, c
<1>4. {i \in 1 .. Len(b) : StopsAt(q, b, i)} = {} BY DEF Quiet, q, b
<1>5. CASE q = "prose"
  <2>1. Citations!Triggers(b) = {} BY <1>1, <1>4, <1>5, StopsAre
  <2>2. n = Len(b) - Citations!_partial_suffix_overlap(b, {Citations!OpenTag, Citations!CloseTag})
    BY <1>1, <1>5, HoldIs
  <2>3. Citations!Advance(s) = Citations!_advance_prose(s) BY <1>5 DEF Citations!Advance, q
  <2>4. Citations!_advance_prose(s) = [Citations!Emit(s, u) EXCEPT !.buf = Citations!After(@, n)]
    <3> HIDE DEF n
    <3> QED BY <2>1, <2>2, Zenon DEF Citations!_advance_prose, b, u
  <2> HIDE DEF n, u, a
  <2> DEFINE tu == t \o u
  <2>5. Citations!Emit(s, u) = Made(q, b, h, tu, c) BY <1>1, OperationsAre
  <2> HIDE DEF tu
  <2>6. [Made(q, b, h, tu, c) EXCEPT !.buf = Citations!After(@, n)] = Made(q, a, h, tu, c)
    BY MovesOn DEF a
  <2>7. Passed(s, n) = Made(q, a, h, tu, c) BY <1>3, <1>5 DEF tu
  <2> QED BY <2>3, <2>4, <2>5, <2>6, <2>7 DEF n, q, b
<1>6. CASE q = "in_tag"
  <2>1. {i \in 1 .. Len(b) - 1 : Citations!At(b, i, Citations!CloseTag)} = {} BY <1>1, <1>4, <1>6, StopsAre
  <2>2. n = Len(b) - Citations!_partial_suffix_overlap(b, {Citations!CloseTag}) BY <1>1, <1>6, HoldIs
  <2>3. Citations!Advance(s) = Citations!_advance_in_tag(s) BY <1>6 DEF Citations!Advance, q
  <2> DEFINE hu == h \o u
  <2>4. Citations!_advance_in_tag(s)
          = [s EXCEPT !.held = @ \o Citations!Upto(b, n), !.buf = Citations!After(@, n)]
    <3> HIDE DEF n
    <3> QED BY <2>1, <2>2, Zenon DEF Citations!_advance_in_tag, b
  <2>5. Citations!_advance_in_tag(s) = [s EXCEPT !.held = hu, !.buf = a]
    <3>1. s.held = h /\ s.buf = b BY DEF h, b
    <3> HIDE DEF n, hu
    <3>2. [s EXCEPT !.held = @ \o Citations!Upto(b, n), !.buf = Citations!After(@, n)]
            = [s EXCEPT !.held = hu, !.buf = a]
      BY <3>1 DEF hu, u, a
    <3> QED BY <2>4, <3>2
  <2> HIDE DEF n, u, a, hu
  <2> DEFINE w == Made(q, b, hu, t, c)
  <2>6. [s EXCEPT !.held = hu] = w BY <1>1, MadeIs
  <2>7. [w EXCEPT !.buf = a] = Made(q, a, hu, t, c) BY MadeIs
  <2> HIDE DEF w
  <2>8. [s EXCEPT !.held = hu, !.buf = a] = [[s EXCEPT !.held = hu] EXCEPT !.buf = a] OBVIOUS
  <2>9. Passed(s, n) = Made(q, a, hu, t, c) BY <1>3, <1>6 DEF hu
  <2> QED BY <2>3, <2>5, <2>6, <2>7, <2>8, <2>9 DEF n, q, b
<1>7. CASE q = "in_quote"
  <2>1. {i \in DOMAIN b : b[i] \in {Citations!Quote, Citations!LtCi, Citations!LtSlCi}} = {}
    BY <1>1, <1>4, <1>7, StopsAre
  <2>2. n = Len(b) /\ Len(b) \in Nat
    <3>1. Hold(q, b) = 0 /\ Len(b) \in Nat BY <1>1, <1>7, HoldIs DEF Buffers
    <3> QED BY <3>1
  <2>3. u = b /\ a = <<>>
    <3> DEFINE T == Citations!Tokens
    <3>1. b \in Seq(T) BY <1>1 DEF Buffers
    <3>2. Len(b) < Len(b) + 1 BY <2>2
    <3> HIDE DEF T
    <3>3. SubSeq(b, 1, Len(b)) = b BY <3>1, SubSeqFull
    <3>4. SubSeq(b, Len(b) + 1, Len(b)) = <<>>
      <4> DEFINE l == Len(b)
                 m == Len(b) + 1
      <4>1. m \in Int /\ l \in Int /\ l < m BY <2>2
      <4> HIDE DEF l, m
      <4>2. SubSeq(b, m, l) = <<>> BY <4>1, SubSeqEmpty
      <4> QED BY <4>2 DEF l, m
    <3> HIDE DEF n
    <3> QED BY <2>2, <3>3, <3>4 DEF u, a, Citations!Upto, Citations!After
  <2>4. Citations!Advance(s) = Citations!_advance_in_quote(s) BY <1>7 DEF Citations!Advance, q
  <2> DEFINE hb == h \o b
             nil == <<>>
  <2>5. Citations!_advance_in_quote(s) = [s EXCEPT !.held = @ \o b, !.buf = <<>>]
    BY <2>1, Zenon DEF Citations!_advance_in_quote, b
  <2>6. Citations!_advance_in_quote(s) = [s EXCEPT !.held = hb, !.buf = nil]
    <3>1. s.held = h BY DEF h
    <3> HIDE DEF hb
    <3>2. [s EXCEPT !.held = @ \o b, !.buf = <<>>] = [s EXCEPT !.held = hb, !.buf = <<>>]
      BY <3>1 DEF hb
    <3> QED BY <2>5, <3>2
  <2> HIDE DEF n, u, a, hb, nil
  <2> DEFINE w == Made(q, b, hb, t, c)
  <2>7. [s EXCEPT !.held = hb] = w BY <1>1, MadeIs
  <2>8. [w EXCEPT !.buf = nil] = Made(q, nil, hb, t, c) BY MadeIs
  <2> HIDE DEF w
  <2>9. [s EXCEPT !.held = hb, !.buf = nil] = [[s EXCEPT !.held = hb] EXCEPT !.buf = nil] OBVIOUS
  <2>10. Passed(s, n) = Made(q, nil, hb, t, c) BY <1>3, <1>7, <2>3 DEF hb, nil
  <2> QED BY <2>4, <2>6, <2>7, <2>8, <2>9, <2>10 DEF n, q, b
<1> QED BY <1>1, <1>5, <1>6, <1>7 DEF Phases, n, q, b

\* What is stopped is a stream, and takes its tokens from what was there.
LEMMA StoppedIs ==
    ASSUME NEW s \in Streams, NEW x, s.state = "prose" => x \in Seq(Showable),
           s.state # "prose" => x \in Buffers, NEW z
    PROVE  Stopped(s, x, z) \in Streams
<1> DEFINE nil == <<>>
           h == s.held
           t == s.text
           c == s.citations
           S == Showable
           quote == <<Citations!Quote>>
           P == Made("prose", nil, nil, t, c)
<1>1. /\ s.state \in Phases /\ h \in Buffers /\ t \in Seq(S) /\ c \in Seq(Quotes) /\ nil \in Buffers
      /\ quote \in Seq(S) /\ Buffers \subseteq Seq(S)
  BY FieldsAre, ConstantsAre
<1>2. \A q, g, u, d : Record(q, g, u, d) = Made(q, nil, g, u, d) BY DEF Record, Made
<1> HIDE DEF h, t, c, nil, S, quote, P
<1>3. CASE s.state = "prose"
  <2>1. x \in Seq(S) BY <1>3 DEF S
  <2>2. \A q \in Phases : Made(q, nil, nil, x, c) \in Streams /\ Made(q, nil, h, x, c) \in Streams
    BY <1>1, <2>1, MadeIs DEF S
  <2>3. \/ Stopped(s, x, z) = Record("in_quote", nil, x, c)
        \/ Stopped(s, x, z) = Record("in_tag", nil, x, c)
        \/ Stopped(s, x, z) = Record("prose", h, x, c)
    BY <1>3 DEF Stopped, nil, c, h
  <2> QED BY <1>2, <2>2, <2>3 DEF Phases
<1>4. CASE s.state = "in_tag"
  <2> DEFINE y == Citations!_strip_tag_markup(x)
             r == Citations!_resolve_span(Record("prose", <<>>, t, c), y)
  <2>1. x \in Buffers BY <1>4
  <2>2. y \in Buffers BY <2>1, StripIs
  <2>3. Stopped(s, x, z) = r BY <1>4 DEF Stopped, t, c
  <2> HIDE DEF y
  <2>4. r \in Streams BY <1>1, <2>2, ResolveIs DEF S
  <2> QED BY <2>3, <2>4
<1>5. CASE s.state = "in_quote"
  <2> DEFINE r == Citations!_resolve_span(Record("prose", <<>>, t, c), x)
             one == t \o (quote \o x)
             two == t \o (quote \o x \o quote)
  <2>1. x \in Buffers /\ x \in Seq(S) BY <1>1, <1>5
  <2>2. r \in Streams BY <1>1, <2>1, ResolveIs DEF S
  <2>3. one \in Seq(S) /\ two \in Seq(S)
    <3>1. quote \o x \in Seq(S) BY <1>1, <2>1, ConcatProperties
    <3>2. quote \o x \o quote \in Seq(S) BY <1>1, <3>1, ConcatProperties
    <3> QED BY <1>1, <3>1, <3>2, ConcatProperties
  <2>4. \/ Stopped(s, x, z) = r
        \/ Stopped(s, x, z) = Record("prose", nil, one, c)
        \/ Stopped(s, x, z) = Record("prose", nil, two, c)
    <3>1. s.state # "prose" /\ s.state # "in_tag" BY <1>5
    <3>2. Stopped(s, x, z) =
             IF z # Citations!Quote THEN Record("prose", nil, one, c)
             ELSE IF Len(x) >= MinQuote THEN r ELSE Record("prose", nil, two, c)
      BY <3>1 DEF Stopped, nil, t, c, quote
    <3> HIDE DEF r, one, two
    <3> QED BY <3>2
  <2> HIDE DEF r, one, two
  <2>5. \A u \in Seq(S) : Made("prose", nil, nil, u, c) \in Streams
    BY <1>1, MadeIs DEF S, Phases
  <2> QED BY <1>2, <2>2, <2>3, <2>4, <2>5
<1> QED BY <1>1, <1>3, <1>4, <1>5 DEF Phases

\* The first of some positions.
LEMMA FirstInIs ==
    ASSUME NEW P, NEW i \in P, \A j \in P : i <= j, P \subseteq Int
    PROVE  Citations!FirstIn(P) = i
<1>1. \E k \in P : \A j \in P : k <= j OBVIOUS
<1> DEFINE f == Citations!FirstIn(P)
<1>2. f \in P /\ \A j \in P : f <= j BY <1>1, Zenon DEF Citations!FirstIn
<1> HIDE DEF f
<1>3. f <= i /\ i <= f /\ f \in Int /\ i \in Int BY <1>2
<1>4. f = i BY <1>3
<1> QED BY <1>4 DEF f

\* The first stop: what came before it passes, and it takes its tokens.
LEMMA StopAdvances ==
    ASSUME NEW s \in Streams, NEW i, FirstStop(s, i)
    PROVE  /\ i \in 1 .. Len(s.buf) /\ i - 1 + Takes(s.state, s.buf[i]) \in 0 .. Len(s.buf)
           /\ i - 1 \in 0 .. Len(s.buf)
           /\ Stopped(s, Front(s) \o Citations!Upto(s.buf, i - 1), s.buf[i]) \in Streams
           /\ Citations!Advance(s)
                = Put(Stopped(s, Front(s) \o Citations!Upto(s.buf, i - 1), s.buf[i]),
                      Citations!After(s.buf, i - 1 + Takes(s.state, s.buf[i])))
<1> DEFINE q == s.state
           b == s.buf
           h == s.held
           t == s.text
           c == s.citations
           z == b[i]
           n == i - 1
           m == n + Takes(q, z)
           u == Citations!Upto(b, n)
           a == Citations!After(b, m)
           nil == <<>>
<1>1. /\ q \in Phases /\ b \in Buffers /\ h \in Buffers /\ t \in Seq(Showable) /\ c \in Seq(Quotes)
      /\ s = Made(q, b, h, t, c)
  BY FieldsAre, MadeIs
<1>2. i \in 1 .. Len(b) /\ Len(b) \in Nat /\ i \in Int /\ n \in 0 .. Len(b)
  BY <1>1 DEF FirstStop, StopsAt, Buffers
<1>3. StopsAt(q, b, i) /\ \A j \in {k \in 1 .. Len(b) : StopsAt(q, b, k)} : i <= j BY DEF FirstStop
<1>4. m \in 0 .. Len(b) /\ (Takes(q, z) = 2 => i < Len(b) /\ m = i + 1)
      /\ (Takes(q, z) = 1 => m = i) /\ (Takes(q, z) = 0 => m = n)
  <2>1. Takes(q, z) \in {0, 1, 2} BY DEF Takes
  <2>2. Takes(q, z) = 2 => i < Len(b)
    BY <1>3 DEF Takes, StopsAt, Marked, Citations!Quote, Citations!LtCi, Citations!LtSlCi
  <2> QED BY <1>2, <2>1, <2>2
<1>5. /\ {k \in 1 .. Len(b) : StopsAt(q, b, k)} \subseteq Int
      /\ i \in {k \in 1 .. Len(b) : StopsAt(q, b, k)}
  BY <1>2, <1>3
<1>6. Citations!FirstIn({k \in 1 .. Len(b) : StopsAt(q, b, k)}) = i BY <1>3, <1>5, FirstInIs
<1>7. {k \in 1 .. Len(b) : StopsAt(q, b, k)} # {} BY <1>5
<1>8. u \in Buffers
  <2> DEFINE T == Citations!Tokens
  <2>1. b \in Seq(T) BY <1>1 DEF Buffers
  <2> HIDE DEF T, b, u, n
  <2>2. u \in Seq(T) BY <1>2, <2>1, PartsAre DEF u
  <2> QED BY <2>2 DEF Buffers, T
<1>9. Stopped(s, Front(s) \o u, z) \in Streams
  <2>1. q = "prose" => t \o u \in Seq(Showable)
    <3> DEFINE S == Showable
    <3>1. t \in Seq(S) /\ u \in Seq(S) BY <1>1, <1>8, ConstantsAre
    <3> HIDE DEF S, t, u
    <3>2. t \o u \in Seq(S) BY <3>1, ConcatProperties
    <3> QED BY <3>2 DEF S
  <2>2. h \o u \in Buffers BY <1>1, <1>8, ConcatProperties DEF Buffers
  <2>3. (q = "prose" => Front(s) = t) /\ (q # "prose" => Front(s) = h) BY DEF Front
  <2> DEFINE x == Front(s) \o u
  <2>4. (q = "prose" => x \in Seq(Showable)) /\ (q # "prose" => x \in Buffers) BY <2>1, <2>2, <2>3
  <2> HIDE DEF x, z
  <2>5. Stopped(s, x, z) \in Streams BY <2>4, StoppedIs
  <2> QED BY <2>5 DEF x
<1>10. \A p, g, v, d : Record(p, g, v, d) = Made(p, nil, g, v, d) BY DEF Record, Made
<1>11. b[i] = z OBVIOUS
<1> HIDE DEF q, b, h, t, c, z, n, m, u, a, nil
<1>12. CASE q = "prose"
  <2> DEFINE tu == t \o u
             next == [Citations!Emit(s, u) EXCEPT !.buf = Citations!After(@, m)]
  <2>1. Citations!Triggers(b) # {} /\ Citations!FirstIn(Citations!Triggers(b)) = i
    BY <1>1, <1>6, <1>7, <1>12, StopsAre
  <2>2. Citations!Advance(s) = Citations!_advance_prose(s) BY <1>12 DEF Citations!Advance, q
  <2>3. m = IF z = Citations!Quote THEN i ELSE i + 1 BY <1>2, <1>4, <1>12 DEF Takes
  <2>4. Citations!_advance_prose(s)
          = IF z = Citations!Quote THEN Citations!InState(next, "in_quote")
            ELSE IF Citations!At(b, i, Citations!OpenTag) THEN Citations!InState(next, "in_tag") ELSE next
    BY <2>1, <2>3, Zenon DEF Citations!_advance_prose, b, z, u, n
  <2>5. z # Citations!Quote => (Citations!At(b, i, Citations!OpenTag) <=> z = Citations!LtCi)
    <3>1. z # Citations!Quote => i < Len(b) /\ b[i + 1] = Citations!Te
      BY <1>3, <1>11, <1>12 DEF StopsAt
    <3> QED BY <1>1, <1>2, <1>11, <3>1, TagsAre
  <2>6. Citations!Emit(s, u) = Made(q, b, h, tu, c) BY <1>1, OperationsAre
  <2> HIDE DEF tu
  <2>7. next = Made(q, a, h, tu, c)
    <3>1. [Made(q, b, h, tu, c) EXCEPT !.buf = Citations!After(@, m)] = Made(q, a, h, tu, c)
      BY MovesOn DEF a
    <3> QED BY <2>6, <3>1
  <2> HIDE DEF next
  <2>8. \A p : Citations!InState(next, p) = Made(p, a, nil, tu, c) BY <2>7, OperationsAre DEF nil
  <2>9. Citations!Advance(s)
          = IF z = Citations!Quote THEN Made("in_quote", a, nil, tu, c)
            ELSE IF z = Citations!LtCi THEN Made("in_tag", a, nil, tu, c) ELSE Made("prose", a, h, tu, c)
    BY <1>12, <2>2, <2>4, <2>5, <2>7, <2>8
  <2>10. Stopped(s, tu, z)
           = IF z = Citations!Quote THEN Made("in_quote", nil, nil, tu, c)
             ELSE IF z = Citations!LtCi THEN Made("in_tag", nil, nil, tu, c) ELSE Made("prose", nil, h, tu, c)
    <3>1. Stopped(s, tu, z)
            = IF z = Citations!Quote THEN Record("in_quote", nil, tu, c)
              ELSE IF z = Citations!LtCi THEN Record("in_tag", nil, tu, c) ELSE Record("prose", h, tu, c)
      BY <1>12, Zenon DEF Stopped, q, nil, c, h
    <3> QED BY <1>10, <3>1
  <2>11. Put(Stopped(s, tu, z), a)
           = IF z = Citations!Quote THEN Made("in_quote", a, nil, tu, c)
             ELSE IF z = Citations!LtCi THEN Made("in_tag", a, nil, tu, c) ELSE Made("prose", a, h, tu, c)
    BY <2>10, MadeIs
  <2>12. Citations!Advance(s) = Put(Stopped(s, tu, z), a) BY <2>9, <2>11
  <2>13. Front(s) \o u = tu BY <1>12 DEF Front, q, t, tu
  <2> QED BY <1>2, <1>4, <1>9, <2>12, <2>13 DEF a, m, n, u, z, b, q
<1>13. CASE q = "in_tag"
  <2> DEFINE hu == h \o u
             y == Citations!_strip_tag_markup(hu)
             w == [Citations!InState(s, "prose") EXCEPT !.buf = Citations!After(@, m)]
             r == Citations!_resolve_span(Record("prose", <<>>, t, c), y)
  <2>1. {k \in 1 .. Len(b) - 1 : Citations!At(b, k, Citations!CloseTag)} # {}
        /\ Citations!FirstIn({k \in 1 .. Len(b) - 1 : Citations!At(b, k, Citations!CloseTag)}) = i
    BY <1>1, <1>6, <1>7, <1>13, StopsAre
  <2>2. Citations!Advance(s) = Citations!_advance_in_tag(s) BY <1>13 DEF Citations!Advance, q
  <2>3. m = i + 1
    <3>1. z # Citations!Quote
      BY <1>3, <1>11, <1>13 DEF StopsAt, Citations!Quote, Citations!LtSlCi
    <3> QED BY <1>2, <1>4, <1>13, <3>1 DEF Takes
  <2>4. Citations!_advance_in_tag(s) = Citations!_resolve_span(w, y)
    BY <2>1, <2>3, Zenon DEF Citations!_advance_in_tag, b, h, u, n
  <2>5. w = Made("prose", a, nil, t, c)
    <3>1. Citations!InState(s, "prose") = Made("prose", b, nil, t, c) BY <1>1, OperationsAre DEF nil
    <3>2. [Made("prose", b, nil, t, c) EXCEPT !.buf = Citations!After(@, m)] = Made("prose", a, nil, t, c)
      BY MovesOn DEF a
    <3> QED BY <3>1, <3>2
  <2>6. w = Put(Record("prose", <<>>, t, c), a)
    <3>1. Record("prose", <<>>, t, c) = Made("prose", nil, nil, t, c) BY <1>10 DEF nil
    <3>2. Put(Made("prose", nil, nil, t, c), a) = Made("prose", a, nil, t, c) BY MadeIs
    <3> HIDE DEF w
    <3> QED BY <2>5, <3>1, <3>2
  <2>7. hu \in Buffers BY <1>1, <1>8, ConcatProperties DEF Buffers
  <2>8. y \in Buffers BY <2>7, StripIs
  <2>9. a \in Buffers
    <3> DEFINE T == Citations!Tokens
    <3>1. b \in Seq(T) BY <1>1 DEF Buffers
    <3> HIDE DEF T
    <3>2. a \in Seq(T) BY <1>4, <3>1, PartsAre DEF a
    <3> QED BY <3>2 DEF Buffers, T
  <2> HIDE DEF y, w
  <2>10. Citations!_resolve_span(Put(Record("prose", <<>>, t, c), a), y) = Put(r, a)
    BY <1>1, <2>8, <2>9, ResolveIs
  <2>11. Stopped(s, hu, z) = r BY <1>13, Zenon DEF Stopped, q, t, c, y
  <2> HIDE DEF r, hu
  <2>12. Citations!Advance(s) = Put(Stopped(s, hu, z), a) BY <2>2, <2>4, <2>6, <2>10, <2>11
  <2>13. Front(s) \o u = hu BY <1>13 DEF Front, q, h, hu
  <2> QED BY <1>2, <1>4, <1>9, <2>12, <2>13 DEF a, m, n, u, z, b, q
<1>14. CASE q = "in_quote"
  <2> DEFINE hu == h \o u
             E == {k \in DOMAIN b : b[k] \in {Citations!Quote, Citations!LtCi, Citations!LtSlCi}}
             P == Citations!InState(s, "prose")
             one == <<Citations!Quote>> \o hu
             two == <<Citations!Quote>> \o hu \o <<Citations!Quote>>
             r == Citations!_resolve_span(Record("prose", <<>>, t, c), hu)
  <2>1. E # {} /\ Citations!FirstIn(E) = i BY <1>1, <1>6, <1>7, <1>14, StopsAre
  <2>2. Citations!Advance(s) = Citations!_advance_in_quote(s) BY <1>14 DEF Citations!Advance, q
  <2>3. m = IF z # Citations!Quote THEN n ELSE i BY <1>2, <1>4, <1>14 DEF Takes
  <2>4. Citations!_advance_in_quote(s)
          = IF z # Citations!Quote THEN [Citations!Emit(P, one) EXCEPT !.buf = Citations!After(@, m)]
            ELSE IF Len(hu) >= MinQuote
            THEN Citations!_resolve_span([P EXCEPT !.buf = Citations!After(@, m)], hu)
            ELSE [Citations!Emit(P, two) EXCEPT !.buf = Citations!After(@, m)]
    <3> HIDE DEF P
    <3> QED BY <2>1, <2>3, Zenon DEF Citations!_advance_in_quote, b, z, h, u, n, P
  <2>5. hu \in Buffers BY <1>1, <1>8, ConcatProperties DEF Buffers
  <2>6. a \in Buffers
    <3> DEFINE T == Citations!Tokens
    <3>1. b \in Seq(T) BY <1>1 DEF Buffers
    <3> HIDE DEF T
    <3>2. a \in Seq(T) BY <1>4, <3>1, PartsAre DEF a
    <3> QED BY <3>2 DEF Buffers, T
  <2>7. P = Made("prose", b, nil, t, c) BY <1>1, OperationsAre DEF nil
  <2> HIDE DEF P, hu, E
  <2>8. \A v : [Citations!Emit(P, v) EXCEPT !.buf = Citations!After(@, m)] = Made("prose", a, nil, t \o v, c)
    <3> SUFFICES ASSUME NEW v
                 PROVE  [Citations!Emit(P, v) EXCEPT !.buf = Citations!After(@, m)]
                          = Made("prose", a, nil, t \o v, c)
      OBVIOUS
    <3> DEFINE tv == t \o v
    <3>1. Citations!Emit(P, v) = Made("prose", b, nil, tv, c) BY <2>7, OperationsAre
    <3> HIDE DEF tv
    <3>2. [Made("prose", b, nil, tv, c) EXCEPT !.buf = Citations!After(@, m)] = Made("prose", a, nil, tv, c)
      BY MovesOn DEF a
    <3> QED BY <3>1, <3>2 DEF tv
  <2>9. Citations!_resolve_span([P EXCEPT !.buf = Citations!After(@, m)], hu) = Put(r, a)
    <3>1. [Made("prose", b, nil, t, c) EXCEPT !.buf = Citations!After(@, m)] = Made("prose", a, nil, t, c)
      BY MovesOn DEF a
    <3>2. Record("prose", <<>>, t, c) = Made("prose", nil, nil, t, c) BY <1>10 DEF nil
    <3>3. Put(Made("prose", nil, nil, t, c), a) = Made("prose", a, nil, t, c) BY MadeIs
    <3>4. Citations!_resolve_span(Put(Record("prose", <<>>, t, c), a), hu) = Put(r, a)
      BY <1>1, <2>5, <2>6, ResolveIs
    <3> HIDE DEF r
    <3> QED BY <2>7, <3>1, <3>2, <3>3, <3>4
  <2> DEFINE t1 == t \o one
             t2 == t \o two
  <2>10. Stopped(s, hu, z)
          = IF z # Citations!Quote THEN Record("prose", nil, t1, c)
            ELSE IF Len(hu) >= MinQuote THEN r ELSE Record("prose", nil, t2, c)
    <3>1. s.state # "prose" /\ s.state # "in_tag" BY <1>14 DEF q
    <3> QED BY <3>1, Zenon DEF Stopped, nil, t, c
  <2>11. \A v : Put(Record("prose", nil, v, c), a) = Made("prose", a, nil, v, c)
    BY <1>10, MadeIs
  <2> HIDE DEF r, one, two
  <2>12. Citations!Advance(s)
          = IF z # Citations!Quote THEN Made("prose", a, nil, t1, c)
            ELSE IF Len(hu) >= MinQuote THEN Put(r, a) ELSE Made("prose", a, nil, t2, c)
    BY <2>2, <2>4, <2>8, <2>9
  <2> HIDE DEF t1, t2
  <2>13. Citations!Advance(s) = Put(Stopped(s, hu, z), a) BY <2>10, <2>11, <2>12
  <2>14. Front(s) \o u = hu BY <1>14 DEF Front, q, h, hu
  <2> QED BY <1>2, <1>4, <1>9, <2>13, <2>14 DEF a, m, n, u, z, b, q
<1> QED BY <1>1, <1>12, <1>13, <1>14 DEF Phases, a, m, n, u, z, b, q

-----------------------------------------------------------------------------
(* Citations: an advance, and more.                                         *)

\* What goes through a stream is made of tokens and marks.
LEMMA FrontIs ==
    ASSUME NEW s \in Streams, NEW n \in 0 .. Len(s.buf)
    PROVE  /\ Front(s) \in Seq(Showable) /\ Citations!Upto(s.buf, n) \in Seq(Showable)
           /\ s.state = "prose" => Front(s) = s.text
           /\ s.state # "prose" => Front(s) = s.held
<1> DEFINE T == Citations!Tokens
           b == s.buf
           u == Citations!Upto(b, n)
<1>1. /\ s.held \in Buffers /\ s.text \in Seq(Showable) /\ Buffers \subseteq Seq(Showable)
      /\ b \in Seq(T) /\ n \in 0 .. Len(b)
  BY FieldsAre, ConstantsAre DEF Buffers
<1>2. u \in Seq(Showable)
  <2>1. u \in Seq(T)
    <3> HIDE DEF T, b
    <3> QED BY <1>1, PartsAre
  <2> HIDE DEF u
  <2> QED BY <2>1, <1>1 DEF Buffers
<1> QED BY <1>1, <1>2 DEF Front

\* Passing twice is passing once.
LEMMA GoneTwice ==
    ASSUME NEW s \in Streams, NEW n \in 0 .. Len(s.buf), NEW m \in 0 .. Len(s.buf) - n
    PROVE  /\ Passed(Passed(s, n), m) = Passed(s, n + m)
           /\ Front(s) \o Citations!Upto(s.buf, n) \o Citations!Upto(Citations!After(s.buf, n), m)
                = Front(s) \o Citations!Upto(s.buf, n + m)
<1> DEFINE q == s.state
           b == s.buf
           h == s.held
           t == s.text
           c == s.citations
           f == Front(s)
           u == Citations!Upto(b, n)
           a == Citations!After(b, n)
           w == Citations!Upto(a, m)
           v == Citations!After(a, m)
           x == Citations!Upto(b, n + m)
           y == Citations!After(b, n + m)
           g == Passed(s, n)
           S == Showable
           T == Citations!Tokens
<1>1. b \in Seq(T) /\ n \in 0 .. Len(b) /\ m \in 0 .. Len(b) - n BY FieldsAre DEF Buffers
<1>2. n + m \in 0 .. Len(b) /\ m \in 0 .. Len(a) /\ u \o w = x /\ v = y
  <2> HIDE DEF T, b
  <2> QED BY <1>1, PartsOfParts
<1>3. /\ g \in Streams /\ g.state = q /\ g.buf = a /\ Front(g) = f \o u
      /\ g = IF q = "prose" THEN Made(q, a, h, t \o u, c) ELSE Made(q, a, h \o u, t, c)
  BY PassedIs
<1>4. Passed(s, n + m) = IF q = "prose" THEN Made(q, y, h, t \o x, c) ELSE Made(q, y, h \o x, t, c)
  <2> DEFINE k == n + m
  <2>1. k \in 0 .. Len(s.buf) BY <1>2
  <2> HIDE DEF k
  <2>2. Passed(s, k) = IF q = "prose"
                     THEN Made(q, Citations!After(b, k), h, t \o Citations!Upto(b, k), c)
                     ELSE Made(q, Citations!After(b, k), h \o Citations!Upto(b, k), t, c)
    BY <2>1, PassedIs
  <2> QED BY <2>2 DEF k
<1>5. f \in Seq(S) /\ u \in Seq(S) /\ w \in Seq(S)
  <2>1. f \in Seq(S) /\ u \in Seq(S) BY FrontIs
  <2>2. m \in 0 .. Len(g.buf) BY <1>2, <1>3
  <2> HIDE DEF g, a
  <2>3. Citations!Upto(g.buf, m) \in Seq(S) BY <1>3, <2>2, FrontIs
  <2> QED BY <1>3, <2>1, <2>3
<1>6. f \o u \o w = f \o x
  <2> HIDE DEF f, u, w, x, S
  <2>1. (f \o u) \o w = f \o (u \o w) BY <1>5, ConcatAssociative
  <2> QED BY <1>2, <2>1
<1>7. Passed(g, m) = IF q = "prose" THEN Made(q, v, g.held, g.text \o w, g.citations)
                   ELSE Made(q, v, g.held \o w, g.text, g.citations)
  <2>1. m \in 0 .. Len(g.buf) BY <1>2, <1>3
  <2> HIDE DEF g, a, q
  <2>2. Passed(g, m) = IF g.state = "prose"
                     THEN Made(g.state, Citations!After(g.buf, m), g.held,
                               g.text \o Citations!Upto(g.buf, m), g.citations)
                     ELSE Made(g.state, Citations!After(g.buf, m),
                               g.held \o Citations!Upto(g.buf, m), g.text, g.citations)
    BY <1>3, <2>1, PassedIs
  <2> QED BY <1>3, <2>2
<1>8. (q = "prose" => f = t) /\ (q # "prose" => f = h) BY FrontIs
<1> HIDE DEF q, b, h, t, c, f, u, a, w, v, x, y, g
<1>9. Passed(g, m) = Passed(s, n + m)
  <2>1. CASE q = "prose"
    <3> DEFINE tu == t \o u
    <3>1. g = Made(q, a, h, tu, c) BY <1>3, <2>1
    <3> HIDE DEF tu
    <3>2. g.held = h /\ g.text = tu /\ g.citations = c BY <3>1, MadeIs
    <3>3. tu \o w = t \o x BY <1>6, <1>8, <2>1 DEF tu
    <3>4. Passed(g, m) = Made(q, v, h, tu \o w, c) BY <1>7, <2>1, <3>2
    <3> QED BY <1>2, <1>4, <2>1, <3>3, <3>4
  <2>2. CASE q # "prose"
    <3> DEFINE hu == h \o u
    <3>1. g = Made(q, a, hu, t, c) BY <1>3, <2>2
    <3> HIDE DEF hu
    <3>2. g.held = hu /\ g.text = t /\ g.citations = c BY <3>1, MadeIs
    <3>3. hu \o w = h \o x BY <1>6, <1>8, <2>2 DEF hu
    <3>4. Passed(g, m) = Made(q, v, hu \o w, t, c) BY <1>7, <2>2, <3>2
    <3> QED BY <1>2, <1>4, <2>2, <3>3, <3>4
  <2> QED BY <2>1, <2>2
<1> QED BY <1>6, <1>9 DEF b, f, u, a, w, x, g

\* A stop sees of the stream only what its state keeps beside the run.
LEMMA StoppedSame ==
    ASSUME NEW s, NEW r, r.state = s.state, r.citations = s.citations,
           s.state = "prose" => r.held = s.held, s.state # "prose" => r.text = s.text
    PROVE  \A x, z : Stopped(r, x, z) = Stopped(s, x, z)
<1> SUFFICES ASSUME NEW x, NEW z PROVE Stopped(r, x, z) = Stopped(s, x, z) OBVIOUS
<1>1. CASE s.state = "prose" BY <1>1, Zenon DEF Stopped
<1>2. CASE s.state = "in_tag"
  <2>1. r.state # "prose" /\ s.state # "prose" /\ r.text = s.text BY <1>2
  <2> QED BY <1>2, <2>1, Zenon DEF Stopped
<1>3. CASE s.state # "prose" /\ s.state # "in_tag"
  <2>1. r.text = s.text BY <1>3
  <2> QED BY <1>3, <2>1, Zenon DEF Stopped
<1> QED BY <1>1, <1>2, <1>3

\* A stream with a stop has a first one.
LEMMA FirstStopExists ==
    ASSUME NEW s \in Streams, ~Quiet(s)
    PROVE  \E i \in 1 .. Len(s.buf) : FirstStop(s, i)
<1> DEFINE R == OpToRel(<, Nat)
           P == {i \in Nat : i \in 1 .. Len(s.buf) /\ StopsAt(s.state, s.buf, i)}
<1>1. P # {} /\ P \subseteq Nat
  <2>1. Len(s.buf) \in Nat BY FieldsAre DEF Buffers
  <2> QED BY <2>1 DEF Quiet
<1>2. IsWellFoundedOn(R, Nat) BY NatLessThanWellFounded
<1>3. \A x, y \in Nat : x < y => <<x, y>> \in R BY DEF OpToRel
<1> HIDE DEF R
<1>4. PICK m \in P : \A y \in P : ~ (<<y, m>> \in R)
  <2> HIDE DEF P
  <2> QED BY <1>1, <1>2, WFMin
<1>5. m \in Nat /\ m \in 1 .. Len(s.buf) /\ StopsAt(s.state, s.buf, m) OBVIOUS
<1>6. \A j \in 1 .. Len(s.buf) : StopsAt(s.state, s.buf, j) => j \in P /\ j \in Nat OBVIOUS
<1>7. ASSUME NEW j \in P PROVE m <= j
  <2>1. j \in Nat /\ m \in Nat BY <1>5
  <2>2. ~(j < m) BY <1>3, <1>4, <2>1
  <2> QED BY <2>1, <2>2
<1> HIDE DEF P
<1>8. FirstStop(s, m) BY <1>5, <1>6, <1>7 DEF FirstStop
<1> QED BY <1>5, <1>8

\* What no stop holds and no markup may need can pass before the advance.
LEMMA PassedBefore ==
    ASSUME NEW s \in Streams, NEW n \in 0 .. Len(s.buf),
           n <= Len(s.buf) - Hold(s.state, s.buf),
           \A j \in 1 .. Len(s.buf) : StopsAt(s.state, s.buf, j) => n < j
    PROVE  Citations!Advance(Passed(s, n)) = Citations!Advance(s)
<1> DEFINE q == s.state
           b == s.buf
           a == Citations!After(b, n)
           u == Citations!Upto(b, n)
           g == Passed(s, n)
           l == Len(b)
<1>1. b \in Buffers /\ l \in Nat /\ n \in Nat /\ n <= l /\ q \in Phases BY FieldsAre DEF Buffers
<1>2. g \in Streams /\ g.state = q /\ g.buf = a /\ Front(g) = Front(s) \o u BY PassedIs
<1>3. Len(a) = l - n /\ a \in Buffers /\ \A i \in 1 .. l - n : a[i] = b[n + i]
  <2> DEFINE T == Citations!Tokens
  <2>1. b \in Seq(T) /\ n \in 0 .. Len(b) BY <1>1 DEF Buffers
  <2> HIDE DEF T, b
  <2>2. a \in Seq(T) /\ Len(a) = Len(b) - n /\ \A i \in 1 .. Len(b) - n : a[i] = b[n + i]
    BY <2>1, PartsAre
  <2> QED BY <2>2 DEF Buffers, T
<1>4. /\ \A i \in Nat \ {0} : StopsAt(q, a, i) <=> StopsAt(q, b, n + i)
      /\ Hold(q, a) = Hold(q, b)
  BY <1>1, StopsOfAfter
<1>5. CASE Quiet(s)
  <2> DEFINE k == l - n - Hold(q, b)
  <2>1. Hold(q, b) \in {0, 1} BY <1>1, HoldIs
  <2>2. k \in 0 .. l - n /\ n + k = l - Hold(q, b) BY <1>1, <2>1
  <2>3. Quiet(g)
    <3>1. \A i \in 1 .. l - n : n + i \in 1 .. l /\ i \in Nat \ {0} BY <1>1
    <3> QED BY <1>2, <1>3, <1>4, <1>5, <3>1 DEF Quiet
  <2>4. Citations!Advance(g) = Passed(g, k)
    <3>1. Citations!Advance(g) = Passed(g, Len(g.buf) - Hold(g.state, g.buf)) BY <1>2, <2>3, QuietAdvances
    <3>2. Len(g.buf) - Hold(g.state, g.buf) = k BY <1>2, <1>3, <1>4
    <3> QED BY <3>1, <3>2
  <2>5. Passed(g, k) = Passed(s, n + k) BY <2>2, GoneTwice
  <2>6. Citations!Advance(s) = Passed(s, l - Hold(q, b)) BY <1>5, QuietAdvances
  <2> QED BY <2>2, <2>4, <2>5, <2>6
<1>6. CASE ~Quiet(s)
  <2>1. PICK i \in 1 .. l : FirstStop(s, i) BY <1>6, FirstStopExists
  <2> DEFINE e == i - n
             d == Takes(q, b[i])
             x == Front(s) \o Citations!Upto(b, i - 1)
             y == Front(g) \o Citations!Upto(a, e - 1)
  <2>2. n < i /\ e \in 1 .. l - n /\ n + e = i /\ e \in Nat \ {0} BY <1>1, <2>1 DEF FirstStop
  <2>3. a[e] = b[i] BY <1>3, <2>2
  <2>4. FirstStop(g, e)
    <3>1. StopsAt(q, a, e) BY <1>4, <2>1, <2>2 DEF FirstStop
    <3>2. ASSUME NEW j \in 1 .. l - n, StopsAt(q, a, j) PROVE e <= j
      <4>1. n + j \in 1 .. l /\ j \in Nat \ {0} BY <1>1
      <4>2. StopsAt(q, b, n + j) BY <1>4, <3>2, <4>1
      <4>3. i <= n + j BY <2>1, <4>1, <4>2 DEF FirstStop
      <4> QED BY <1>1, <4>3
    <3> QED BY <1>2, <1>3, <3>1, <3>2 DEF FirstStop
  <2>5. /\ i - 1 + d \in 0 .. l /\ i - 1 \in 0 .. l
        /\ Citations!Advance(s) = Put(Stopped(s, x, b[i]), Citations!After(b, i - 1 + d))
    BY <2>1, StopAdvances
  <2>6. /\ e - 1 + d \in 0 .. l - n
        /\ Citations!Advance(g) = Put(Stopped(g, y, b[i]), Citations!After(a, e - 1 + d))
    <3>1. /\ e - 1 + Takes(g.state, g.buf[e]) \in 0 .. Len(g.buf)
          /\ Citations!Advance(g)
               = Put(Stopped(g, Front(g) \o Citations!Upto(g.buf, e - 1), g.buf[e]),
                     Citations!After(g.buf, e - 1 + Takes(g.state, g.buf[e])))
      BY <1>2, <2>4, StopAdvances
    <3> HIDE DEF g, e
    <3> QED BY <1>2, <1>3, <2>3, <3>1
  <2>7. Citations!After(a, e - 1 + d) = Citations!After(b, i - 1 + d)
    <3> DEFINE T == Citations!Tokens
               k == e - 1 + d
    <3>1. b \in Seq(T) BY <1>1 DEF Buffers
    <3>2. k \in 0 .. Len(b) - n /\ n \in 0 .. Len(b) /\ n + k = i - 1 + d
      <4>1. d \in {0, 1, 2} BY DEF Takes
      <4> HIDE DEF d
      <4> QED BY <1>1, <2>2, <2>5, <2>6, <4>1
    <3> HIDE DEF T, k, b
    <3>3. Citations!After(Citations!After(b, n), k) = Citations!After(b, n + k) BY <3>1, <3>2, PartsOfParts
    <3> QED BY <3>2, <3>3 DEF k
  <2>8. y = x
    <3> DEFINE k == e - 1
    <3>1. k \in 0 .. Len(s.buf) - n /\ n + k = i - 1 BY <1>1, <2>2
    <3> HIDE DEF k
    <3>2. Front(s) \o Citations!Upto(s.buf, n) \o Citations!Upto(Citations!After(s.buf, n), k)
            = Front(s) \o Citations!Upto(s.buf, n + k)
      BY <3>1, GoneTwice
    <3> HIDE DEF g
    <3>3. Front(g) \o Citations!Upto(a, k) = Front(s) \o Citations!Upto(b, i - 1) BY <1>2, <3>1, <3>2
    <3> QED BY <3>3 DEF k
  <2>9. \A v, z : Stopped(g, v, z) = Stopped(s, v, z)
    <3>1. g = IF q = "prose" THEN Made(q, a, s.held, s.text \o u, s.citations)
              ELSE Made(q, a, s.held \o u, s.text, s.citations)
      BY PassedIs
    <3> HIDE DEF g
    <3>2. /\ g.state = s.state /\ g.citations = s.citations
          /\ s.state = "prose" => g.held = s.held
          /\ s.state # "prose" => g.text = s.text
      BY <3>1, MadeIs
    <3> QED BY <3>2, StoppedSame
  <2> DEFINE z == b[i]
             v == Citations!After(b, i - 1 + d)
             w == Citations!After(a, e - 1 + d)
  <2>10. Citations!Advance(s) = Put(Stopped(s, x, z), v) BY <2>5
  <2>11. Citations!Advance(g) = Put(Stopped(g, y, z), w) BY <2>6
  <2>12. w = v BY <2>7
  <2> HIDE DEF g, x, y, z, v, w
  <2>13. Citations!Advance(g) = Citations!Advance(s) BY <2>8, <2>9, <2>10, <2>11, <2>12
  <2> QED BY <2>13 DEF g
<1> QED BY <1>5, <1>6

\* A stop stays the first one when more comes, and is taken in the same way.
LEMMA StopThenMore ==
    ASSUME NEW s \in Streams, NEW d \in Buffers, ~Quiet(s)
    PROVE  Citations!Advance(Put(s, s.buf \o d)) = Put(Citations!Advance(s), Citations!Advance(s).buf \o d)
<1> DEFINE q == s.state
           b == s.buf
           l == Len(b)
           e == b \o d
           p == Put(s, e)
           T == Citations!Tokens
<1>1. /\ b \in Buffers /\ l \in Nat /\ b \in Seq(T) /\ d \in Seq(T) /\ q \in Phases BY FieldsAre DEF Buffers
<1>2. e \in Buffers /\ Len(e) = l + Len(d) /\ Len(d) \in Nat /\ \A i \in 1 .. l : e[i] = b[i]
  <2>1. e \in Seq(T) /\ Len(e) = Len(b) + Len(d) /\ \A i \in 1 .. Len(b) : e[i] = b[i]
    <3> HIDE DEF T, b
    <3> QED BY <1>1, ConcatIs
  <2>2. Len(d) \in Nat BY <1>1
  <2> QED BY <2>1, <2>2 DEF Buffers
<1>3. /\ p \in Streams /\ p.state = q /\ p.buf = e /\ p.held = s.held /\ p.text = s.text
      /\ p.citations = s.citations /\ Front(p) = Front(s)
  <2>1. /\ p \in Streams /\ p.state = q /\ p.buf = e /\ p.held = s.held /\ p.text = s.text
        /\ p.citations = s.citations
    <3> HIDE DEF e
    <3> QED BY <1>2, PutIs
  <2> HIDE DEF p
  <2> QED BY <2>1 DEF Front
<1>4. PICK i \in 1 .. l : FirstStop(s, i) BY FirstStopExists
<1> DEFINE z == b[i]
           m == i - 1 + Takes(q, z)
           u == Citations!Upto(b, i - 1)
           a == Citations!After(b, m)
           X == Stopped(s, Front(s) \o u, z)
<1>5. /\ i - 1 \in 0 .. l /\ m \in 0 .. l /\ X \in Streams /\ Citations!Advance(s) = Put(X, a)
  BY <1>4, StopAdvances
<1>6. FirstStop(p, i)
  <2>1. StopsAt(q, e, i)
    <3>1. StopsAt(q, b, i) BY <1>4 DEF FirstStop
    <3> QED BY <1>1, <3>1, StopsOfConcat
  <2>2. ASSUME NEW j \in 1 .. Len(e), StopsAt(q, e, j) PROVE i <= j
    <3>1. SUFFICES ASSUME j < i PROVE FALSE BY <1>1, <1>2
    <3>2. Hold(q, b) \in {0, 1} BY <1>1, HoldIs
    <3>3. j <= l - Hold(q, b) /\ j \in 1 .. l BY <1>1, <1>2, <3>1, <3>2
    <3>4. StopsAt(q, b, j) BY <1>1, <2>2, <3>3, StopsOfConcat
    <3> QED BY <1>4, <3>1, <3>3, <3>4 DEF FirstStop
  <2> HIDE DEF p
  <2> QED BY <1>3, <2>1, <2>2 DEF FirstStop
<1>7. Citations!Upto(e, i - 1) = u /\ Citations!After(e, m) = a \o d /\ e[i] = z
  <2> DEFINE n == i - 1
  <2>1. e[i] = z BY <1>2
  <2>2. n \in 0 .. l BY <1>5
  <2> HIDE DEF T, b, n, m
  <2>3. Citations!Upto(b \o d, n) = Citations!Upto(b, n) BY <1>1, <2>2, PartsOfConcat
  <2>4. Citations!After(b \o d, m) = Citations!After(b, m) \o d BY <1>1, <1>5, PartsOfConcat
  <2> QED BY <2>1, <2>3, <2>4 DEF n
<1>8. \A v, y : Stopped(p, v, y) = Stopped(s, v, y)
  <2> HIDE DEF p
  <2> QED BY <1>3, StoppedSame
<1>9. Citations!Advance(p) = Put(X, a \o d)
  <2>1. Citations!Advance(p)
          = Put(Stopped(p, Front(p) \o Citations!Upto(p.buf, i - 1), p.buf[i]),
                Citations!After(p.buf, i - 1 + Takes(p.state, p.buf[i])))
    <3> HIDE DEF p
    <3> QED BY <1>3, <1>6, StopAdvances
  <2>2. Citations!Advance(p) = Put(Stopped(p, Front(s) \o u, z), a \o d)
    <3> HIDE DEF p, e, a, u
    <3> QED BY <1>3, <1>7, <2>1
  <2> HIDE DEF p, a
  <2> QED BY <1>8, <2>2
<1>10. a \in Buffers /\ a \o d \in Buffers
  <2>1. a \in Seq(T)
    <3> HIDE DEF T, b, m
    <3> QED BY <1>1, <1>5, PartsAre
  <2> HIDE DEF a
  <2>2. a \o d \in Seq(T)
    <3> HIDE DEF T
    <3> QED BY <1>1, <2>1, ConcatProperties
  <2> QED BY <2>1, <2>2 DEF Buffers
<1>11. Put(X, a).buf = a /\ Put(Put(X, a), a \o d) = Put(X, a \o d)
  <2> DEFINE w == a \o d
  <2>1. w \in Buffers BY <1>10
  <2> HIDE DEF X, a, w
  <2> QED BY <1>5, <1>10, <2>1, PutIs
<1> HIDE DEF p, X, a
<1> QED BY <1>5, <1>9, <1>11 DEF p

\* Without a stop, what passed at once would have passed later.
LEMMA QuietThenMore ==
    ASSUME NEW s \in Streams, NEW d \in Buffers, Quiet(s)
    PROVE  Citations!Advance(Put(Citations!Advance(s), Citations!Advance(s).buf \o d))
             = Citations!Advance(Put(s, s.buf \o d))
<1> DEFINE q == s.state
           b == s.buf
           l == Len(b)
           e == b \o d
           p == Put(s, e)
           n == l - Hold(q, b)
           T == Citations!Tokens
           a == Citations!After(b, n)
           u == Citations!Upto(b, n)
           g == Passed(s, n)
<1>1. /\ b \in Buffers /\ l \in Nat /\ b \in Seq(T) /\ d \in Seq(T) /\ q \in Phases /\ Len(d) \in Nat
  BY FieldsAre DEF Buffers
<1>2. e \in Buffers /\ Len(e) = l + Len(d)
  <2>1. e \in Seq(T) /\ Len(e) = Len(b) + Len(d)
    <3> HIDE DEF T, b
    <3> QED BY <1>1, ConcatIs
  <2> QED BY <2>1 DEF Buffers
<1>3. /\ p \in Streams /\ p.state = q /\ p.buf = e /\ p.held = s.held /\ p.text = s.text
      /\ p.citations = s.citations
  <2> HIDE DEF e
  <2> QED BY <1>2, PutIs
<1>4. Hold(q, b) \in {0, 1} /\ n \in 0 .. l BY <1>1, HoldIs
<1>5. n \in 0 .. Len(e) /\ Citations!Upto(e, n) = u /\ Citations!After(e, n) = a \o d
  <2> HIDE DEF T, b, n
  <2> QED BY <1>1, <1>4, PartsOfConcat
<1>6. n <= Len(e) - Hold(q, e)
  <2>1. Hold(q, e) \in {0, 1} BY <1>2, HoldIs
  <2>2. CASE Len(d) = 0
    <3>1. d = <<>> BY <1>1, <2>2, EmptySeq
    <3>2. e = b
      <4> HIDE DEF T, b
      <4> QED BY <1>1, <3>1, ConcatEmptySeq
    <3> HIDE DEF b, e
    <3> QED BY <1>1, <1>4, <3>2
  <2>3. CASE Len(d) # 0 BY <1>1, <1>2, <1>4, <2>1, <2>3
  <2> QED BY <2>2, <2>3
<1>7. \A j \in 1 .. Len(e) : StopsAt(q, e, j) => n < j
  <2> SUFFICES ASSUME NEW j \in 1 .. Len(e), StopsAt(q, e, j), ~(n < j) PROVE FALSE OBVIOUS
  <2>1. j <= l - Hold(q, b) /\ j \in 1 .. l BY <1>1, <1>4
  <2>2. StopsAt(q, b, j) BY <1>1, <2>1, StopsOfConcat
  <2> QED BY <2>1, <2>2 DEF Quiet
<1>8. Citations!Advance(Passed(p, n)) = Citations!Advance(p)
  <2> HIDE DEF p, e, n
  <2> QED BY <1>3, <1>5, <1>6, <1>7, PassedBefore
<1>9. Citations!Advance(s) = g BY QuietAdvances
<1>10. /\ g \in Streams /\ g.buf = a
       /\ g = IF q = "prose" THEN Made(q, a, s.held, s.text \o u, s.citations)
              ELSE Made(q, a, s.held \o u, s.text, s.citations)
  BY <1>4, PassedIs
<1>11. Passed(p, n) = IF q = "prose" THEN Made(q, a \o d, s.held, s.text \o u, s.citations)
                    ELSE Made(q, a \o d, s.held \o u, s.text, s.citations)
  <2>1. Passed(p, n) = IF p.state = "prose"
                     THEN Made(p.state, Citations!After(p.buf, n), p.held,
                               p.text \o Citations!Upto(p.buf, n), p.citations)
                     ELSE Made(p.state, Citations!After(p.buf, n),
                               p.held \o Citations!Upto(p.buf, n), p.text, p.citations)
    <3> HIDE DEF p, n, e
    <3> QED BY <1>3, <1>5, PassedIs
  <2> HIDE DEF p, n, e, a, u, q
  <2> QED BY <1>3, <1>5, <2>1
<1>12. Put(g, a \o d) = Passed(p, n)
  <2> HIDE DEF g, p, n, a, u, q
  <2> QED BY <1>10, <1>11, MadeIs
<1> HIDE DEF g, p, a
<1> QED BY <1>8, <1>9, <1>10, <1>12 DEF p

\* What is left to do, in advances.
Left(s) == 2 * Len(s.buf) + (IF s.state = "in_quote" THEN 1 ELSE 0)

\* An advance that changes something leaves less to do.
LEMMA AdvanceEnds ==
    ASSUME NEW s \in Streams
    PROVE  /\ Citations!Advance(s) \in Streams
           /\ Left(s) \in 0 .. 2 * Len(s.buf) + 1 /\ Len(s.buf) \in Nat
           /\ \/ Citations!Advance(s) = s
              \/ Left(Citations!Advance(s)) < Left(s)
<1> DEFINE q == s.state
           b == s.buf
           l == Len(b)
           T == Citations!Tokens
<1>1. /\ b \in Buffers /\ l \in Nat /\ b \in Seq(T) /\ q \in Phases BY FieldsAre DEF Buffers
<1>2. CASE Quiet(s)
  <2> DEFINE n == l - Hold(q, b)
             g == Passed(s, n)
  <2>1. n \in 0 .. l BY <1>1, HoldIs
  <2>2. Citations!Advance(s) = g BY <1>2, QuietAdvances
  <2>3. /\ g \in Streams /\ g.state = q /\ g.buf = Citations!After(b, n)
        /\ g = IF q = "prose" THEN Made(q, Citations!After(b, n), s.held, s.text \o Citations!Upto(b, n), s.citations)
               ELSE Made(q, Citations!After(b, n), s.held \o Citations!Upto(b, n), s.text, s.citations)
    BY <2>1, PassedIs
  <2>4. Len(g.buf) = l - n
    <3> HIDE DEF T, b, n, g
    <3> QED BY <1>1, <2>1, <2>3, PartsAre
  <2>5. n = 0 => g = s
    <3> SUFFICES ASSUME n = 0 PROVE g = s OBVIOUS
    <3> DEFINE u == Citations!Upto(b, n)
               a == Citations!After(b, n)
    <3>1. u = <<>> /\ a = b
      <4> HIDE DEF T, b, n
      <4>1. SubSeq(b, 1, 0) = <<>> BY <1>1, SubSeqEmpty
      <4>2. SubSeq(b, 1, Len(b)) = b BY <1>1, SubSeqFull
      <4>3. n + 1 = 1 /\ n = 0 OBVIOUS
      <4> QED BY <4>1, <4>2, <4>3 DEF Citations!Upto, Citations!After
    <3>2. s.text \o <<>> = s.text /\ s.held \o <<>> = s.held
      <4> DEFINE S == Showable
                 t == s.text
                 h == s.held
      <4>1. t \in Seq(S) /\ h \in Seq(T) BY FieldsAre DEF Buffers
      <4> HIDE DEF S, T, t, h
      <4>2. t \o <<>> = t /\ h \o <<>> = h BY <4>1, ConcatEmptySeq
      <4> QED BY <4>2 DEF t, h
    <3>3. g = IF q = "prose" THEN Made(q, a, s.held, s.text \o u, s.citations)
              ELSE Made(q, a, s.held \o u, s.text, s.citations)
      BY <2>3
    <3> HIDE DEF g, u, a, n
    <3>4. g = Made(q, b, s.held, s.text, s.citations) BY <3>1, <3>2, <3>3
    <3> QED BY <3>4, MadeIs
  <2> HIDE DEF g
  <2>6. Left(g) = 2 * (l - n) + (IF q = "in_quote" THEN 1 ELSE 0) BY <2>3, <2>4 DEF Left
  <2>7. Left(s) = 2 * l + (IF q = "in_quote" THEN 1 ELSE 0) BY DEF Left
  <2> HIDE DEF n, l, q
  <2>8. n # 0 => Left(g) < Left(s) BY <1>1, <2>1, <2>6, <2>7
  <2>9. Left(s) \in 0 .. 2 * l + 1 BY <1>1, <2>7
  <2> QED BY <1>1, <2>2, <2>3, <2>5, <2>8, <2>9 DEF l
<1>3. CASE ~Quiet(s)
  <2>1. PICK i \in 1 .. l : FirstStop(s, i) BY <1>3, FirstStopExists
  <2> DEFINE z == b[i]
             d == Takes(q, z)
             m == i - 1 + d
             x == Front(s) \o Citations!Upto(b, i - 1)
             X == Stopped(s, x, z)
             a == Citations!After(b, m)
             r == Put(X, a)
  <2>2. m \in 0 .. l /\ X \in Streams /\ Citations!Advance(s) = r BY <2>1, StopAdvances
  <2>3. a \in Buffers /\ Len(a) = l - m
    <3> HIDE DEF m
    <3>1. a \in Seq(T) /\ Len(a) = Len(b) - m
      <4> HIDE DEF T, b
      <4> QED BY <1>1, <2>2, PartsAre
    <3> QED BY <3>1 DEF Buffers
  <2>4. r \in Streams /\ r.state = X.state /\ r.buf = a
    <3> HIDE DEF X, a
    <3> QED BY <2>2, <2>3, PutIs
  <2>5. d \in {0, 1, 2} /\ (d = 0 => q = "in_quote" /\ z # Citations!Quote) BY DEF Takes
  <2>6. d = 0 => r.state = "prose"
    <3> SUFFICES ASSUME d = 0 PROVE r.state = "prose" OBVIOUS
    <3>1. q # "prose" /\ q # "in_tag" /\ z # Citations!Quote BY <2>5
    <3>2. X = Record("prose", <<>>, s.text \o (<<Citations!Quote>> \o x), s.citations)
      <4> HIDE DEF x, z
      <4> QED BY <3>1, Zenon DEF Stopped
    <3> DEFINE y == s.text \o (<<Citations!Quote>> \o x)
    <3> HIDE DEF y, X
    <3>3. X.state = "prose" BY <3>2 DEF Record, y
    <3> QED BY <2>4, <3>3
  <2> HIDE DEF r
  <2>7. Left(r) = 2 * (l - m) + (IF r.state = "in_quote" THEN 1 ELSE 0) BY <2>3, <2>4 DEF Left
  <2>8. Left(s) = 2 * l + (IF q = "in_quote" THEN 1 ELSE 0) BY DEF Left
  <2> HIDE DEF l, q, d
  <2>9. Left(r) < Left(s) BY <1>1, <2>1, <2>2, <2>5, <2>6, <2>7, <2>8
  <2>10. Left(s) \in 0 .. 2 * l + 1 BY <1>1, <2>8
  <2> QED BY <1>1, <2>2, <2>4, <2>9, <2>10 DEF l
<1> QED BY <1>2, <1>3

-----------------------------------------------------------------------------
(* Citations: the advances of one delta.                                    *)

\* a[n] is the stream after n advances of s, up to the k-th.
Chain(a, s, k) == a[0] = s /\ \A n \in 1 .. k : a[n] = Citations!Advance(a[n - 1])

\* A chain is of streams, and has less and less to do until it is blocked.
LEMMA ChainIs ==
    ASSUME NEW s \in Streams, NEW a, NEW k \in Nat, Chain(a, s, k)
    PROVE  \A n \in 0 .. k : /\ a[n] \in Streams
                             /\ \/ Citations!Advance(a[n]) = a[n]
                                \/ Left(a[n]) + n <= Left(s)
<1> DEFINE P(n) == a[n] \in Streams /\ (Citations!Advance(a[n]) = a[n] \/ Left(a[n]) + n <= Left(s))
           S == {n \in Nat : n <= k => P(n)}
<1>1. a[0] = s /\ \A n \in 1 .. k : a[n] = Citations!Advance(a[n - 1]) BY DEF Chain
<1>2. \A x \in Streams : Left(x) \in Int
  <2> SUFFICES ASSUME NEW x \in Streams PROVE Left(x) \in Int OBVIOUS
  <2>1. Left(x) \in 0 .. 2 * Len(x.buf) + 1 BY AdvanceEnds
  <2> QED BY <2>1
<1>3. P(0)
  <2>1. Left(s) + 0 <= Left(s)
    <3>1. Left(s) \in Int BY <1>2
    <3> DEFINE y == Left(s)
    <3> HIDE DEF y
    <3>2. y \in Int BY <3>1 DEF y
    <3>3. y + 0 <= y BY <3>2
    <3> QED BY <3>3 DEF y
  <2> QED BY <1>1, <2>1
<1>4. ASSUME NEW n \in Nat, n + 1 <= k, P(n) PROVE P(n + 1)
  <2> DEFINE x == a[n]
             y == a[n + 1]
  <2>1. n + 1 \in 1 .. k /\ n + 1 - 1 = n BY <1>4
  <2>2. y = Citations!Advance(x) BY <1>1, <2>1
  <2>3. x \in Streams /\ (Citations!Advance(x) = x \/ Left(x) + n <= Left(s)) BY <1>4
  <2>4. y \in Streams /\ (y = x \/ Left(y) < Left(x)) BY <2>2, <2>3, AdvanceEnds
  <2>5. Left(x) \in Int /\ Left(y) \in Int /\ Left(s) \in Int BY <1>2, <2>3, <2>4
  <2> HIDE DEF x, y
  <2>6. Citations!Advance(y) = y \/ Left(y) + (n + 1) <= Left(s)
    <3>1. CASE y = x BY <2>2, <3>1
    <3>2. CASE y # x
      <4>1. Left(y) < Left(x) BY <2>4, <3>2
      <4>2. Left(x) + n <= Left(s) BY <2>2, <2>3, <3>2
      <4> QED BY <2>5, <4>1, <4>2
    <3> QED BY <3>1, <3>2
  <2> QED BY <2>4, <2>6 DEF y
<1> HIDE DEF P
<1>5. 0 \in S BY <1>3
<1>6. \A n \in Nat : n \in S => n + 1 \in S
  <2> SUFFICES ASSUME NEW n \in Nat, n \in S PROVE n + 1 \in S OBVIOUS
  <2>1. n + 1 <= k => n <= k OBVIOUS
  <2>2. n + 1 <= k => P(n + 1) BY <1>4, <2>1
  <2> QED BY <2>2
<1> HIDE DEF S
<1>7. \A n \in Nat : n \in S BY <1>5, <1>6, Induction
<1>8. \A n \in 0 .. k : P(n)
  <2> SUFFICES ASSUME NEW n \in 0 .. k PROVE P(n) OBVIOUS
  <2>1. n \in Nat /\ n <= k OBVIOUS
  <2>2. n \in S BY <1>7, <2>1
  <2> QED BY <2>1, <2>2 DEF S
<1> QED BY <1>8 DEF P

\* A chain that is long enough ends blocked.
LEMMA ChainSettles ==
    ASSUME NEW s \in Streams, NEW a, NEW k \in Nat, Chain(a, s, k), Left(s) <= k
    PROVE  a[k] \in Streams /\ Citations!Advance(a[k]) = a[k]
<1> DEFINE x == a[k]
           y == Citations!Advance(x)
<1>1. x \in Streams /\ (y = x \/ Left(x) + k <= Left(s)) BY ChainIs
<1>2. /\ Left(x) \in 0 .. 2 * Len(x.buf) + 1 /\ y \in Streams /\ (y = x \/ Left(y) < Left(x))
  BY <1>1, AdvanceEnds
<1>3. Left(y) \in 0 .. 2 * Len(y.buf) + 1 BY <1>2, AdvanceEnds
<1>4. Left(s) \in 0 .. 2 * Len(s.buf) + 1 BY AdvanceEnds
<1> HIDE DEF x, y
<1>5. y = x
  <2> SUFFICES ASSUME y # x PROVE FALSE OBVIOUS
  <2>1. Left(x) + k <= Left(s) /\ Left(y) < Left(x) BY <1>1, <1>2
  <2>2. Left(x) \in Int /\ Left(y) \in Int /\ Left(x) >= 0 /\ Left(y) >= 0 /\ Left(s) \in Int
    BY <1>2, <1>3, <1>4
  <2> QED BY <2>1, <2>2
<1> QED BY <1>1, <1>5 DEF x, y

\* Two chains of a stream agree, and one that is blocked stays where it is.
LEMMA ChainsAgree ==
    ASSUME NEW s, NEW a, NEW b, NEW k \in Nat, NEW l \in Nat, k <= l,
           Chain(a, s, k), Chain(b, s, l), Citations!Advance(a[k]) = a[k]
    PROVE  b[l] = a[k]
<1> DEFINE P(n) == b[n] = IF n <= k THEN a[n] ELSE a[k]
           S == {n \in Nat : n <= l => P(n)}
<1>1. /\ a[0] = s /\ \A n \in 1 .. k : a[n] = Citations!Advance(a[n - 1])
      /\ b[0] = s /\ \A n \in 1 .. l : b[n] = Citations!Advance(b[n - 1])
  BY DEF Chain
<1>2. P(0) BY <1>1
<1>3. ASSUME NEW n \in Nat, n + 1 <= l, P(n) PROVE P(n + 1)
  <2>1. n + 1 \in 1 .. l /\ n + 1 - 1 = n BY <1>3
  <2>2. b[n + 1] = Citations!Advance(b[n]) BY <1>1, <2>1
  <2>3. CASE n + 1 <= k
    <3>1. n + 1 \in 1 .. k /\ n <= k BY <2>3
    <3>2. a[n + 1] = Citations!Advance(a[n]) BY <1>1, <2>1, <3>1
    <3>3. b[n] = a[n] BY <1>3, <3>1
    <3> QED BY <2>2, <2>3, <3>2, <3>3
  <2>4. CASE ~(n + 1 <= k)
    <3>1. n <= k => n = k BY <2>4
    <3>2. b[n] = a[k] BY <1>3, <3>1
    <3> QED BY <2>2, <2>4, <3>2
  <2> QED BY <2>3, <2>4
<1> HIDE DEF P
<1>4. 0 \in S BY <1>2
<1>5. \A n \in Nat : n \in S => n + 1 \in S
  <2> SUFFICES ASSUME NEW n \in Nat, n \in S PROVE n + 1 \in S OBVIOUS
  <2>1. n + 1 <= l => n <= l OBVIOUS
  <2>2. n + 1 <= l => P(n + 1) BY <1>3, <2>1
  <2> QED BY <2>2
<1> HIDE DEF S
<1>6. l \in S BY <1>4, <1>5, Induction
<1>7. P(l) BY <1>6 DEF S
<1> QED BY <1>7 DEF P

\* The advances of the loop of feed, as the recursive function of the model.
Advances(a, s, k) ==
    a = [n \in 0 .. k |-> IF n = 0 THEN s ELSE Citations!Advance(a[n - 1])]

LEMMA AdvancesExist ==
    ASSUME NEW s, NEW k \in Nat
    PROVE  \E a : Advances(a, s, k)
<1> DEFINE G(a, n) == Advances(a, s, n)
           S == {n \in Nat : \E a : G(a, n)}
<1>1. 0 \in S
  <2>1. G([n \in 0 .. 0 |-> s], 0) BY DEF Advances
  <2> QED BY <2>1, Zenon
<1>2. ASSUME NEW n \in Nat, n \in S PROVE n + 1 \in S
  <2>1. PICK a : G(a, n) BY <1>2
  <2> DEFINE x == Citations!Advance(a[n])
             c == [i \in 0 .. n + 1 |-> IF i = n + 1 THEN x ELSE a[i]]
  <2>2. a = [i \in 0 .. n |-> IF i = 0 THEN s ELSE Citations!Advance(a[i - 1])] BY <2>1 DEF Advances
  <2>3. \A i \in 0 .. n : a[i] = IF i = 0 THEN s ELSE Citations!Advance(a[i - 1]) BY <2>2
  <2>4. \A i \in 0 .. n + 1 : c[i] = IF i = 0 THEN s ELSE Citations!Advance(c[i - 1])
    <3> SUFFICES ASSUME NEW i \in 0 .. n + 1
                 PROVE  c[i] = IF i = 0 THEN s ELSE Citations!Advance(c[i - 1])
      OBVIOUS
    <3>1. CASE i = n + 1
      <4>1. n \in 0 .. n + 1 /\ n # n + 1 /\ i - 1 = n /\ i # 0 BY <3>1
      <4>2. c[i] = x BY <3>1
      <4>3. c[n] = a[n] BY <4>1
      <4> QED BY <4>1, <4>2, <4>3
    <3>2. CASE i # n + 1
      <4>1. i \in 0 .. n /\ c[i] = a[i] BY <3>2
      <4>2. i # 0 => i - 1 \in 0 .. n + 1 /\ i - 1 # n + 1 BY <4>1
      <4>3. i # 0 => c[i - 1] = a[i - 1] BY <4>2
      <4> HIDE DEF c
      <4> QED BY <2>3, <4>1, <4>3
    <3> QED BY <3>1, <3>2
  <2>5. c = [i \in 0 .. n + 1 |-> c[i]] OBVIOUS
  <2> HIDE DEF c
  <2>6. c = [i \in 0 .. n + 1 |-> IF i = 0 THEN s ELSE Citations!Advance(c[i - 1])] BY <2>4, <2>5
  <2>7. G(c, n + 1) BY <2>6 DEF Advances
  <2> HIDE DEF G
  <2> QED BY <2>7
<1> HIDE DEF G
<1>3. \A n \in Nat : n \in S => n + 1 \in S BY <1>2
<1> HIDE DEF S
<1>4. k \in S BY <1>1, <1>3, Induction
<1> QED BY <1>4 DEF S, G

LEMMA BlockedChain ==
    ASSUME NEW s \in Streams
    PROVE  \E a : /\ Chain(a, s, 2 * Len(s.buf) + 2)
                  /\ Citations!Blocked(s) = a[2 * Len(s.buf) + 2]
<1> DEFINE most == 2 * Len(s.buf) + 2
<1>1. most \in Nat
  <2>1. Len(s.buf) \in Nat BY AdvanceEnds
  <2> QED BY <2>1
<1>2. \E a : Advances(a, s, most)
  <2> HIDE DEF most
  <2> QED BY <1>1, AdvancesExist
<1> DEFINE after[n \in 0 .. most] == IF n = 0 THEN s ELSE Citations!Advance(after[n - 1])
<1>3. after = [n \in 0 .. most |-> IF n = 0 THEN s ELSE Citations!Advance(after[n - 1])]
  BY <1>2, Zenon DEF Advances
<1>4. Citations!Blocked(s) = after[most] BY Zenon DEF Citations!Blocked
<1> HIDE DEF after
<1>5. Chain(after, s, most)
  <2> HIDE DEF most
  <2>1. 0 \in 0 .. most /\ \A n \in 1 .. most : n \in 0 .. most /\ n # 0 BY <1>1
  <2>2. \A n \in 0 .. most : after[n] = IF n = 0 THEN s ELSE Citations!Advance(after[n - 1]) BY <1>3
  <2>3. after[0] = s /\ \A n \in 1 .. most : after[n] = Citations!Advance(after[n - 1]) BY <2>1, <2>2
  <2> QED BY <2>3 DEF Chain
<1> QED BY <1>4, <1>5

\* The loop of feed goes on until it is blocked, and one advance less is no
\* other end.
LEMMA BlockedIs ==
    ASSUME NEW s \in Streams
    PROVE  /\ Citations!Blocked(s) \in Streams
           /\ Citations!Advance(Citations!Blocked(s)) = Citations!Blocked(s)
           /\ Citations!Blocked(Citations!Advance(s)) = Citations!Blocked(s)
<1> DEFINE most == 2 * Len(s.buf) + 2
           k == most - 1
           r == Citations!Advance(s)
           bound == 2 * Len(r.buf) + 2
<1>1. /\ Len(s.buf) \in Nat /\ Left(s) \in 0 .. 2 * Len(s.buf) + 1 /\ r \in Streams
      /\ r = s \/ Left(r) < Left(s)
  BY AdvanceEnds
<1>2. Len(r.buf) \in Nat /\ Left(r) \in 0 .. 2 * Len(r.buf) + 1 BY <1>1, AdvanceEnds
<1>3. most \in Nat /\ Left(s) <= most /\ k \in Nat /\ k + 1 = most /\ Left(r) <= k BY <1>1, <1>2
<1>4. bound \in Nat /\ Left(r) <= bound BY <1>2
<1>5. PICK a : Chain(a, s, most) /\ Citations!Blocked(s) = a[most] BY BlockedChain
<1>6. a[most] \in Streams /\ Citations!Advance(a[most]) = a[most]
  <2> HIDE DEF most
  <2> QED BY <1>3, <1>5, ChainSettles
<1>7. PICK c : Chain(c, r, bound) /\ Citations!Blocked(r) = c[bound] BY <1>1, BlockedChain
<1> DEFINE d == [n \in 0 .. k |-> a[n + 1]]
<1> HIDE DEF most, bound, k, r
<1>8. Chain(d, r, k) /\ d[k] = a[most]
  <2>1. a[0] = s /\ \A n \in 1 .. most : a[n] = Citations!Advance(a[n - 1]) BY <1>5 DEF Chain
  <2>2. 0 \in 0 .. k /\ k \in 0 .. k /\ 0 + 1 = 1 /\ 1 \in 1 .. most /\ 1 - 1 = 0 BY <1>3
  <2>3. d[0] = r BY <2>1, <2>2 DEF r
  <2>4. ASSUME NEW n \in 1 .. k PROVE d[n] = Citations!Advance(d[n - 1])
    <3>1. n \in 0 .. k /\ n - 1 \in 0 .. k /\ n + 1 \in 1 .. most /\ n - 1 + 1 = n /\ n + 1 - 1 = n
      BY <1>3
    <3>2. d[n] = a[n + 1] /\ d[n - 1] = a[n] BY <3>1
    <3>3. a[n + 1] = Citations!Advance(a[n]) BY <2>1, <3>1
    <3> QED BY <3>2, <3>3
  <2>5. d[k] = a[most] BY <1>3, <2>2
  <2> QED BY <2>3, <2>4, <2>5 DEF Chain
<1> HIDE DEF d
<1>9. c[bound] = d[k]
  <2>1. Citations!Advance(d[k]) = d[k] /\ Citations!Advance(c[bound]) = c[bound]
    BY <1>1, <1>3, <1>4, <1>7, <1>8, ChainSettles
  <2>2. CASE k <= bound BY <1>3, <1>4, <1>7, <1>8, <2>1, <2>2, ChainsAgree
  <2>3. CASE bound <= k BY <1>3, <1>4, <1>7, <1>8, <2>1, <2>3, ChainsAgree
  <2>4. k <= bound \/ bound <= k BY <1>3, <1>4
  <2> QED BY <2>2, <2>3, <2>4
<1> QED BY <1>5, <1>6, <1>7, <1>8, <1>9 DEF r

\* However far the first delta got, the second one ends where both at once do.
LEMMA FeedIs ==
    ASSUME NEW s \in Streams, NEW d \in Buffers
    PROVE  Citations!feed(s, d) = Citations!Blocked(Put(s, s.buf \o d))
<1> DEFINE b == s.buf
           e == b \o d
<1>1. Citations!feed(s, d) = Citations!Blocked([s EXCEPT !.buf = e])
  <2> HIDE DEF b
  <2>1. s.buf = b BY DEF b
  <2> QED BY <2>1, Zenon DEF Citations!feed
<1> QED BY <1>1 DEF Put

LEMMA MoreIs ==
    ASSUME NEW s \in Streams, NEW d \in Buffers
    PROVE  s.buf \o d \in Buffers /\ Put(s, s.buf \o d) \in Streams /\ Put(s, s.buf \o d).buf = s.buf \o d
<1> DEFINE T == Citations!Tokens
           b == s.buf
           e == b \o d
<1>1. b \in Seq(T) /\ d \in Seq(T) BY FieldsAre DEF Buffers
<1>2. e \in Seq(T)
  <2> HIDE DEF T, b
  <2> QED BY <1>1, ConcatProperties
<1>3. e \in Buffers BY <1>2 DEF Buffers
<1> HIDE DEF e
<1> QED BY <1>3, PutIs DEF e

LEMMA MoreOnTheWay ==
    ASSUME NEW s \in Streams, NEW d \in Buffers
    PROVE  Citations!Blocked(Put(Citations!Blocked(s), Citations!Blocked(s).buf \o d))
             = Citations!Blocked(Put(s, s.buf \o d))
<1> DEFINE E(x) == Citations!Blocked(Put(x, x.buf \o d))
<1>1. ASSUME NEW x \in Streams PROVE E(Citations!Advance(x)) = E(x)
  <2> DEFINE v == Citations!Advance(x)
             p == Put(x, x.buf \o d)
             r == Put(v, v.buf \o d)
  <2>1. v \in Streams BY AdvanceEnds
  <2>2. p \in Streams BY MoreIs
  <2>3. r \in Streams
    <3> HIDE DEF v
    <3> QED BY <2>1, MoreIs
  <2>4. Citations!Advance(p) = r \/ Citations!Advance(r) = Citations!Advance(p)
    BY StopThenMore, QuietThenMore
  <2>5. Citations!Blocked(Citations!Advance(p)) = Citations!Blocked(p)
    <3> HIDE DEF p
    <3> QED BY <2>2, BlockedIs
  <2>6. Citations!Blocked(Citations!Advance(r)) = Citations!Blocked(r)
    <3> HIDE DEF r
    <3> QED BY <2>3, BlockedIs
  <2>7. Citations!Blocked(r) = Citations!Blocked(p)
    <3> HIDE DEF p, r
    <3> QED BY <2>4, <2>5, <2>6
  <2> QED BY <2>7
<1> DEFINE k == 2 * Len(s.buf) + 2
<1>2. k \in Nat
  <2>1. Len(s.buf) \in Nat BY AdvanceEnds
  <2> QED BY <2>1
<1>3. PICK a : Chain(a, s, k) /\ Citations!Blocked(s) = a[k] BY BlockedChain
<1> HIDE DEF k, E
<1>4. \A n \in 0 .. k : a[n] \in Streams BY <1>2, <1>3, ChainIs
<1>5. a[0] = s /\ \A n \in 1 .. k : a[n] = Citations!Advance(a[n - 1]) BY <1>3 DEF Chain
<1> DEFINE S == {n \in Nat : n <= k => E(a[n]) = E(s)}
<1>6. 0 \in S BY <1>5
<1>7. \A n \in Nat : n \in S => n + 1 \in S
  <2> SUFFICES ASSUME NEW n \in Nat, n \in S, n + 1 <= k PROVE E(a[n + 1]) = E(s) OBVIOUS
  <2>1. n <= k /\ n \in 0 .. k /\ n + 1 \in 1 .. k /\ n + 1 - 1 = n BY <1>2
  <2>2. a[n] \in Streams /\ a[n + 1] = Citations!Advance(a[n]) BY <1>4, <1>5, <2>1
  <2>3. E(a[n]) = E(s) BY <2>1
  <2> QED BY <1>1, <2>2, <2>3
<1> HIDE DEF S
<1>8. k \in S BY <1>2, <1>6, <1>7, Induction
<1>9. E(a[k]) = E(s) BY <1>2, <1>8 DEF S
<1> QED BY <1>3, <1>9 DEF E

LEMMA FeedTwice ==
    ASSUME NEW s \in Streams, NEW d \in Buffers, NEW e \in Buffers
    PROVE  /\ Citations!feed(s, d) \in Streams
           /\ Citations!feed(Citations!feed(s, d), e) = Citations!feed(s, d \o e)
<1> DEFINE T == Citations!Tokens
           b == s.buf
           p == Put(s, b \o d)
           f == Citations!Blocked(p)
           de == d \o e
<1>1. b \in Seq(T) /\ d \in Seq(T) /\ e \in Seq(T) BY FieldsAre DEF Buffers
<1>2. b \o d \in Buffers /\ p \in Streams /\ p.buf = b \o d BY MoreIs
<1>3. f \in Streams
  <2> HIDE DEF p
  <2> QED BY <1>2, BlockedIs
<1>4. Citations!feed(s, d) = f BY FeedIs
<1>5. Citations!feed(f, e) = Citations!Blocked(Put(f, f.buf \o e))
  <2> HIDE DEF f
  <2> QED BY <1>3, FeedIs
<1>6. Citations!Blocked(Put(f, f.buf \o e)) = Citations!Blocked(Put(p, p.buf \o e))
  <2> HIDE DEF p
  <2> QED BY <1>2, MoreOnTheWay
<1>7. de \in Buffers
  <2>1. de \in Seq(T)
    <3> HIDE DEF T
    <3> QED BY <1>1, ConcatProperties
  <2> QED BY <2>1 DEF Buffers
<1>8. b \o d \o e = b \o de
  <2> HIDE DEF T, b
  <2> QED BY <1>1, ConcatAssociative
<1>9. Put(p, p.buf \o e) = Put(s, b \o de)
  <2> DEFINE y == b \o de
             x == b \o d
  <2>1. y \in Buffers
    <3> HIDE DEF de
    <3> QED BY <1>7, MoreIs
  <2>2. p.buf \o e = y BY <1>2, <1>8
  <2>3. Put(s, x) = p OBVIOUS
  <2> HIDE DEF y, x, p
  <2>4. Put(Put(s, x), y) = Put(s, y) BY <1>2, <2>1, PutIs DEF x
  <2> QED BY <2>2, <2>3, <2>4 DEF y
<1>10. Citations!feed(s, de) = Citations!Blocked(Put(s, b \o de))
  <2> HIDE DEF de
  <2> QED BY <1>7, FeedIs
<1> HIDE DEF f, p
<1>11. Citations!feed(f, e) = Citations!feed(s, de) BY <1>5, <1>6, <1>9, <1>10
<1> QED BY <1>3, <1>4, <1>11

-----------------------------------------------------------------------------
(* Citations: a turn.                                                       *)

\* What came and what comes next is what has come then.
LEMMA NextPiece ==
    ASSUME NEW T, NEW s \in Seq(T), NEW f \in 0 .. Len(s), NEW n \in Nat, f + n <= Len(s)
    PROVE  /\ f + n \in 0 .. Len(s) /\ SubSeq(s, f + 1, f + n) \in Seq(T)
           /\ Citations!Upto(s, f) \o SubSeq(s, f + 1, f + n) = Citations!Upto(s, f + n)
<1> DEFINE l == Len(s)
           p == f + 1
           k == f + n
           u == Citations!Upto(s, f)
           v == SubSeq(s, p, k)
           x == Citations!Upto(s, k)
           y == u \o v
<1>1. /\ l \in Nat /\ f \in Nat /\ f <= l /\ k \in 0 .. l /\ k \in Nat /\ p \in Int /\ k \in Int
      /\ \A i \in p .. k : s[i] \in T
  OBVIOUS
<1>2. u \in Seq(T) /\ Len(u) = f /\ \A i \in 1 .. f : u[i] = s[i] BY PartsAre
<1>3. x \in Seq(T) /\ Len(x) = k /\ \A i \in 1 .. k : x[i] = s[i]
  <2> HIDE DEF k
  <2> QED BY <1>1, PartsAre
<1>4. /\ v \in Seq(T) /\ Len(v) = IF p <= k THEN k - p + 1 ELSE 0
      /\ \A i \in 1 .. k - p + 1 : v[i] = s[p + i - 1]
  <2> HIDE DEF p, k
  <2> QED BY <1>1, SubSeqProperties
<1>5. Len(v) = n /\ \A i \in 1 .. n : v[i] = s[f + i]
  <2>1. (IF p <= k THEN k - p + 1 ELSE 0) = n /\ k - p + 1 = n /\ \A i \in 1 .. n : p + i - 1 = f + i
    BY <1>1
  <2> HIDE DEF v, p, k
  <2> QED BY <1>4, <2>1
<1>6. /\ y \in Seq(T) /\ Len(y) = Len(u) + Len(v)
      /\ \A i \in 1 .. Len(u) : y[i] = u[i]
      /\ \A i \in 1 .. Len(v) : y[Len(u) + i] = v[i]
  <2>1. u \in Seq(T) /\ v \in Seq(T) BY <1>2, <1>4
  <2> HIDE DEF u, v
  <2> QED BY <2>1, ConcatIs
<1> HIDE DEF l, u, v, x, y
<1>7. ASSUME NEW i \in 1 .. k PROVE y[i] = x[i]
  <2>1. CASE i <= f
    <3>1. i \in 1 .. f BY <1>1, <2>1
    <3> QED BY <1>2, <1>3, <1>6, <3>1
  <2>2. CASE ~(i <= f)
    <3> DEFINE j == i - f
    <3>1. j \in 1 .. n /\ f + j = i BY <1>1, <2>2
    <3> HIDE DEF j
    <3>2. y[f + j] = v[j] /\ v[j] = s[f + j] BY <1>2, <1>5, <1>6, <3>1
    <3> QED BY <1>3, <3>1, <3>2
  <2> QED BY <2>1, <2>2
<1>8. Len(y) = k BY <1>2, <1>5, <1>6
<1>9. y = x BY <1>3, <1>6, <1>7, <1>8, SeqEqual
<1> QED BY <1>1, <1>4, <1>9 DEF l, p, k, u, v, x, y

\* The stream of a turn that has nothing yet, and is blocked.
LEMMA FreshIs ==
    /\ Citations!Fresh \in Streams
    /\ Citations!feed(Citations!Fresh, <<>>) = Citations!Fresh
<1> DEFINE f == Citations!Fresh
           nil == <<>>
           a == [n \in 0 .. 0 |-> f]
<1>1. nil \in Buffers /\ nil \in Seq(Showable) /\ nil \in Seq(Quotes) /\ "prose" \in Phases
  BY ConstantsAre DEF Phases
<1>2. f = Made("prose", nil, nil, nil, nil) BY DEF Citations!Fresh, Made
<1>3. Len(nil) = 0 /\ nil \o nil = nil OBVIOUS
<1> HIDE DEF f, nil
<1>4. f \in Streams /\ f.state = "prose" /\ f.buf = nil BY <1>1, <1>2, MadeIs
<1>5. Citations!Advance(f) = f
  <2>1. Left(f) = 0 BY <1>3, <1>4 DEF Left
  <2> DEFINE r == Citations!Advance(f)
  <2>2. r \in Streams /\ (r = f \/ Left(r) < Left(f)) BY <1>4, AdvanceEnds
  <2>3. Left(r) \in 0 .. 2 * Len(r.buf) + 1 BY <2>2, AdvanceEnds
  <2> HIDE DEF r
  <2>4. ~(Left(r) < 0) BY <2>3
  <2> QED BY <2>1, <2>2, <2>4 DEF r
<1> DEFINE k == 2 * Len(f.buf) + 2
<1>6. PICK c : Chain(c, f, k) /\ Citations!Blocked(f) = c[k] BY <1>4, BlockedChain
<1>7. k \in Nat /\ 0 <= k BY <1>3, <1>4
<1>8. Chain(a, f, 0) /\ a[0] = f BY DEF Chain
<1> HIDE DEF k, a
<1>9. c[k] = a[0] BY <1>5, <1>6, <1>7, <1>8, ChainsAgree
<1>10. Citations!Blocked(f) = f BY <1>6, <1>8, <1>9
<1>11. Put(f, f.buf \o nil) = f
  <2>1. f.buf \o nil = f.buf BY <1>3, <1>4
  <2>2. Put(f, f.buf) = f BY <1>1, <1>4, PutIs
  <2> QED BY <2>1, <2>2
<1>12. Citations!feed(f, nil) = f BY <1>1, <1>4, <1>10, <1>11, FeedIs
<1> QED BY <1>4, <1>12 DEF f, nil

\* The stream is what one delta would have made of what came.
Came == Citations!Upto(input, fed)
StreamInv ==
    /\ input \in Buffers /\ fed \in 0 .. Len(input) /\ ended \in BOOLEAN
    /\ ~ended => stream \in Streams /\ stream = Citations!feed(Citations!Fresh, Came)
    /\ ended => stream = Citations!flush(Citations!feed(Citations!Fresh, Came))

LEMMA StreamInit == Citations!Init => StreamInv
<1> SUFFICES ASSUME Citations!Init PROVE StreamInv OBVIOUS
<1> DEFINE T == Citations!Tokens
<1>1. fed = 0 /\ stream = Citations!Fresh /\ ended = FALSE BY DEF Citations!Init
<1>2. input \in Seq(T)
  <2>1. PICK n \in 0 .. MaxLength : input \in [1 .. n -> T] BY DEF Citations!Init
  <2>2. n \in Nat OBVIOUS
  <2> HIDE DEF T
  <2> QED BY <2>1, <2>2
<1>3. fed \in 0 .. Len(input) BY <1>1, <1>2
<1>4. Came = <<>>
  <2>1. SubSeq(input, 1, 0) = <<>> BY SubSeqEmpty
  <2> QED BY <1>1, <2>1 DEF Came, Citations!Upto
<1> QED BY <1>1, <1>2, <1>3, <1>4, FreshIs DEF StreamInv, Buffers

LEMMA StreamStep == StreamInv /\ (Citations!Next \/ UNCHANGED citationsVars) => StreamInv'
<1> SUFFICES ASSUME StreamInv, Citations!Next \/ UNCHANGED citationsVars PROVE StreamInv' OBVIOUS
<1> DEFINE T == Citations!Tokens
<1>1. input \in Seq(T) /\ fed \in 0 .. Len(input) /\ ended \in BOOLEAN BY DEF StreamInv, Buffers
<1>2. ASSUME NEW n \in 1 .. MaxDelta, Citations!Delta(n) PROVE StreamInv'
  <2> DEFINE d == SubSeq(input, fed + 1, fed + n)
             c == Citations!Upto(input, fed)
             m == Citations!Upto(input, fed + n)
             f == Citations!Fresh
  <2>1. /\ ~ended /\ fed + n <= Len(input) /\ stream' = Citations!feed(stream, d)
        /\ fed' = fed + n /\ input' = input /\ ended' = ended
    BY <1>2 DEF Citations!Delta
  <2>2. n \in Nat OBVIOUS
  <2>3. fed + n \in 0 .. Len(input) /\ d \in Seq(T) /\ c \o d = m
    <3> HIDE DEF T
    <3> QED BY <1>1, <2>1, <2>2, NextPiece
  <2>4. c \in Seq(T)
    <3> HIDE DEF T
    <3> QED BY <1>1, PartsAre
  <2>5. stream \in Streams /\ stream = Citations!feed(f, c) BY <2>1 DEF StreamInv, Came
  <2>6. d \in Buffers /\ c \in Buffers /\ f \in Streams BY <2>3, <2>4, FreshIs DEF Buffers
  <2>7. Came' = m BY <2>1 DEF Came
  <2> HIDE DEF d, c, m, f
  <2>8. Citations!feed(Citations!feed(f, c), d) = Citations!feed(f, c \o d) BY <2>6, FeedTwice
  <2>9. stream' = Citations!feed(f, m) BY <2>1, <2>3, <2>5, <2>8
  <2>10. stream' \in Streams BY <2>1, <2>5, <2>6, FeedTwice
  <2> QED BY <1>1, <2>1, <2>3, <2>7, <2>9, <2>10 DEF StreamInv, Buffers, f
<1>3. CASE Citations!End
  <2>1. /\ ~ended /\ ended' = TRUE /\ stream' = Citations!flush(stream) /\ input' = input /\ fed' = fed
    BY <1>3 DEF Citations!End
  <2>2. stream = Citations!feed(Citations!Fresh, Came) BY <2>1 DEF StreamInv
  <2>3. Came' = Came BY <2>1 DEF Came
  <2> QED BY <1>1, <2>1, <2>2, <2>3 DEF StreamInv, Buffers
<1>4. CASE UNCHANGED citationsVars
  BY <1>4 DEF citationsVars, StreamInv, Came
<1> QED BY <1>2, <1>3, <1>4 DEF Citations!Next

\* A step of the system is one of the stream or none.
LEMMA StreamSteps == [Next]_vars => Citations!Next \/ UNCHANGED citationsVars
BY DEF Next, Only, vars

\* Wherever the deltas split the text, and whenever the turn ends: what is
\* shown, stored and cited is what one delta of the same text makes it.
THEOREM DeltasMayComeInAnyPieces == Spec => []SplitsDontMatter
<1>1. Init => StreamInv BY StreamInit DEF Init
<1>2. StreamInv /\ [Next]_vars => StreamInv' BY StreamSteps, StreamStep
<1>3. StreamInv => SplitsDontMatter
  BY DEF StreamInv, Came, SplitsDontMatter, Citations!SplitsDontMatter
<1> QED BY <1>1, <1>2, <1>3, PTL DEF Spec
=============================================================================

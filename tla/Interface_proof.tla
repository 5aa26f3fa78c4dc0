--------------------------- MODULE Interface_proof ---------------------------
(* The safety of the components of MCServices that run in the browser, for  *)
(* every value of their constants: voice, tabs, manuscript.                 *)
(* Each has an inductive invariant over its own variables, as in            *)
(* Services_proof.                                                          *)
EXTENDS Services_proof

-----------------------------------------------------------------------------
(* VoicePlayback.                                                           *)

Speech == [turn : Nat, epoch : Nat]
Drains == [pc : {"off", "synthesize", "play"}, epoch : Nat, sentence : Speech \cup {None}]

\* Said after the last stop, in answer to the last voice message.
Current(s) == s.epoch = epoch /\ (s.turn = asked \/ refused)

\* What waits may still be heard.
Waits(q) ==
    /\ q \in Seq(Speech)
    /\ \A i \in 1 .. Len(q) : Current(q[i])
    /\ Len(q) > 0 => ~muted

\* A synthesis from before the last stop is found out by its epoch.
Synthesizing ==
    /\ drain \in Drains
    /\ drain.pc = "synthesize" =>
          /\ drain.sentence \in Speech /\ drain.epoch <= epoch
          /\ drain.epoch = epoch => ~muted /\ Current(drain.sentence)

\* Only the drain plays, and a stop ends both.
Heard == playing # None => drain.pc = "play" /\ ~muted /\ Current(playing)

\* The turn that is spoken answers the last voice message.
Spoken ==
    /\ epoch \in Nat /\ turns \in Nat /\ turn \in {0, turns}
    /\ muted \in BOOLEAN
    /\ voiceTurn /\ turn # 0 => turn = asked \/ refused

VoiceInv == Spoken /\ Waits(queue) /\ Synthesizing /\ Heard

LEMMA OffDrains == Voice!Off \in Drains /\ Voice!Off.pc = "off"
BY DEF Voice!Off, Drains

LEMMA VoiceInit == Voice!Init => VoiceInv
<1> SUFFICES ASSUME Voice!Init PROVE VoiceInv OBVIOUS
<1>1. /\ turn = 0 /\ turns = 0 /\ epoch = 0 /\ muted = FALSE /\ queue = <<>>
      /\ drain = Voice!Off /\ playing = None
  BY DEF Voice!Init
<1>2. Waits(queue) BY <1>1 DEF Waits
<1>3. Synthesizing /\ Heard BY <1>1, OffDrains DEF Synthesizing, Heard
<1> QED BY <1>1, <1>2, <1>3 DEF VoiceInv, Spoken

\* From the head of the loop the drain takes the next sentence, or stops.
LEMMA DrainTakes ==
    ASSUME Spoken, NEW q, Waits(q), NEW e \in Nat, Voice!Drain(q, e),
           UNCHANGED <<epoch, muted, asked, refused>>
    PROVE  /\ Waits(queue)' /\ Synthesizing'
           /\ drain'.pc \in {"off", "synthesize"}
<1>0. q \in Seq(Speech) /\ Len(q) \in Nat /\ epoch \in Nat BY DEF Waits, Spoken
<1>1. CASE q = <<>> \/ e # epoch
  <2>1. drain' = Voice!Off /\ queue' = q BY <1>1 DEF Voice!Drain
  <2>2. Waits(queue)' BY <2>1 DEF Waits, Current
  <2> QED BY <2>1, <2>2, OffDrains DEF Synthesizing
<1>2. CASE ~(q = <<>> \/ e # epoch)
  <2>1. /\ drain' = [pc |-> "synthesize", epoch |-> e, sentence |-> Head(q)]
        /\ queue' = Tail(q) /\ q # <<>> /\ e = epoch
    BY <1>2 DEF Voice!Drain
  <2>2. /\ Head(q) \in Speech /\ Tail(q) \in Seq(Speech) /\ Len(Tail(q)) = Len(q) - 1
        /\ \A i \in 1 .. Len(Tail(q)) : Tail(q)[i] = q[i + 1]
    BY <1>0, <2>1, HeadTailProperties
  <2>3. Len(q) > 0 /\ Head(q) = q[1] BY <1>0, <2>1
  <2>4. Current(Head(q)) /\ ~muted BY <1>0, <2>3 DEF Waits
  <2>5. \A i \in 1 .. Len(Tail(q)) : Current(Tail(q)[i])
    BY <1>0, <2>2 DEF Waits
  <2>6. Waits(queue)' BY <2>1, <2>2, <2>4, <2>5 DEF Waits, Current
  <2>7. drain' \in Drains /\ drain'.pc = "synthesize" /\ drain'.epoch = epoch /\ drain'.sentence = Head(q)
    BY <1>0, <2>1, <2>2 DEF Drains
  <2>8. Synthesizing' BY <1>0, <2>2, <2>4, <2>7 DEF Synthesizing, Current
  <2> QED BY <2>6, <2>7, <2>8
<1> QED BY <1>1, <1>2

\* A sentence of the turn that is spoken.
LEMMA SentenceWaits ==
    ASSUME VoiceInv, turn # 0, voiceTurn, ~muted, Voice!enqueueSentence,
           UNCHANGED <<asked, refused>>
    PROVE  Waits(queue)' /\ Synthesizing' /\ Heard'
<1> DEFINE s == [turn |-> turn, epoch |-> epoch]
           q == Append(queue, s)
<1>1. s \in Speech /\ Current(s) BY DEF VoiceInv, Spoken, Speech, Current
<1>2. queue \in Seq(Speech) /\ Len(queue) \in Nat /\ \A i \in 1 .. Len(queue) : Current(queue[i])
  BY DEF VoiceInv, Waits
<1>3. /\ IF drain = Voice!Off THEN Voice!Drain(q, epoch) ELSE queue' = q /\ drain' = drain
      /\ UNCHANGED <<epoch, muted, playing>>
  BY DEF Voice!enqueueSentence
<1> HIDE DEF s
<1>4. /\ q \in Seq(Speech) /\ Len(q) = Len(queue) + 1
      /\ \A i \in 1 .. Len(queue) : q[i] = queue[i]
      /\ q[Len(queue) + 1] = s
  BY <1>1, <1>2
<1> HIDE DEF q
<1>5. Waits(q) BY <1>1, <1>2, <1>4 DEF Waits
<1>6. CASE drain = Voice!Off
  <2>1. playing = None BY <1>6, OffDrains DEF VoiceInv, Heard
  <2>2. Voice!Drain(q, epoch) BY <1>3, <1>6
  <2>3. Waits(queue)' /\ Synthesizing'
    BY <1>3, <1>5, <2>2, DrainTakes DEF VoiceInv, Spoken
  <2> QED BY <1>3, <2>1, <2>3 DEF Heard
<1>7. CASE drain # Voice!Off
  <2>1. queue' = q /\ drain' = drain BY <1>3, <1>7
  <2>2. Waits(queue)' BY <1>3, <1>5, <2>1 DEF Waits, Current
  <2> QED BY <1>3, <2>1, <2>2 DEF VoiceInv, Synthesizing, Heard, Current
<1> QED BY <1>6, <1>7

\* A stop, or the start of a voice message: everything is of an older epoch.
LEMMA CutSilences ==
    ASSUME VoiceInv, Voice!Cut(epoch + 1)
    PROVE  Waits(queue)' /\ Synthesizing' /\ Heard' /\ epoch' \in Nat
<1>1. /\ epoch' = epoch + 1 /\ queue' = <<>> /\ playing' = None
      /\ drain' = IF drain.pc = "play" THEN Voice!Off ELSE drain
  BY DEF Voice!Cut
<1>2. epoch \in Nat /\ drain \in Drains BY DEF VoiceInv, Spoken, Synthesizing
<1>3. Waits(queue)' BY <1>1 DEF Waits
<1>4. Synthesizing'
  <2>1. CASE drain.pc = "play" BY <1>1, <2>1, OffDrains DEF Synthesizing
  <2>2. CASE drain.pc # "play"
    <3>1. drain' = drain BY <1>1, <2>2
    <3>2. drain.pc = "synthesize" => drain.sentence \in Speech /\ drain.epoch <= epoch
      BY DEF VoiceInv, Synthesizing
    <3>3. drain.epoch \in Nat BY <1>2 DEF Drains
    <3> QED BY <1>1, <1>2, <3>1, <3>2, <3>3 DEF Synthesizing
  <2> QED BY <2>1, <2>2
<1> QED BY <1>1, <1>2, <1>3, <1>4 DEF Heard

LEMMA VoiceStep ==
    ASSUME VoiceInv, Voice!Next \/ UNCHANGED voiceVars
    PROVE  VoiceInv'
<1> USE DEF Voice!capture, Voice!turnvars, Voice!playback
<1>0. Spoken /\ Waits(queue) /\ Synthesizing /\ Heard BY DEF VoiceInv
\* What is played and what is asked both stay.
<1>1. ASSUME UNCHANGED <<turn, turns, voiceTurn, asked, refused, epoch, muted, queue, drain, playing>>
      PROVE  VoiceInv'
  BY <1>1 DEF VoiceInv, Spoken, Waits, Synthesizing, Heard, Current
<1>2. CASE UNCHANGED voiceVars BY <1>1, <1>2 DEF voiceVars
<1>3. CASE Voice!MicOpens \/ Voice!Release \/ Voice!Transcribed \/ Voice!cancelPendingVoiceMessage
  BY <1>1, <1>3 DEF Voice!MicOpens, Voice!Release, Voice!Transcribed, Voice!cancelPendingVoiceMessage
<1>4. CASE Voice!ChordDown \/ Voice!Stop
  <2>1. /\ Voice!Cut(epoch + 1) /\ muted' = TRUE
        /\ UNCHANGED <<turn, turns, voiceTurn, asked, refused>>
    BY <1>4 DEF Voice!ChordDown, Voice!Stop, Voice!stopPlayback
  <2>2. Waits(queue)' /\ Synthesizing' /\ Heard' /\ epoch' \in Nat BY <2>1, CutSilences
  <2> QED BY <1>0, <2>1, <2>2 DEF VoiceInv, Spoken
<1>5. CASE Voice!WindowElapses
  <2>1. /\ Voice!Cut(epoch + 1) /\ muted' = FALSE
        /\ \/ turn = 0 /\ turn' = turns + 1 /\ turns' = turns + 1 /\ asked' = turns + 1
           \/ turn' = turn /\ turns' = turns /\ refused' = TRUE
    BY <1>5 DEF Voice!WindowElapses, Voice!sendVoice, Voice!beginVoiceTurn, Voice!Accepted, Voice!Refused
  <2>2. Waits(queue)' /\ Synthesizing' /\ Heard' /\ epoch' \in Nat BY <2>1, CutSilences
  <2>3. turns \in Nat /\ turn \in {0, turns} BY <1>0 DEF Spoken
  <2>4. turns' \in Nat /\ turn' \in {0, turns'} /\ (turn' = asked' \/ turn' = 0 \/ refused')
    BY <1>0, <2>1, <2>3
  <2>5. Spoken' BY <2>1, <2>2, <2>4 DEF Spoken
  <2> QED BY <2>2, <2>5 DEF VoiceInv
<1>6. CASE Voice!sendTyped
  <2>1. /\ voiceTurn' = FALSE
        /\ UNCHANGED <<asked, refused, epoch, muted, queue, drain, playing>>
        /\ \/ turn' = turn /\ turns' = turns
           \/ turn' = turns + 1 /\ turns' = turns + 1
    BY <1>6 DEF Voice!sendTyped, Voice!Accepted, Voice!Refused
  <2>2. Spoken' BY <1>0, <2>1 DEF Spoken
  <2> QED BY <1>0, <2>1, <2>2 DEF VoiceInv, Waits, Synthesizing, Heard, Current
<1>7. CASE Voice!Delta
  <2>1. /\ turn # 0 /\ UNCHANGED <<turn, turns, voiceTurn, asked, refused>>
        /\ IF voiceTurn /\ ~muted THEN Voice!enqueueSentence
           ELSE UNCHANGED <<epoch, muted, queue, drain, playing>>
    BY <1>7 DEF Voice!Delta
  <2>2. CASE voiceTurn /\ ~muted
    <3>1. Voice!enqueueSentence BY <2>1, <2>2
    <3>2. Waits(queue)' /\ Synthesizing' /\ Heard' BY <2>1, <2>2, <3>1, SentenceWaits
    <3>3. UNCHANGED <<epoch, muted>> BY <3>1 DEF Voice!enqueueSentence
    <3> QED BY <1>0, <2>1, <3>2, <3>3 DEF VoiceInv, Spoken
  <2>3. CASE ~(voiceTurn /\ ~muted) BY <1>1, <2>1, <2>3
  <2> QED BY <2>2, <2>3
<1>8. CASE Voice!TurnEnds
  <2>1. /\ turn # 0 /\ turn' = 0 /\ UNCHANGED <<turns, voiceTurn, asked, refused>>
        /\ \/ voiceTurn /\ ~muted /\ Voice!enqueueSentence
           \/ UNCHANGED <<epoch, muted, queue, drain, playing>>
    BY <1>8 DEF Voice!TurnEnds
  <2>2. CASE voiceTurn /\ ~muted /\ Voice!enqueueSentence
    <3>1. Waits(queue)' /\ Synthesizing' /\ Heard' BY <2>1, <2>2, SentenceWaits
    <3>2. UNCHANGED <<epoch, muted>> BY <2>2 DEF Voice!enqueueSentence
    <3> QED BY <1>0, <2>1, <3>1, <3>2 DEF VoiceInv, Spoken
  <2>3. CASE UNCHANGED <<epoch, muted, queue, drain, playing>>
    BY <1>0, <2>1, <2>3 DEF VoiceInv, Spoken, Waits, Synthesizing, Heard, Current
  <2> QED BY <2>1, <2>2, <2>3
<1>9. CASE Voice!Synthesized
  <2>1. /\ drain.pc = "synthesize"
        /\ UNCHANGED <<turn, turns, voiceTurn, asked, refused, epoch, muted, queue>>
    BY <1>9 DEF Voice!Synthesized
  <2>2. playing = None BY <1>0, <2>1 DEF Heard
  <2>3. Spoken' /\ Waits(queue)' BY <1>0, <2>1 DEF Spoken, Waits, Current
  <2>4. CASE drain.epoch = epoch
    <3>1. playing' = drain.sentence /\ drain' = [drain EXCEPT !.pc = "play"]
      BY <1>9, <2>4 DEF Voice!Synthesized
    <3>2. drain' \in Drains /\ drain'.pc = "play" BY <1>0, <3>1 DEF Synthesizing, Drains
    <3>3. ~muted /\ Current(drain.sentence) BY <1>0, <2>1, <2>4 DEF Synthesizing
    <3>4. Heard' BY <2>1, <3>1, <3>2, <3>3 DEF Heard, Current
    <3> QED BY <2>3, <3>2, <3>4 DEF VoiceInv, Synthesizing
  <2>5. CASE drain.epoch # epoch
    <3>1. drain' = Voice!Off /\ playing' = playing BY <1>9, <2>5 DEF Voice!Synthesized
    <3> QED BY <2>2, <2>3, <3>1, OffDrains DEF VoiceInv, Synthesizing, Heard
  <2> QED BY <2>4, <2>5
<1>10. CASE Voice!SynthesizeFails \/ Voice!PlayEnds
  <2>1. /\ Voice!Drain(queue, drain.epoch)
        /\ UNCHANGED <<turn, turns, voiceTurn, asked, refused, epoch, muted>>
        /\ (drain.pc = "synthesize" /\ playing' = playing) \/ playing' = None
    BY <1>10 DEF Voice!SynthesizeFails, Voice!PlayEnds
  <2>2. playing' = None BY <1>0, <2>1 DEF Heard
  <2>3. drain.epoch \in Nat BY <1>0 DEF Synthesizing, Drains
  <2>4. Waits(queue)' /\ Synthesizing' BY <1>0, <2>1, <2>3, DrainTakes
  <2> QED BY <1>0, <2>1, <2>2, <2>4 DEF VoiceInv, Spoken, Heard
<1> QED
  BY <1>2, <1>3, <1>4, <1>5, <1>6, <1>7, <1>8, <1>9, <1>10 DEF Voice!Next

\* Nothing cut off by a stop is heard later, nor the answer to anything but the
\* last voice message, whatever synthesis was under way.
THEOREM AudioIsCurrent == Spec => []NoStaleAudio
<1>1. Init => VoiceInv BY VoiceInit DEF Init
<1>2. VoiceInv /\ [Next]_vars => VoiceInv' BY StepOfEach, VoiceStep
<1>3. VoiceInv => NoStaleAudio
  <2> SUFFICES ASSUME VoiceInv PROVE NoStaleAudio OBVIOUS
  <2>1. queue \in Seq(Speech) /\ \A i \in 1 .. Len(queue) : queue[i].epoch = epoch
    BY DEF VoiceInv, Waits, Current
  <2>2. \A i \in DOMAIN queue : queue[i].epoch = epoch BY <2>1
  <2> QED BY <2>2 DEF VoiceInv, Heard, Current, NoStaleAudio, Voice!NoStaleAudio
<1> QED BY <1>1, <1>2, <1>3, PTL DEF Spec

-----------------------------------------------------------------------------
(* TabStack.                                                                *)

\* A copy with the number of the last PUT is what the screen shows.
Kept(s) ==
    /\ s.put \in Nat /\ s.put <= persisted
    /\ loaded /\ s.put = persisted /\ ~stale => s.stack = stack /\ s.active = activeTab

Copies == persisted \in Nat /\ \A s \in saving \cup {stored} : Kept(s)

\* Before the launch has loaded the stack nothing is on its way.
Unloaded ==
    ~loaded => /\ saving = {} /\ persisted = 0 /\ due = "none" /\ syncing = "none"
               /\ \A r \in Untitled : title[r] = None

\* The flag that a push leaves is taken by the effect that follows it.
Address ==
    /\ syncing = "fromState" => due = "fromUrl" /\ url = activeTab
    /\ loaded /\ due = "none" => url = activeTab \/ skipped

ShellInv == Copies /\ Unloaded /\ Address

LEMMA ShellInit == Shell!Init => ShellInv
<1> SUFFICES ASSUME Shell!Init PROVE ShellInv OBVIOUS
<1>1. /\ stack = <<>> /\ activeTab = None /\ loaded = FALSE /\ syncing = "none" /\ due = "none"
      /\ title = [r \in Untitled |-> None] /\ saving = {} /\ persisted = 0
      /\ stored.put = 0
  BY DEF Shell!Init
<1> QED BY <1>1 DEF ShellInv, Copies, Kept, Unloaded, Address

\* The newest PUT carries the screen, and the older ones have older numbers.
LEMMA PersistKeeps ==
    ASSUME ShellInv, loaded, loaded' = loaded, stored' = stored, Shell!Persist(stack', activeTab')
    PROVE  Copies' /\ Unloaded'
<1>1. /\ saving' = saving \cup {[stack |-> stack', active |-> activeTab', put |-> persisted + 1]}
      /\ persisted' = persisted + 1 /\ stale' = FALSE
  BY DEF Shell!Persist
<1>2. persisted \in Nat /\ \A s \in saving \cup {stored} : s.put \in Nat /\ s.put <= persisted
  BY DEF ShellInv, Copies, Kept
<1>3. ASSUME NEW s \in saving' \cup {stored'} PROVE Kept(s)'
  <2>1. CASE s \in saving \cup {stored}
    <3>1. s.put \in Nat /\ s.put <= persisted BY <1>2, <2>1
    <3> QED BY <1>1, <1>2, <3>1 DEF Kept
  <2>2. CASE s = [stack |-> stack', active |-> activeTab', put |-> persisted + 1]
    BY <1>1, <1>2, <2>2 DEF Kept
  <2> QED BY <1>1, <1>3, <2>1, <2>2
<1> QED BY <1>1, <1>2, <1>3 DEF Copies, Unloaded

\* After a click the active tab's effect is due exactly if it has changed.
LEMMA ClickKeeps ==
    ASSUME ShellInv, Shell!Move, UNCHANGED <<loaded, url, syncing, skipped, stored>>,
           Shell!Persist(stack', activeTab'), Shell!Rendered \/ UNCHANGED <<activeTab, due>>
    PROVE  ShellInv'
<1>1. loaded /\ due = "none" BY DEF Shell!Move
<1>2. Copies' /\ Unloaded' BY <1>1, PersistKeeps
<1>3. Address'
  <2>1. syncing # "fromState" /\ (url = activeTab \/ skipped)
    BY <1>1 DEF ShellInv, Address
  <2>2. due' = "none" => activeTab' = activeTab BY DEF Shell!Rendered
  <2> QED BY <2>1, <2>2 DEF Address
<1> QED BY <1>2, <1>3 DEF ShellInv

LEMMA ShellStep ==
    ASSUME ShellInv, Shell!Next \/ UNCHANGED shellVars
    PROVE  ShellInv'
<1> USE DEF Shell!history, Shell!server
<1>0. Copies /\ Unloaded /\ Address BY DEF ShellInv
<1>1. CASE UNCHANGED shellVars
  BY <1>1 DEF shellVars, ShellInv, Copies, Kept, Unloaded, Address
<1>2. ASSUME NEW p \in Pages, Shell!OpenTab(p) PROVE ShellInv'
  <2>1. /\ Shell!Move /\ Shell!Rendered /\ UNCHANGED <<loaded, url, syncing, skipped, stored>>
        /\ Shell!Persist(stack', activeTab')
    BY <1>2 DEF Shell!OpenTab, Shell!openTab
  <2> QED BY <2>1, ClickKeeps
<1>3. ASSUME NEW p \in Pages, Shell!ActivateTab(p) PROVE ShellInv'
  <2>1. /\ Shell!Move /\ Shell!Rendered /\ UNCHANGED <<loaded, url, syncing, skipped, stored>>
        /\ Shell!Persist(stack', activeTab')
    BY <1>3 DEF Shell!ActivateTab, Shell!activateTab, Shell!Persist
  <2> QED BY <2>1, ClickKeeps
<1>4. ASSUME NEW next, NEW nextActive, Shell!Move, Shell!Close(next, nextActive) PROVE ShellInv'
  <2>1. /\ Shell!Rendered /\ UNCHANGED <<loaded, url, syncing, skipped, stored>>
        /\ Shell!Persist(stack', activeTab')
    BY <1>4 DEF Shell!Close
  <2> QED BY <1>4, <2>1, ClickKeeps
<1>5. ASSUME NEW p \in Pages, Shell!CloseTab(p) PROVE ShellInv'
  <2>1. Shell!Move /\ \E next, nextActive : Shell!Close(next, nextActive)
    BY <1>5 DEF Shell!CloseTab
  <2> QED BY <1>4, <2>1
<1>6. CASE Shell!CloseAllTabs BY <1>4, <1>6 DEF Shell!CloseAllTabs
<1>7. ASSUME NEW p \in Pages, NEW q \in Pages \cup {None}, Shell!ReorderTab(p, q) PROVE ShellInv'
  <2>1. /\ Shell!Move /\ UNCHANGED <<activeTab, due, loaded, url, syncing, skipped, stored>>
        /\ \E next : stack' = next /\ Shell!Persist(next, activeTab)
    BY <1>7 DEF Shell!ReorderTab
  <2>2. Shell!Persist(stack', activeTab') BY <2>1 DEF Shell!Persist
  <2> QED BY <2>1, <2>2, ClickKeeps
<1>8. CASE Shell!Back \/ Shell!Forward
  <2>1. /\ loaded /\ due = "none" /\ due' = "fromUrl"
        /\ UNCHANGED <<stack, activeTab, loaded, syncing, title, stored, saving, persisted, stale, skipped>>
    BY <1>8 DEF Shell!Back, Shell!Forward, Shell!Move
  <2> QED BY <1>0, <2>1 DEF ShellInv, Copies, Kept, Unloaded, Address
<1>9. ASSUME NEW r \in Untitled, Shell!TitleResolves(r) PROVE ShellInv'
  <2> DEFINE x == [stack |-> stack, active |-> title[r], put |-> persisted + 1]
  <2>1. /\ title[r] # None /\ saving' = saving \cup {x}
        /\ persisted' = persisted + 1 /\ stale' = (title[r] # activeTab)
        /\ UNCHANGED <<stack, activeTab, loaded, url, syncing, due, stored, skipped>>
    BY <1>9 DEF Shell!TitleResolves
  <2>2. loaded BY <1>0, <2>1 DEF Unloaded
  <2>3. x.put = persisted + 1 /\ x.stack = stack /\ x.active = title[r] OBVIOUS
  <2> HIDE DEF x
  <2>4. ASSUME NEW s \in saving' \cup {stored'} PROVE Kept(s)'
    <3>1. CASE s \in saving \cup {stored}
      <4>1. s.put \in Nat /\ s.put <= persisted /\ persisted \in Nat BY <1>0, <3>1 DEF Copies, Kept
      <4> QED BY <2>1, <4>1 DEF Kept
    <3>2. CASE s = x
      <4>1. persisted \in Nat BY <1>0 DEF Copies
      <4>2. stale' <=> title[r] # activeTab BY <2>1
      <4> QED BY <2>1, <2>3, <3>2, <4>1, <4>2 DEF Kept
    <3> QED BY <2>1, <2>4, <3>1, <3>2
  <2>5. Copies' BY <1>0, <2>1, <2>4 DEF Copies
  <2> QED BY <1>0, <2>1, <2>2, <2>5 DEF ShellInv, Unloaded, Address
<1>10. CASE Shell!ToUrl
  <2>1. /\ due = "toUrl"
        /\ \/ activeTab = url /\ due' = "none" /\ UNCHANGED <<url, syncing>>
           \/ syncing' = "none" /\ due' = "none" /\ skipped' = TRUE /\ UNCHANGED url
           \/ url' = activeTab /\ due' = "fromUrl"
        /\ UNCHANGED <<stack, activeTab, loaded, title, stored, saving, persisted, stale>>
    BY <1>10 DEF Shell!ToUrl, Shell!Push
  <2>2. loaded BY <1>0, <2>1 DEF Unloaded
  <2>3. Address' BY <1>0, <2>1 DEF Address
  <2> QED BY <1>0, <2>1, <2>2, <2>3 DEF ShellInv, Copies, Kept, Unloaded
<1>11. CASE Shell!FromUrl
  <2>1. due = "fromUrl" /\ UNCHANGED <<loaded, url, stored, skipped>> BY <1>11 DEF Shell!FromUrl
  <2>2. loaded BY <1>0, <2>1 DEF Unloaded
  <2>3. CASE syncing = "fromState" \/ url = activeTab
    <3>1. /\ due' = "none" /\ syncing' = IF syncing = "fromState" THEN "none" ELSE syncing
          /\ UNCHANGED <<stack, activeTab, title, saving, persisted, stale>>
      BY <1>11, <2>3 DEF Shell!FromUrl
    <3>2. url = activeTab BY <1>0, <2>3 DEF Address
    <3>3. Address' BY <2>1, <3>1, <3>2 DEF Address
    <3> QED BY <1>0, <2>1, <2>2, <3>1, <3>3 DEF ShellInv, Copies, Kept, Unloaded
  <2>4. CASE ~(syncing = "fromState" \/ url = activeTab)
    <3>1. syncing' = "fromUrl" /\ due' = "toUrl" /\ (Shell!activateTab(url) \/ Shell!openTab(url))
      BY <1>11, <2>4 DEF Shell!FromUrl
    <3>2. Shell!Persist(stack', activeTab')
      BY <3>1 DEF Shell!activateTab, Shell!openTab, Shell!Persist
    <3>3. Copies' /\ Unloaded' BY <2>1, <2>2, <3>2, PersistKeeps
    <3> QED BY <3>1, <3>3 DEF ShellInv, Address
  <2> QED BY <2>3, <2>4
<1>12. CASE Shell!LoadStack
  <2>1. /\ ~loaded /\ loaded' = TRUE /\ stack' = stored.stack /\ activeTab' = stored.active
        /\ IF url = stored.active THEN url' = url ELSE url' = stored.active
        /\ UNCHANGED <<syncing, due, stored, saving, persisted, stale, skipped>>
    BY <1>12 DEF Shell!LoadStack, Shell!Push
  <2>2. saving = {} /\ persisted = 0 /\ syncing = "none" BY <1>0, <2>1 DEF Unloaded
  <2>3. Copies' BY <1>0, <2>1, <2>2 DEF Copies, Kept
  <2> QED BY <2>1, <2>2, <2>3 DEF ShellInv, Unloaded, Address
<1>13. CASE Shell!LoadEmpty
  <2> DEFINE a == [stack |-> <<url>>, active |-> url, put |-> 1]
             b == [stack |-> stack', active |-> Dashboard, put |-> 2]
  <2>1. /\ ~loaded /\ loaded' = TRUE /\ activeTab' = Dashboard
        /\ saving' = {a, b} /\ persisted' = 2 /\ stored' = stored
        /\ syncing' = "fromUrl" /\ due' = "toUrl"
    BY <1>13 DEF Shell!LoadEmpty
  <2>2. a.put = 1 /\ b.put = 2 /\ b.stack = stack' /\ b.active = Dashboard OBVIOUS
  <2> HIDE DEF a, b
  <2>3. stored.put \in Nat /\ stored.put <= 0 BY <1>0, <2>1 DEF Unloaded, Copies, Kept
  <2>4. Copies' BY <2>1, <2>2, <2>3 DEF Copies, Kept
  <2> QED BY <2>1, <2>4 DEF ShellInv, Unloaded, Address
<1>14. ASSUME NEW p \in saving, Shell!SaveTabStack(p) \/ Shell!SaveFails(p) PROVE ShellInv'
  <2>1. /\ stored' \in {stored, p} /\ saving' = saving \ {p}
        /\ UNCHANGED <<stack, activeTab, loaded, url, syncing, due, title, persisted, stale, skipped>>
    BY <1>14 DEF Shell!SaveTabStack, Shell!SaveFails
  <2>2. saving' \cup {stored'} \subseteq saving \cup {stored} BY <2>1
  <2>3. Copies' BY <1>0, <2>1, <2>2 DEF Copies, Kept
  <2> QED BY <1>0, <2>1, <2>3 DEF ShellInv, Unloaded, Address
<1> QED
  BY <1>1, <1>2, <1>3, <1>5, <1>6, <1>7, <1>8, <1>9, <1>10, <1>11, <1>12, <1>13, <1>14
     DEF Shell!Next

\* The address bar and the next launch both come back to the tab on the screen.
THEOREM TabsAreKept == Spec => []TabsKept
<1>1. Init => ShellInv BY ShellInit DEF Init
<1>2. ShellInv /\ [Next]_vars => ShellInv' BY StepOfEach, ShellStep
<1>3. ShellInv => TabsKept
  BY DEF ShellInv, Address, Copies, Kept, TabsKept, Shell!TabsKept, Shell!UrlShowsTab, Shell!StackRestored
<1> QED BY <1>1, <1>2, <1>3, PTL DEF Spec

-----------------------------------------------------------------------------
(* Manuscript.                                                              *)

Files == [tex : Nat, pdf : Nat \cup {None}, put : Nat, listed : BOOLEAN]
Requests == [doc : Drafts, tex : Nat, put : Nat, compile : BOOLEAN, live : BOOLEAN,
             stage : {"sent", "stored", "rejected", "fetching"}]

\* No PUT has a number that was not given yet.
Numbered ==
    /\ sent \in Nat
    /\ file \in [Drafts -> Files] /\ \A d \in Drafts : file[d].put <= sent
    /\ puts \subseteq Requests /\ \A p \in puts : p.put <= sent
    /\ owner \in Seq(Drafts) /\ active \in Drafts

\* Text x was typed into draft d, or is the text every draft starts with.
Belongs(d, x) == x \in Nat /\ (x # 0 => x \in 1 .. Len(owner) /\ owner[x] = d)

\* Every copy of a text is kept with the draft it was typed into.
Owned ==
    /\ \A d \in Drafts : Belongs(d, file[d].tex)
    /\ \A p \in puts : Belongs(p.doc, p.tex)
    /\ \A s \in {saveTimer, retry} : s # None => s.doc \in Drafts /\ Belongs(s.doc, s.tex)
    /\ Belongs(active, source)
    /\ \A d \in Drafts : documents[d] # None => Belongs(d, documents[d])
    /\ creating # None /\ creating.list # None =>
          \A d \in Drafts : creating.list[d] # None => Belongs(d, creating.list[d])

\* Only a draft in the list is ever opened; the one being created is not yet.
Listed ==
    /\ documents = [d \in Drafts |-> documents[d]]
    /\ documents[active] # None
    /\ \A n \in 1 .. Len(owner) : documents[owner[n]] # None
    /\ \A d \in Drafts : documents[d] # None => file[d].listed
    /\ creating # None =>
          /\ creating.doc \in Drafts /\ documents[creating.doc] = None
          /\ creating = [doc |-> creating.doc, list |-> creating.list]
          /\ file[creating.doc].listed
          /\ creating.list # None =>
                /\ creating.list = [d \in Drafts |-> creating.list[d]]
                /\ creating.list[creating.doc] # None
                /\ \A d \in Drafts : documents[d] # None => creating.list[d] # None
                /\ \A d \in Drafts : creating.list[d] # None => file[d].listed

\* The editor and the autosave's timer hold the last text of their draft.
Newest ==
    /\ active \notin forgotten => source = Editor!Latest(active)
    /\ saveTimer # None => saveTimer.tex = Editor!Latest(saveTimer.doc)

\* From PUT n on, an autosave or what is stored already, draft d is only
\* written with its last text.
SavedFrom(d, n) ==
    /\ \/ file[d].put = n
       \/ \E p \in puts : p.doc = d /\ p.stage = "sent" /\ ~p.compile /\ p.put = n
    /\ \A p \in puts : p.doc = d /\ p.stage = "sent" /\ p.put >= n => p.tex = Editor!Latest(d)
    /\ file[d].put >= n => file[d].tex = Editor!Latest(d)

Timed(d) == saveTimer # None /\ saveTimer.doc = d

Saved(d) == Timed(d) \/ \E n \in Nat : SavedFrom(d, n)

AllSaved == \A d \in Drafts : d \in overtaken \cup forgotten \/ Saved(d)

\* Who still waits for a compile compiled what the editor shows, and so did
\* every compile sent after it.
Previewed ==
    /\ \A p \in puts : /\ p.stage # "sent" => p.live
                       /\ p.stage = "fetching" => p.compile
    /\ \A p \in puts : p.compile /\ p.live => p.doc = active /\ p.tex = source
    /\ \A p, q \in puts :
          p.compile /\ p.live /\ q.compile /\ q.stage = "sent" /\ q.doc = p.doc /\ q.put >= p.put
          => q.tex = p.tex
    /\ \A p \in puts : p.compile /\ p.stage \in {"stored", "fetching"} /\ p.doc \notin overtaken
          => file[p.doc].put >= p.put /\ file[p.doc].pdf = p.tex

Shown ==
    /\ previewTimer # None => previewTimer = [doc |-> active, tex |-> source]
    /\ Editor!PreviewOfSource

EditorInv == Numbered /\ Owned /\ Listed /\ Newest /\ AllSaved /\ Previewed /\ Shown

LEMMA NoneIsNothing ==
    /\ First \in Drafts /\ None \notin Nat
    /\ \A d \in Drafts, x \in Nat : [doc |-> d, tex |-> x] # None
<1>1. First \in Drafts /\ None \notin Nat /\ None \notin [doc : Drafts, tex : Nat]
  BY DraftsAssumption
<1> QED BY <1>1

\* The last text of a draft is not the one typed into another, and is the one
\* typed now.
LEMMA LatestOfOwner ==
    ASSUME owner \in Seq(Drafts)
    PROVE  /\ owner' = owner => \A d : Editor!Latest(d)' = Editor!Latest(d)
           /\ \A a \in Drafts : owner' = Append(owner, a) =>
                 /\ Editor!Latest(a)' = Len(owner) + 1
                 /\ \A d : d # a => Editor!Latest(d)' = Editor!Latest(d)
           /\ \A d : (\A n \in 1 .. Len(owner) : owner[n] # d) => Editor!Latest(d) = 0
<1>1. owner' = owner => \A d : Editor!Latest(d)' = Editor!Latest(d) BY DEF Editor!Latest
<1>2. ASSUME NEW a \in Drafts, owner' = Append(owner, a)
      PROVE  /\ Editor!Latest(a)' = Len(owner) + 1
             /\ \A d : d # a => Editor!Latest(d)' = Editor!Latest(d)
  <2>1. /\ Len(owner) \in Nat /\ Len(owner') = Len(owner) + 1
        /\ \A n \in 1 .. Len(owner) : owner'[n] = owner[n]
        /\ owner'[Len(owner) + 1] = a
    BY <1>2
  <2>2. Editor!Latest(a)' = Len(owner) + 1
    <3> DEFINE its == {n \in 1 .. Len(owner') : owner'[n] = a}
    <3>1. Len(owner) + 1 \in its /\ \A m \in its : m \in Nat /\ m <= Len(owner) + 1 BY <2>1
    <3>2. \A n \in its : (\A m \in its : m <= n) <=> n = Len(owner) + 1 BY <2>1, <3>1
    <3>3. Editor!Latest(a)' = IF its = {} THEN 0 ELSE CHOOSE n \in its : \A m \in its : m <= n
      BY DEF Editor!Latest, Editor!Starter
    <3> HIDE DEF its
    <3>4. (CHOOSE n \in its : \A m \in its : m <= n) = Len(owner) + 1 BY <3>1, <3>2
    <3> QED BY <3>1, <3>3, <3>4
  <2>3. ASSUME NEW d, d # a PROVE Editor!Latest(d)' = Editor!Latest(d)
    <3> DEFINE a2 == {n \in 1 .. Len(owner') : owner'[n] = d}
               a1 == {n \in 1 .. Len(owner) : owner[n] = d}
    <3>1. a2 = a1 BY <2>1, <2>3
    <3>2. Editor!Latest(d)' = IF a2 = {} THEN 0 ELSE CHOOSE n \in a2 : \A m \in a2 : m <= n
      BY DEF Editor!Latest, Editor!Starter
    <3>3. Editor!Latest(d) = IF a1 = {} THEN 0 ELSE CHOOSE n \in a1 : \A m \in a1 : m <= n
      BY DEF Editor!Latest, Editor!Starter
    <3> HIDE DEF a1, a2
    <3> QED BY <3>1, <3>2, <3>3
  <2> QED BY <2>2, <2>3
<1>3. \A d : (\A n \in 1 .. Len(owner) : owner[n] # d) => Editor!Latest(d) = 0
  BY DEF Editor!Latest, Editor!Starter
<1> QED BY <1>1, <1>2, <1>3

LEMMA EditorInit == Editor!Init => EditorInv
<1> SUFFICES ASSUME Editor!Init PROVE EditorInv OBVIOUS
<1>1. /\ file = [d \in Drafts |-> [Editor!Absent EXCEPT !.listed = (d = First)]]
      /\ documents = [d \in Drafts |-> IF d = First THEN 0 ELSE None]
      /\ active = First /\ source = 0 /\ saveTimer = None /\ previewTimer = None
      /\ puts = {} /\ sent = 0 /\ status = "empty" /\ creating = None /\ retry = None
      /\ owner = <<>> /\ overtaken = {} /\ forgotten = {}
  BY DEF Editor!Init, Editor!Starter
<1>2. First \in Drafts /\ None \notin Nat BY NoneIsNothing
<1>3. ASSUME NEW d \in Drafts
      PROVE  file[d] \in Files /\ file[d].tex = 0 /\ file[d].put = 0 /\ (d = First => file[d].listed)
  <2> DEFINE b == d = First
  <2>1. b \in BOOLEAN /\ (d = First => b) OBVIOUS
  <2>2. file[d] = [tex |-> 0, pdf |-> None, put |-> 0, listed |-> b]
    BY <1>1 DEF Editor!Absent, Editor!Starter
  <2> HIDE DEF b
  <2>3. file[d].listed = b BY <2>2
  <2>4. d = First => file[d].listed BY <2>1, <2>3
  <2>5. file[d] \in Files BY <2>1, <2>2 DEF Files
  <2> QED BY <2>2, <2>4, <2>5
<1>4. owner \in Seq(Drafts) /\ Len(owner) = 0 BY <1>1
<1>5. \A d : Editor!Latest(d) = 0 BY <1>4, LatestOfOwner
<1>6. Numbered
  <2>1. file \in [Drafts -> Files]
    <3>1. file = [d \in Drafts |-> file[d]] BY <1>1
    <3> QED BY <1>3, <3>1
  <2> QED BY <1>1, <1>2, <1>3, <1>4, <2>1 DEF Numbered
<1>7. Owned BY <1>1, <1>2, <1>3 DEF Owned, Belongs
<1>8. Listed
  <2>1. \A d \in Drafts : documents[d] # None => d = First BY <1>1
  <2>2. documents[active] = 0 /\ documents = [d \in Drafts |-> documents[d]] BY <1>1, <1>2
  <2> QED BY <1>1, <1>2, <1>3, <1>4, <2>1, <2>2 DEF Listed
<1>9. Newest BY <1>1, <1>5 DEF Newest
<1>10. AllSaved
  <2> SUFFICES ASSUME NEW d \in Drafts PROVE SavedFrom(d, 0) BY DEF AllSaved, Saved
  <2> QED BY <1>1, <1>3, <1>5 DEF SavedFrom
<1>11. Previewed /\ Shown BY <1>1 DEF Previewed, Shown, Editor!PreviewOfSource
<1> QED BY <1>6, <1>7, <1>8, <1>9, <1>10, <1>11 DEF EditorInv

-----------------------------------------------------------------------------
(* What a step does to the PUTs in flight.                                  *)

\* Request q is p after a step: the same save, no less far on its way.
Same(p, q) ==
    /\ q.doc = p.doc /\ q.tex = p.tex /\ q.put = p.put /\ (q.compile <=> p.compile)

Comes(p, q) ==
    /\ Same(p, q)
    /\ q.live => p.live
    /\ q.stage = "sent" => p.stage = "sent"
    /\ q.stage \in {"stored", "fetching"} => p.stage \in {"stored", "fetching"}

\* A step may send the requests of a set and lose or move on others.
Sends(new) ==
    /\ sent' \in Nat /\ sent <= sent'
    /\ \A q \in new : /\ q \in Requests /\ q.stage = "sent"
                      /\ q.put <= sent' /\ q.put > sent
    /\ new \subseteq puts' /\ puts' \subseteq Requests
    /\ \A q \in puts' : /\ q \in new \/ \E p \in puts : Comes(p, q)
                        /\ q.stage # "sent" => q.live
                        /\ q.stage = "fetching" => q.compile

LEMMA SendsNumbered ==
    ASSUME Numbered, NEW new, Sends(new), file' = file, owner' \in Seq(Drafts),
           active' \in Drafts
    PROVE  Numbered'
<1>1. ASSUME NEW q \in puts' PROVE q.put <= sent'
  <2>1. CASE q \in new BY <2>1 DEF Sends
  <2>2. CASE \E p \in puts : Comes(p, q)
    <3>1. PICK p \in puts : Comes(p, q) BY <2>2
    <3>2. p.put \in Nat /\ p.put <= sent /\ q.put = p.put
      BY <3>1 DEF Numbered, Requests, Comes, Same
    <3> QED BY <3>2 DEF Sends, Numbered
  <2> QED BY <2>1, <2>2 DEF Sends
<1>2. \A d \in Drafts : file[d].put \in Nat /\ file[d].put <= sent BY DEF Numbered, Files
<1>3. \A d \in Drafts : file[d].put <= sent' BY <1>2 DEF Sends, Numbered
<1> QED BY <1>1, <1>3 DEF Numbered, Sends

LEMMA SendsOwned ==
    ASSUME Owned, NEW new, Sends(new),
           \A d, x : Belongs(d, x) => Belongs(d, x)',
           \A q \in new : Belongs(q.doc, q.tex)
    PROVE  \A p \in puts' : Belongs(p.doc, p.tex)'
<1> SUFFICES ASSUME NEW q \in puts' PROVE Belongs(q.doc, q.tex)'
  BY DEF Belongs
<1>1. CASE q \in new
  <2>1. Belongs(q.doc, q.tex) BY <1>1
  <2> QED BY <2>1
<1>2. ASSUME NEW p \in puts, Comes(p, q) PROVE Belongs(q.doc, q.tex)'
  <2>1. Belongs(q.doc, q.tex) BY <1>2 DEF Owned, Comes, Same
  <2> QED BY <2>1
<1> QED BY <1>1, <1>2 DEF Sends

\* A draft stays saved if its autosaves in flight stay there, what is sent of it
\* is its last text, and a timer that goes has been sent as an autosave.
LEMMA SendsSaved ==
    ASSUME Numbered, NEW d \in Drafts, Saved(d), NEW new, Sends(new),
           file'[d].put = file[d].put, file'[d].tex = file[d].tex,
           Editor!Latest(d)' = Editor!Latest(d),
           \A p \in puts : p.doc = d /\ p.stage = "sent" /\ ~p.compile =>
               \E q \in puts' : Same(p, q) /\ q.stage = "sent",
           \A q \in new : q.doc = d => q.tex = Editor!Latest(d),
           Timed(d) => Timed(d)' \/ \E q \in new : q.doc = d /\ ~q.compile
    PROVE  Saved(d)'
<1>1. CASE \E q \in new : q.doc = d /\ ~q.compile
  <2>1. PICK q \in new : q.doc = d /\ ~q.compile BY <1>1
  <2>2. q \in puts' /\ q.stage = "sent" /\ q.put \in Nat /\ q.put > sent BY DEF Sends, Requests
  <2>3. ASSUME NEW r \in puts', r.doc = d, r.stage = "sent", r.put >= q.put
        PROVE  r.tex = Editor!Latest(d)
    <3>1. CASE r \in new BY <2>3, <3>1
    <3>2. ASSUME NEW p \in puts, Comes(p, r) PROVE FALSE
      <4>1. p.put \in Nat /\ p.put <= sent /\ r.put = p.put
        BY <3>2 DEF Numbered, Requests, Comes, Same
      <4> QED BY <2>2, <2>3, <4>1 DEF Numbered
    <3> QED BY <3>1, <3>2 DEF Sends
  <2>4. ~(file'[d].put >= q.put) BY <2>2 DEF Numbered, Files
  <2>5. SavedFrom(d, q.put)' BY <2>1, <2>2, <2>3, <2>4 DEF SavedFrom
  <2> QED BY <2>2, <2>5 DEF Saved
<1>2. CASE Timed(d)' BY <1>2 DEF Saved
<1>3. CASE ~Timed(d)
  <2>1. PICK n \in Nat : SavedFrom(d, n) BY <1>3 DEF Saved
  <2>2. \/ file'[d].put = n
        \/ \E p \in puts' : p.doc = d /\ p.stage = "sent" /\ ~p.compile /\ p.put = n
    BY <2>1 DEF SavedFrom, Same
  <2>3. ASSUME NEW r \in puts', r.doc = d, r.stage = "sent", r.put >= n
        PROVE  r.tex = Editor!Latest(d)
    <3>1. CASE r \in new BY <2>3, <3>1
    <3>2. ASSUME NEW p \in puts, Comes(p, r) PROVE r.tex = Editor!Latest(d)
      BY <2>1, <2>3, <3>2 DEF SavedFrom, Comes, Same
    <3> QED BY <3>1, <3>2 DEF Sends
  <2>4. SavedFrom(d, n)' BY <2>1, <2>2, <2>3 DEF SavedFrom
  <2> QED BY <2>4 DEF Saved
<1> QED BY <1>1, <1>2, <1>3

\* Answers still awaited are for what the editor shows, if either the editor
\* goes on showing it and compiles nothing else, or nobody waits any more.
LEMMA SendsPreviewed ==
    ASSUME Numbered, Previewed, NEW new, Sends(new), file' = file,
           \/ /\ active' = active /\ source' = source /\ overtaken \subseteq overtaken'
              /\ \A q \in new : q.compile => q.doc = active /\ q.tex = source
           \/ \A q \in puts' : q.compile => ~q.live
    PROVE  Previewed'
<1>1. \A q \in puts' : (q.stage # "sent" => q.live) /\ (q.stage = "fetching" => q.compile) BY DEF Sends
<1>2. CASE \A q \in puts' : q.compile => ~q.live BY <1>1, <1>2 DEF Previewed
<1>3. CASE /\ active' = active /\ source' = source /\ overtaken \subseteq overtaken'
           /\ \A q \in new : q.compile => q.doc = active /\ q.tex = source
  <2>1. ASSUME NEW q \in puts', q.compile, q.live PROVE q.doc = active /\ q.tex = source
    <3>1. CASE q \in new BY <1>3, <2>1, <3>1
    <3>2. ASSUME NEW p \in puts, Comes(p, q) PROVE q.doc = active /\ q.tex = source
      BY <2>1, <3>2 DEF Previewed, Comes, Same
    <3> QED BY <3>1, <3>2 DEF Sends
  <2>2. ASSUME NEW p \in puts', NEW q \in puts', p.compile, p.live, q.compile, q.stage = "sent",
               q.doc = p.doc, q.put >= p.put
        PROVE  q.tex = p.tex
    <3>1. p.tex = source BY <2>1, <2>2
    <3>2. CASE q \in new BY <1>3, <2>2, <3>1, <3>2
    <3>3. ASSUME NEW r \in puts, Comes(r, q) PROVE q.tex = p.tex
      <4>1. CASE p \in new
        <5>1. p.put \in Nat /\ p.put > sent BY <4>1 DEF Sends, Requests
        <5>2. r.put \in Nat /\ r.put <= sent /\ q.put = r.put
          BY <3>3 DEF Numbered, Requests, Comes, Same
        <5> QED BY <2>2, <5>1, <5>2 DEF Numbered
      <4>2. ASSUME NEW s \in puts, Comes(s, p) PROVE q.tex = p.tex
        <5>1. s.compile /\ s.live /\ s.doc = p.doc /\ s.tex = p.tex /\ s.put = p.put
          BY <2>2, <4>2, Zenon DEF Comes, Same
        <5>2. /\ r.compile /\ r.stage = "sent" /\ r.doc = q.doc
              /\ r.tex = q.tex /\ r.put = q.put
          BY <2>2, <3>3, Zenon DEF Comes, Same
        <5>3. r.doc = s.doc /\ r.put >= s.put BY <2>2, <5>1, <5>2, Zenon
        <5>4. r.tex = s.tex BY <5>1, <5>2, <5>3, Zenon DEF Previewed
        <5> QED BY <5>1, <5>2, <5>4, Zenon
      <4> QED BY <4>1, <4>2 DEF Sends
    <3> QED BY <3>2, <3>3 DEF Sends
  <2>3. ASSUME NEW q \in puts', q.compile, q.stage \in {"stored", "fetching"}, q.doc \notin overtaken'
        PROVE  file[q.doc].put >= q.put /\ file[q.doc].pdf = q.tex
    <3>1. q \notin new BY <2>3 DEF Sends
    <3>2. PICK p \in puts : Comes(p, q) BY <3>1 DEF Sends
    <3> QED BY <1>3, <2>3, <3>2 DEF Previewed, Comes, Same
  <2> QED BY <1>1, <1>3, <2>1, <2>2, <2>3 DEF Previewed
<1> QED BY <1>2, <1>3

LEMMA PutFields ==
    ASSUME NEW s, s.doc \in Drafts, s.tex \in Nat, NEW n \in Nat,
           NEW c \in BOOLEAN, NEW l \in BOOLEAN
    PROVE  LET p == Editor!Put(s, n, c, l) IN
           /\ p \in Requests /\ p.doc = s.doc /\ p.tex = s.tex /\ p.put = n
           /\ p.stage = "sent" /\ p.compile = c /\ p.live = l
BY DEF Editor!Put, Requests

LEMMA CutFields ==
    ASSUME NEW p \in Requests, NEW l \in BOOLEAN
    PROVE  LET q == [p EXCEPT !.live = l] IN
           /\ q \in Requests /\ q.doc = p.doc /\ q.tex = p.tex /\ q.put = p.put
           /\ q.compile = p.compile /\ q.stage = p.stage /\ q.live = l
BY DEF Requests

LEMMA MoveFields ==
    ASSUME NEW p \in Requests, NEW s \in {"sent", "stored", "rejected", "fetching"}
    PROVE  LET q == [p EXCEPT !.stage = s] IN
           /\ q \in Requests /\ q.doc = p.doc /\ q.tex = p.tex /\ q.put = p.put
           /\ q.compile = p.compile /\ q.live = p.live /\ q.stage = s
BY DEF Requests

\* Nothing is sent that the new text is not, but the compile of the text that
\* the editor leaves; and then nobody waits for a compile any more.
LEMMA ShowSends ==
    ASSUME EditorInv, NEW d \in Drafts, NEW x \in Nat, NEW save,
           save # None => save.doc \in Drafts /\ save.tex \in Nat,
           NEW new \in {{}, Editor!Autosave(save)}, Editor!Show(d, x, new)
    PROVE  /\ \E out :
                /\ Sends(out) /\ new \subseteq out
                /\ \A q \in out : q \in new \/ (q.doc = active /\ q.tex = source)
                /\ d = active => out = new
           /\ \A q \in new : save # None /\ q.doc = save.doc /\ q.tex = save.tex /\ ~q.compile
           /\ \A p \in puts : p.stage = "sent" => \E q \in puts' : Same(p, q) /\ q.stage = "sent"
           /\ d # active \/ x # source => \A q \in puts' : q.compile => ~q.live
<1> DEFINE changed == d # active \/ x # source
           n == IF new = {} THEN sent + 1 ELSE sent + 2
           flushed == IF d = active THEN {} ELSE Editor!FlushedCompile(n)
           kept(p) == p.live /\ ~(changed /\ p.compile)
           cut == {[p EXCEPT !.live = kept(p)] : p \in puts}
           out == new \cup flushed
<1>1. /\ puts' = new \cup flushed \cup {q \in cut : q.live \/ q.stage = "sent"}
      /\ sent' = sent + (IF new = {} THEN 0 ELSE 1) + (IF flushed = {} THEN 0 ELSE 1)
  BY DEF Editor!Show, Editor!Awaited
<1>2. sent \in Nat /\ puts \subseteq Requests /\ active \in Drafts /\ source \in Nat
  BY DEF EditorInv, Numbered, Owned, Belongs
<1>3. ASSUME NEW q \in new
      PROVE  /\ save # None /\ q \in Requests /\ q.doc = save.doc /\ q.tex = save.tex
             /\ q.put = sent + 1 /\ q.stage = "sent" /\ ~q.compile
  <2>1. save # None /\ q = Editor!Put(save, sent + 1, FALSE, TRUE) BY <1>3 DEF Editor!Autosave
  <2>2. sent + 1 \in Nat BY <1>2
  <2>3. LET p == Editor!Put(save, sent + 1, FALSE, TRUE) IN
           /\ p \in Requests /\ p.doc = save.doc /\ p.tex = save.tex /\ p.put = sent + 1
           /\ p.stage = "sent" /\ p.compile = FALSE /\ p.live = TRUE
    BY <2>1, <2>2, PutFields
  <2> QED BY <2>1, <2>3
<1>4. ASSUME NEW q \in flushed
      PROVE  /\ d # active /\ q \in Requests /\ q.doc = active /\ q.tex = source
             /\ q.put = n /\ q.stage = "sent" /\ ~q.live
  <2>1. d # active /\ previewTimer # None /\ q = Editor!Put(previewTimer, n, TRUE, FALSE)
    BY <1>4 DEF Editor!FlushedCompile
  <2>2. previewTimer = [doc |-> active, tex |-> source] BY <2>1 DEF EditorInv, Shown
  <2>3. n \in Nat BY <1>2
  <2>4. previewTimer.doc = active /\ previewTimer.tex = source BY <2>2
  <2> HIDE DEF n, flushed, cut
  <2>5. LET p == Editor!Put(previewTimer, n, TRUE, FALSE) IN
           /\ p \in Requests /\ p.doc = active /\ p.tex = source /\ p.put = n
           /\ p.stage = "sent" /\ p.compile = TRUE /\ p.live = FALSE
    BY <1>2, <2>3, <2>4, PutFields, ZenonT(60)
  <2> QED BY <2>1, <2>5
<1>5. ASSUME NEW p \in puts
      PROVE  LET q == [p EXCEPT !.live = kept(p)] IN
             /\ q \in Requests /\ Same(p, q) /\ q.stage = p.stage
             /\ q.live => p.live
             /\ changed /\ q.compile => ~q.live
  <2> DEFINE l == kept(p)
  <2>1. l \in BOOLEAN OBVIOUS
  <2>2. l => p.live OBVIOUS
  <2>3. l /\ changed => ~p.compile OBVIOUS
  <2>4. p \in Requests BY <1>2
  <2> HIDE DEF l
  <2> DEFINE q == [p EXCEPT !.live = l]
  <2>5. /\ q \in Requests /\ q.doc = p.doc /\ q.tex = p.tex /\ q.put = p.put
        /\ q.compile = p.compile /\ q.stage = p.stage /\ q.live = l
    BY <2>1, <2>4, CutFields
  <2> HIDE DEF q
  <2>6. /\ q \in Requests /\ Same(p, q) /\ q.stage = p.stage
        /\ q.live => p.live
        /\ changed /\ q.compile => ~q.live
    BY <2>2, <2>3, <2>5 DEF Same
  <2> QED BY <2>6 DEF q, l
<1>6. ASSUME NEW q \in cut, q.live \/ q.stage = "sent"
      PROVE  /\ q \in Requests /\ \E p \in puts : Comes(p, q)
             /\ q.stage # "sent" => q.live
             /\ q.stage = "fetching" => q.compile
             /\ changed /\ q.compile => ~q.live
  <2>1. PICK p \in puts : q = [p EXCEPT !.live = kept(p)] BY <1>6
  <2>2. /\ q \in Requests /\ Same(p, q) /\ q.stage = p.stage /\ (q.live => p.live)
        /\ (changed /\ q.compile => ~q.live)
    BY <1>5, <2>1
  <2>3. q.stage = "fetching" => q.compile BY <2>2 DEF Same, EditorInv, Previewed
  <2> QED BY <1>6, <2>2, <2>3 DEF Comes
<1>7. ASSUME NEW p \in puts, p.stage = "sent" PROVE \E q \in puts' : Same(p, q) /\ q.stage = "sent"
  <2> DEFINE q == [p EXCEPT !.live = kept(p)]
  <2>1. q \in cut OBVIOUS
  <2>2. Same(p, q) /\ q.stage = "sent" BY <1>5, <1>7
  <2> HIDE DEF q, cut
  <2> QED BY <1>1, <2>1, <2>2
<1> HIDE DEF cut
<1>8. changed => \A q \in puts' : q.compile => ~q.live
  <2> SUFFICES ASSUME changed, NEW q \in puts', q.compile PROVE ~q.live OBVIOUS
  <2>1. CASE q \in new BY <1>3, <2>1
  <2>2. CASE q \in flushed BY <1>4, <2>2
  <2>3. CASE q \in cut /\ (q.live \/ q.stage = "sent") BY <1>6, <2>3
  <2> QED BY <1>1, <2>1, <2>2, <2>3
<1>9. Sends(out)
  <2>1. sent' \in Nat /\ sent <= sent' BY <1>1, <1>2
  <2>2. ASSUME NEW q \in out
        PROVE  q \in Requests /\ q.stage = "sent" /\ q.put <= sent' /\ q.put > sent
    <3>1. CASE q \in new
      <4>1. new # {} BY <3>1
      <4>2. sent' = sent + 1 \/ sent' = sent + 2 BY <1>1, <1>2, <4>1
      <4>3. q.put = sent + 1 /\ q \in Requests /\ q.stage = "sent" BY <1>3, <3>1
      <4> QED BY <1>2, <4>2, <4>3
    <3>2. CASE q \in flushed
      <4>1. flushed # {} BY <3>2
      <4>2. sent' = n BY <1>1, <1>2, <4>1
      <4>3. q.put = n /\ q \in Requests /\ q.stage = "sent" BY <1>4, <3>2
      <4> QED BY <1>2, <4>2, <4>3
    <3> QED BY <3>1, <3>2
  <2>3. ASSUME NEW q \in puts'
        PROVE  /\ q \in Requests
               /\ q \in out \/ \E p \in puts : Comes(p, q)
               /\ (q.stage # "sent" => q.live) /\ (q.stage = "fetching" => q.compile)
    <3>1. CASE q \in out BY <2>2, <3>1
    <3>2. CASE q \in cut /\ (q.live \/ q.stage = "sent") BY <1>6, <3>2
    <3> QED BY <1>1, <3>1, <3>2
  <2>4. out \subseteq puts' BY <1>1
  <2> HIDE DEF out
  <2> QED BY <2>1, <2>2, <2>3, <2>4 DEF Sends
<1>10. /\ new \subseteq out
       /\ \A q \in out : q \in new \/ (q.doc = active /\ q.tex = source)
       /\ d = active => out = new
  BY <1>4
<1> HIDE DEF out, flushed
<1>11. \E s : /\ Sends(s) /\ new \subseteq s
              /\ \A q \in s : q \in new \/ (q.doc = active /\ q.tex = source)
              /\ d = active => s = new
  BY <1>9, <1>10
<1>12. \A q \in new : save # None /\ q.doc = save.doc /\ q.tex = save.tex /\ ~q.compile
  BY <1>3
<1> QED BY <1>7, <1>8, <1>11, <1>12

\* The preview's timer holds what the editor shows, and what was compiled before
\* a change no longer counts as its preview.
LEMMA ShowShown ==
    ASSUME EditorInv, NEW d \in Drafts, NEW x \in Nat, NEW new, Editor!Show(d, x, new),
           shown' = shown, d = active /\ x = source => overtaken \subseteq overtaken'
    PROVE  Shown'
<1>1. /\ active' = d /\ source' = x
      /\ previewTimer' = IF ~(d # active \/ x # source) THEN previewTimer
                         ELSE IF x \in Blank THEN None ELSE [doc |-> d, tex |-> x]
      /\ status' = IF (d # active \/ x # source) /\ x \in Blank THEN "empty" ELSE status
  BY DEF Editor!Show
<1>2. Shown BY DEF EditorInv
<1>3. CASE d = active /\ x = source
  <2>1. previewTimer' = previewTimer /\ status' = status /\ active' = active /\ source' = source
    BY <1>1, <1>3
  <2> QED BY <1>2, <1>3, <2>1 DEF Shown, Editor!PreviewOfSource
<1>4. CASE ~(d = active /\ x = source) /\ x \in Blank
  <2>1. status' = "empty" /\ previewTimer' = None BY <1>1, <1>4
  <2> QED BY <1>1, <2>1 DEF Shown, Editor!PreviewOfSource
<1>5. CASE ~(d = active /\ x = source) /\ x \notin Blank
  <2>1. previewTimer' = [doc |-> d, tex |-> x] BY <1>1, <1>5
  <2>2. previewTimer' # None BY <2>1, NoneIsNothing
  <2> QED BY <1>1, <2>1, <2>2 DEF Shown, Editor!PreviewOfSource
<1> QED BY <1>3, <1>4, <1>5

\* What the parts of the invariant say of a state, for the steps below.
LEMMA EditorFacts ==
    ASSUME EditorInv
    PROVE  /\ Numbered /\ Owned /\ Listed /\ Newest /\ AllSaved /\ Previewed /\ Shown
           /\ owner \in Seq(Drafts) /\ Len(owner) \in Nat /\ active \in Drafts /\ source \in Nat
           /\ sent \in Nat /\ puts \subseteq Requests
           /\ file \in [Drafts -> Files]
           /\ \A p \in puts : p.doc \in Drafts /\ p.tex \in Nat /\ p.put \in Nat
           /\ \A s \in {saveTimer, retry} : s # None => s.doc \in Drafts /\ s.tex \in Nat
           /\ None \notin Nat
BY NoneIsNothing DEF EditorInv, Numbered, Owned, Belongs, Requests

\* Steps that leave the editor's text and what is stored: they send `new' and
\* may hear of other requests.
LEMMA QuietStep ==
    ASSUME EditorInv, NEW new, Sends(new),
           UNCHANGED <<file, active, source, owner, overtaken>>, forgotten \subseteq forgotten',
           \A q \in new : /\ Belongs(q.doc, q.tex)
                          /\ q.doc \in forgotten' \/ q.tex = Editor!Latest(q.doc)
                          /\ q.compile => q.doc = active /\ q.tex = source,
           \A p \in puts : p.stage = "sent" /\ ~p.compile =>
               p.doc \in forgotten' \/ \E q \in puts' : Same(p, q) /\ q.stage = "sent",
           \/ saveTimer' = saveTimer
           \/ saveTimer # None /\ saveTimer' = None
              /\ \E q \in new : q.doc = saveTimer.doc /\ ~q.compile
    PROVE  /\ Numbered' /\ Newest' /\ AllSaved' /\ Previewed'
           /\ \A p \in puts' : Belongs(p.doc, p.tex)'
<1>0. Numbered /\ Owned /\ Newest /\ AllSaved /\ Previewed /\ owner \in Seq(Drafts) /\ active \in Drafts
  BY EditorFacts
<1>1. \A d : Editor!Latest(d)' = Editor!Latest(d) BY <1>0, LatestOfOwner
<1>2. Numbered' BY <1>0, SendsNumbered
<1>3. Previewed' BY <1>0, SendsPreviewed
<1>4. \A p \in puts' : Belongs(p.doc, p.tex)'
  <2>1. \A d, x : Belongs(d, x) => Belongs(d, x)' BY DEF Belongs
  <2> QED BY <1>0, <2>1, SendsOwned
<1>5. AllSaved'
  <2> SUFFICES ASSUME NEW d \in Drafts, d \notin overtaken \cup forgotten' PROVE Saved(d)'
    BY DEF AllSaved
  <2>1. Saved(d) BY <1>0 DEF AllSaved
  <2>2. Timed(d) => Timed(d)' \/ \E q \in new : q.doc = d /\ ~q.compile BY DEF Timed
  <2>3. \A p \in puts : p.doc = d /\ p.stage = "sent" /\ ~p.compile =>
               \E q \in puts' : Same(p, q) /\ q.stage = "sent"
    OBVIOUS
  <2>4. \A q \in new : q.doc = d => q.tex = Editor!Latest(d) OBVIOUS
  <2> QED BY <1>0, <1>1, <2>1, <2>2, <2>3, <2>4, SendsSaved
<1>6. Newest' BY <1>0, <1>1 DEF Newest
<1> QED BY <1>2, <1>3, <1>4, <1>5, <1>6

\* Nothing is sent; requests are answered or lost.
Answers(p, rest) ==
    /\ puts' = (puts \ {p}) \cup rest /\ sent' = sent
    /\ UNCHANGED <<file, active, source, owner, overtaken, saveTimer>>
    /\ forgotten \subseteq forgotten'
    /\ \A q \in rest : /\ q \in Requests /\ Comes(p, q) /\ q.stage # "sent" /\ q.live
                       /\ q.stage = "fetching" => q.compile
    /\ p.stage = "sent" => p.compile \/ p.doc \in forgotten'

LEMMA AnswerStep ==
    ASSUME EditorInv, NEW p \in puts, NEW rest, Answers(p, rest)
    PROVE  /\ Numbered' /\ Newest' /\ AllSaved' /\ Previewed'
           /\ \A q \in puts' : Belongs(q.doc, q.tex)'
<1> USE DEF Answers
<1>1. Sends({})
  <2>1. \A q \in puts' : q \in Requests /\ \E r \in puts : Comes(r, q)
    BY EditorFacts DEF Comes, Same
  <2>2. \A q \in puts' : (q.stage # "sent" => q.live) /\ (q.stage = "fetching" => q.compile)
    BY EditorFacts DEF Previewed
  <2> QED BY <2>1, <2>2, EditorFacts DEF Sends
<1>2. ASSUME NEW r \in puts, r.stage = "sent", ~r.compile
      PROVE  r.doc \in forgotten' \/ \E q \in puts' : Same(r, q) /\ q.stage = "sent"
  <2>1. CASE r = p BY <1>2, <2>1
  <2>2. CASE r # p BY <1>2, <2>2 DEF Same
  <2> QED BY <2>1, <2>2
<1> QED BY <1>1, <1>2, QuietStep

\* A request whose answer changes how far it is.
LEMMA Moved ==
    ASSUME EditorInv, NEW p \in puts, NEW s \in {"stored", "rejected", "fetching"},
           s # "rejected" => p.stage \in {"sent", "stored", "fetching"},
           s \in {"stored", "fetching"} => p.stage \in {"stored", "fetching"},
           s = "fetching" => p.compile
    PROVE  LET q == [p EXCEPT !.stage = s] IN
           /\ q \in Requests /\ Comes(p, q) /\ q.stage # "sent" /\ (q.live => p.live)
           /\ (p.live => q.live) /\ (q.stage = "fetching" => q.compile)
<1> DEFINE q == [p EXCEPT !.stage = s]
<1>1. p \in Requests /\ s \in {"sent", "stored", "rejected", "fetching"} BY EditorFacts
<1>2. /\ q \in Requests /\ q.doc = p.doc /\ q.tex = p.tex /\ q.put = p.put
      /\ q.compile = p.compile /\ q.live = p.live /\ q.stage = s
  BY <1>1, MoveFields
<1> HIDE DEF q
<1>3. Comes(p, q) BY <1>2 DEF Comes, Same
<1>4. /\ q \in Requests /\ Comes(p, q) /\ q.stage # "sent" /\ (q.live => p.live)
      /\ (p.live => q.live) /\ (q.stage = "fetching" => q.compile)
  BY <1>2, <1>3
<1> QED BY <1>4 DEF q

LEMMA EditorEdit == EditorInv /\ Editor!Edit => EditorInv'
<1> SUFFICES ASSUME EditorInv, Editor!Edit PROVE EditorInv' OBVIOUS
<1>0. /\ Numbered /\ Owned /\ Listed /\ Newest /\ AllSaved /\ Previewed /\ Shown
      /\ owner \in Seq(Drafts) /\ Len(owner) \in Nat /\ active \in Drafts /\ source \in Nat
  BY EditorFacts
<1> PICK x \in Nat : x = Len(owner) + 1 BY <1>0
<1>1. /\ owner' = Append(owner, active)
      /\ saveTimer' = [doc |-> active, tex |-> x] /\ Editor!Show(active, x, {})
      /\ forgotten' = (forgotten \ {active})
            \cup (IF saveTimer = None THEN {} ELSE {saveTimer.doc} \ {active})
      /\ overtaken' = overtaken \ {active}
      /\ UNCHANGED <<file, documents, shown, creating, retry>>
  BY DEF Editor!Edit
<1>2. /\ x \in Nat /\ owner' \in Seq(Drafts) /\ Len(owner') = x /\ owner'[x] = active
      /\ \A n \in 1 .. Len(owner) : owner'[n] = owner[n]
  BY <1>0, <1>1
<1>3. active' = active /\ source' = x BY <1>1 DEF Editor!Show
<1>4. x # source
  <2>1. source # 0 => source \in 1 .. Len(owner) BY <1>0 DEF Owned, Belongs
  <2> QED BY <1>0, <2>1
<1>5. /\ Editor!Latest(active)' = x
      /\ \A d : d # active => Editor!Latest(d)' = Editor!Latest(d)
  <2>1. \A a \in Drafts : owner' = Append(owner, a) =>
                 /\ Editor!Latest(a)' = Len(owner) + 1
                 /\ \A d : d # a => Editor!Latest(d)' = Editor!Latest(d)
    BY <1>0, LatestOfOwner
  <2> QED BY <1>0, <1>1, <1>3, <2>1
<1>6. \A d, y : Belongs(d, y) => Belongs(d, y)'
  <2> SUFFICES ASSUME NEW d, NEW y, Belongs(d, y) PROVE Belongs(d, y)' OBVIOUS
  <2>1. y \in Nat /\ (y # 0 => y \in 1 .. Len(owner) /\ owner[y] = d) BY DEF Belongs
  <2>2. y # 0 => y \in 1 .. Len(owner') /\ owner'[y] = d BY <1>0, <1>2, <2>1
  <2> QED BY <2>1, <2>2 DEF Belongs
<1>7. Belongs(active, x)'
  <2>1. x \in 1 .. Len(owner') BY <1>0, <1>2
  <2> QED BY <1>1, <1>2, <1>3, <2>1 DEF Belongs
<1>8. /\ Sends({})
      /\ \A p \in puts : p.stage = "sent" => \E q \in puts' : Same(p, q) /\ q.stage = "sent"
      /\ \A q \in puts' : q.compile => ~q.live
  <2>1. {} \in {{}, Editor!Autosave(None)} OBVIOUS
  <2>2. /\ \E out : /\ Sends(out) /\ {} \subseteq out
                    /\ \A q \in out : q \in {} \/ (q.doc = active /\ q.tex = source)
                    /\ active = active => out = {}
        /\ \A p \in puts : p.stage = "sent" => \E q \in puts' : Same(p, q) /\ q.stage = "sent"
        /\ active # active \/ x # source => \A q \in puts' : q.compile => ~q.live
    BY <1>0, <1>1, <1>2, <2>1, ShowSends
  <2> QED BY <1>4, <2>2
<1>9. Numbered' BY <1>0, <1>1, <1>2, <1>3, <1>8, SendsNumbered
<1>10. Previewed' BY <1>0, <1>1, <1>8, SendsPreviewed
<1>11. Shown'
  <2>1. active = active /\ x = source => overtaken \subseteq overtaken' BY <1>4
  <2> QED BY <1>0, <1>1, <1>2, <2>1, ShowShown
<1>12. Owned'
  <2>1. \A p \in puts' : Belongs(p.doc, p.tex)'
    <3>1. \A q \in {} : Belongs(q.doc, q.tex) OBVIOUS
    <3> QED BY <1>0, <1>6, <1>8, <3>1, SendsOwned
  <2>2. saveTimer'.doc = active /\ saveTimer'.tex = x BY <1>1
  <2>3. \A d \in Drafts : Belongs(d, file[d].tex)' BY <1>0, <1>1, <1>6 DEF Owned
  <2>4. retry' # None => retry'.doc \in Drafts /\ Belongs(retry.doc, retry.tex)'
    BY <1>0, <1>1, <1>6 DEF Owned
  <2>5. \A d \in Drafts : documents'[d] # None => Belongs(d, documents[d])'
    BY <1>0, <1>1, <1>6 DEF Owned
  <2>6. creating' # None /\ creating'.list # None =>
          \A d \in Drafts : creating'.list[d] # None => Belongs(d, creating.list[d])'
    BY <1>0, <1>1, <1>6 DEF Owned
  <2>7. Belongs(saveTimer.doc, saveTimer.tex)' /\ saveTimer'.doc \in Drafts
    BY <1>0, <1>3, <1>7, <2>2 DEF Belongs
  <2>8. Belongs(active, source)' BY <1>3, <1>7 DEF Belongs
  <2> QED BY <1>1, <2>1, <2>3, <2>4, <2>5, <2>6, <2>7, <2>8 DEF Owned
<1>13. Listed'
  <2>1. ASSUME NEW n \in 1 .. Len(owner') PROVE documents[owner'[n]] # None
    <3>1. CASE n = x BY <1>0, <1>2, <3>1 DEF Listed
    <3>2. CASE n # x
      <4>1. n \in 1 .. Len(owner) BY <1>0, <1>2, <3>2
      <4> QED BY <1>0, <1>2, <4>1 DEF Listed
    <3> QED BY <3>1, <3>2
  <2>2. UNCHANGED <<file, documents, creating, active>> BY <1>1, <1>3
  <2> QED BY <1>0, <2>1, <2>2 DEF Listed
<1>14. Newest'
  <2>1. saveTimer'.doc = active /\ saveTimer'.tex = x BY <1>1
  <2> QED BY <1>3, <1>5, <2>1 DEF Newest
<1>15. AllSaved'
  <2> SUFFICES ASSUME NEW d \in Drafts, d \notin overtaken' \cup forgotten' PROVE Saved(d)'
    BY DEF AllSaved
  <2>1. CASE d = active
    <3>1. saveTimer' # None BY <1>0, <1>1, <1>2, NoneIsNothing
    <3>2. Timed(d)' BY <1>1, <2>1, <3>1 DEF Timed
    <3> QED BY <3>2 DEF Saved
  <2>2. CASE d # active
    <3>1. d \notin overtaken \cup forgotten /\ ~Timed(d) BY <1>1, <2>2 DEF Timed
    <3>2. Saved(d) BY <1>0, <3>1 DEF AllSaved
    <3>3. Editor!Latest(d)' = Editor!Latest(d) BY <1>5, <2>2
    <3>4. file' = file BY <1>1
    <3>5. \A p \in puts : p.doc = d /\ p.stage = "sent" /\ ~p.compile =>
             \E q \in puts' : Same(p, q) /\ q.stage = "sent"
      BY <1>8
    <3>6. Sends({}) BY <1>8
    <3> QED BY <1>0, <3>1, <3>2, <3>3, <3>4, <3>5, <3>6, SendsSaved
  <2> QED BY <2>1, <2>2
<1> QED BY <1>9, <1>10, <1>11, <1>12, <1>13, <1>14, <1>15 DEF EditorInv

\* The list, the drafts' owners and what is stored stay.
LEMMA RestStays ==
    ASSUME EditorInv, UNCHANGED <<file, active, source, owner, documents>>,
           creating' \in {creating, None}, saveTimer' \in {saveTimer, None},
           retry' # None => retry'.doc \in Drafts /\ Belongs(retry'.doc, retry'.tex),
           \A p \in puts' : Belongs(p.doc, p.tex)'
    PROVE  Owned' /\ Listed'
<1>0. Owned /\ Listed BY EditorFacts
<1>1. \A d, x : Belongs(d, x) => Belongs(d, x)' BY DEF Belongs
<1>2. \A d \in Drafts : Belongs(d, file[d].tex)' BY <1>0, <1>1 DEF Owned
<1>3. saveTimer' # None => saveTimer'.doc \in Drafts /\ Belongs(saveTimer.doc, saveTimer.tex)'
  <2>1. saveTimer # None => saveTimer.doc \in Drafts /\ Belongs(saveTimer.doc, saveTimer.tex)
    BY <1>0 DEF Owned
  <2> QED BY <2>1 DEF Belongs
<1>4. retry' # None => retry'.doc \in Drafts /\ Belongs(retry.doc, retry.tex)' BY DEF Belongs
<1>5. Belongs(active, source)' BY <1>0 DEF Owned, Belongs
<1>6. \A d \in Drafts : documents'[d] # None => Belongs(d, documents[d])'
  BY <1>0, <1>1 DEF Owned
<1>7. creating' # None /\ creating'.list # None =>
          \A d \in Drafts : creating'.list[d] # None => Belongs(d, creating.list[d])'
  <2> SUFFICES ASSUME creating' = creating, creating # None, creating.list # None,
                      NEW d \in Drafts, creating.list[d] # None
               PROVE  Belongs(d, creating.list[d])'
    OBVIOUS
  <2> QED BY <1>0 DEF Owned, Belongs
<1>8. Owned'
  <2>1. \A s \in {saveTimer', retry'} : s # None => s.doc \in Drafts /\ Belongs(s.doc, s.tex)'
    BY <1>3, <1>4 DEF Belongs
  <2> QED BY <1>2, <1>5, <1>6, <1>7, <2>1 DEF Owned, Belongs
<1>9. Listed'
  <2>1. CASE creating' = creating BY <1>0, <2>1 DEF Listed
  <2>2. CASE creating' = None BY <1>0, <2>2 DEF Listed
  <2> QED BY <2>1, <2>2
<1> QED BY <1>8, <1>9

\* A save is sent.
LEMMA SendStep ==
    ASSUME EditorInv, NEW s, s.doc \in Drafts, s.tex \in Nat, NEW c \in BOOLEAN,
           puts' = puts \cup {Editor!Put(s, sent + 1, c, TRUE)}, sent' = sent + 1
    PROVE  \E q \in puts' : /\ Sends({q}) /\ q.doc = s.doc /\ q.tex = s.tex /\ q.compile = c
                            /\ \A p \in puts : p \in puts'
<1> DEFINE q == Editor!Put(s, sent + 1, c, TRUE)
<1>0. sent \in Nat /\ sent + 1 \in Nat /\ puts \subseteq Requests /\ Previewed BY EditorFacts
<1>1. /\ q \in Requests /\ q.doc = s.doc /\ q.tex = s.tex /\ q.put = sent + 1
      /\ q.stage = "sent" /\ q.compile = c /\ q.live = TRUE
  BY <1>0, PutFields
<1>2. puts' = puts \cup {q} OBVIOUS
<1> HIDE DEF q
<1>3. Sends({q})
  <2>1. \A r \in puts : Comes(r, r) BY DEF Comes, Same
  <2>2. \A r \in puts : (r.stage # "sent" => r.live) /\ (r.stage = "fetching" => r.compile)
    BY <1>0 DEF Previewed
  <2>3. sent' \in Nat /\ sent <= sent' /\ q.put <= sent' /\ q.put > sent BY <1>0, <1>1
  <2>4. {q} \subseteq puts' /\ puts' \subseteq Requests BY <1>0, <1>1, <1>2
  <2>5. ASSUME NEW r \in puts'
        PROVE  /\ r \in {q} \/ \E b \in puts : Comes(b, r)
               /\ r.stage # "sent" => r.live
               /\ r.stage = "fetching" => r.compile
    <3>1. CASE r = q BY <1>1, <3>1
    <3>2. CASE r \in puts BY <2>1, <2>2, <3>2, Zenon
    <3> QED BY <1>2, <3>1, <3>2
  <2>6. \A r \in {q} : /\ r \in Requests /\ r.stage = "sent"
                       /\ r.put <= sent' /\ r.put > sent
    BY <1>1, <2>3, Zenon
  <2> QED BY <2>3, <2>4, <2>5, <2>6, Zenon DEF Sends
<1> QED BY <1>1, <1>2, <1>3

LEMMA EditorSaves == EditorInv /\ Editor!SaveTimerFires => EditorInv'
<1> SUFFICES ASSUME EditorInv, Editor!SaveTimerFires PROVE EditorInv' OBVIOUS
<1>0. /\ Owned /\ Newest /\ Shown /\ Previewed
      /\ saveTimer # None => saveTimer.doc \in Drafts /\ saveTimer.tex \in Nat
  BY EditorFacts
<1>1. /\ saveTimer # None /\ saveTimer' = None /\ sent' = sent + 1
      /\ puts' = puts \cup {Editor!Put(saveTimer, sent + 1, FALSE, TRUE)}
      /\ UNCHANGED <<file, documents, active, source, previewTimer, status, shown, creating,
                     retry, owner, overtaken, forgotten>>
  BY DEF Editor!SaveTimerFires, Editor!Autosave
<1>2. PICK q \in puts' : /\ Sends({q}) /\ q.doc = saveTimer.doc /\ q.tex = saveTimer.tex
                         /\ q.compile = FALSE /\ \A p \in puts : p \in puts'
  BY <1>0, <1>1, SendStep
<1>3. Belongs(q.doc, q.tex) /\ q.tex = Editor!Latest(q.doc)
  <2>1. Belongs(saveTimer.doc, saveTimer.tex) BY <1>0, <1>1 DEF Owned
  <2>2. saveTimer.tex = Editor!Latest(saveTimer.doc) BY <1>0, <1>1 DEF Newest
  <2> QED BY <1>2, <2>1, <2>2
<1>4. \A p \in puts : Same(p, p) BY DEF Same
<1>5. /\ Numbered' /\ Newest' /\ AllSaved' /\ Previewed'
      /\ \A p \in puts' : Belongs(p.doc, p.tex)'
  BY <1>1, <1>2, <1>3, <1>4, QuietStep
<1>6. retry' # None => retry'.doc \in Drafts /\ Belongs(retry'.doc, retry'.tex)
  BY <1>0, <1>1 DEF Owned
<1>7. Owned' /\ Listed' BY <1>1, <1>5, <1>6, RestStays
<1>8. Shown' BY <1>0, <1>1 DEF Shown, Editor!PreviewOfSource
<1> QED BY <1>5, <1>7, <1>8 DEF EditorInv

LEMMA EditorPreviews == EditorInv /\ Editor!PreviewTimerFires => EditorInv'
<1> SUFFICES ASSUME EditorInv, Editor!PreviewTimerFires PROVE EditorInv' OBVIOUS
<1>0. Owned /\ Newest /\ Shown /\ active \in Drafts /\ source \in Nat BY EditorFacts
<1>1. /\ previewTimer # None /\ previewTimer' = None /\ sent' = sent + 1 /\ status' = "compiling"
      /\ puts' = puts \cup {Editor!Put(previewTimer, sent + 1, TRUE, TRUE)}
      /\ UNCHANGED <<file, documents, active, source, saveTimer, shown, creating,
                     retry, owner, overtaken, forgotten>>
  BY DEF Editor!PreviewTimerFires
<1>2. previewTimer.doc = active /\ previewTimer.tex = source
  <2>1. previewTimer = [doc |-> active, tex |-> source] BY <1>0, <1>1 DEF Shown
  <2> QED BY <2>1
<1>3. PICK q \in puts' : /\ Sends({q}) /\ q.doc = active /\ q.tex = source
                         /\ q.compile = TRUE /\ \A p \in puts : p \in puts'
  BY <1>0, <1>1, <1>2, SendStep
<1>4. Belongs(q.doc, q.tex) /\ (q.doc \in forgotten' \/ q.tex = Editor!Latest(q.doc))
  <2>1. Belongs(active, source) BY <1>0 DEF Owned
  <2>2. active \in forgotten \/ source = Editor!Latest(active) BY <1>0 DEF Newest
  <2> QED BY <1>1, <1>3, <2>1, <2>2
<1>5. \A p \in puts : Same(p, p) BY DEF Same
<1>6. /\ Numbered' /\ Newest' /\ AllSaved' /\ Previewed'
      /\ \A p \in puts' : Belongs(p.doc, p.tex)'
  BY <1>1, <1>3, <1>4, <1>5, QuietStep
<1>7. retry' # None => retry'.doc \in Drafts /\ Belongs(retry'.doc, retry'.tex)
  BY <1>0, <1>1 DEF Owned
<1>8. Owned' /\ Listed' BY <1>1, <1>6, <1>7, RestStays
<1>9. Shown' BY <1>1 DEF Shown, Editor!PreviewOfSource
<1> QED BY <1>6, <1>8, <1>9 DEF EditorInv

LEMMA EditorRetries == EditorInv /\ Editor!Retry => EditorInv'
<1> SUFFICES ASSUME EditorInv, Editor!Retry PROVE EditorInv' OBVIOUS
<1>0. /\ Owned /\ Shown
      /\ retry # None => retry.doc \in Drafts /\ retry.tex \in Nat
  BY EditorFacts
<1>1. /\ retry # None /\ sent' = sent + 1
      /\ puts' = puts \cup {Editor!Put(retry, sent + 1, FALSE, TRUE)}
      /\ forgotten' = IF retry.tex = Editor!Latest(retry.doc) THEN forgotten
                      ELSE forgotten \cup {retry.doc}
      /\ UNCHANGED <<file, documents, active, source, saveTimer, previewTimer, status, shown,
                     creating, retry, owner, overtaken>>
  BY DEF Editor!Retry, Editor!Autosave
<1>2. PICK q \in puts' : /\ Sends({q}) /\ q.doc = retry.doc /\ q.tex = retry.tex
                         /\ q.compile = FALSE /\ \A p \in puts : p \in puts'
  BY <1>0, <1>1, SendStep
<1>3. Belongs(q.doc, q.tex) /\ (q.doc \in forgotten' \/ q.tex = Editor!Latest(q.doc))
  <2>1. Belongs(retry.doc, retry.tex) BY <1>0, <1>1 DEF Owned
  <2>2. retry.doc \in forgotten' \/ retry.tex = Editor!Latest(retry.doc) BY <1>1
  <2> QED BY <1>2, <2>1, <2>2
<1>4. \A p \in puts : Same(p, p) BY DEF Same
<1>5. /\ Numbered' /\ Newest' /\ AllSaved' /\ Previewed'
      /\ \A p \in puts' : Belongs(p.doc, p.tex)'
  BY <1>1, <1>2, <1>3, <1>4, QuietStep
<1>6. retry' # None => retry'.doc \in Drafts /\ Belongs(retry'.doc, retry'.tex)
  BY <1>0, <1>1 DEF Owned
<1>7. Owned' /\ Listed' BY <1>1, <1>5, <1>6, RestStays
<1>8. Shown' BY <1>0, <1>1 DEF Shown, Editor!PreviewOfSource
<1> QED BY <1>5, <1>7, <1>8 DEF EditorInv

\* Of the requests in flight, only the one that moves on can be dropped, and is
\* if nobody waits for it.
LEMMA AwaitedMoved ==
    ASSUME EditorInv, NEW p \in puts, NEW q, q.stage # "sent",
           puts' = Editor!Awaited((puts \ {p}) \cup {q})
    PROVE  \E rest : /\ puts' = (puts \ {p}) \cup rest
                     /\ \A r \in rest : r = q /\ q.live
                     /\ q.live => rest = {q}
<1> DEFINE rest == {r \in {q} : r.live}
<1>1. \A r \in puts : r.live \/ r.stage = "sent" BY EditorFacts DEF Previewed
<1>2. puts' = (puts \ {p}) \cup rest BY <1>1 DEF Editor!Awaited
<1>3. \A r \in rest : r = q /\ q.live BY Zenon
<1>4. q.live => rest = {q} BY Zenon
<1> HIDE DEF rest
<1> QED BY <1>2, <1>3, <1>4, Zenon

LEMMA EditorCompileFails ==
    ASSUME EditorInv, NEW p \in puts, Editor!CompileFails(p)
    PROVE  EditorInv'
<1> DEFINE q == [p EXCEPT !.stage = "rejected"]
<1>0. Owned /\ Shown BY EditorFacts
<1>1. /\ p.compile /\ p.stage = "sent"
      /\ puts' = Editor!Awaited((puts \ {p}) \cup {q})
      /\ UNCHANGED <<file, documents, active, source, saveTimer, previewTimer, sent, status,
                     shown, creating, retry, owner, overtaken, forgotten>>
  BY DEF Editor!CompileFails
<1>2. q \in Requests /\ Comes(p, q) /\ q.stage # "sent" /\ (q.stage = "fetching" => q.compile)
  BY <1>1, Moved
<1> HIDE DEF q
<1>3. PICK rest : /\ puts' = (puts \ {p}) \cup rest
                  /\ \A r \in rest : r = q /\ q.live
  BY <1>1, <1>2, AwaitedMoved
<1>4. /\ Numbered' /\ Newest' /\ AllSaved' /\ Previewed'
      /\ \A r \in puts' : Belongs(r.doc, r.tex)'
  <2>1. Answers(p, rest) BY <1>1, <1>2, <1>3 DEF Answers
  <2> QED BY <2>1, AnswerStep, Zenon
<1>5. retry' # None => retry'.doc \in Drafts /\ Belongs(retry'.doc, retry'.tex)
  BY <1>0, <1>1 DEF Owned
<1>6. Owned' /\ Listed' BY <1>1, <1>4, <1>5, RestStays
<1>7. Shown' BY <1>0, <1>1 DEF Shown, Editor!PreviewOfSource
<1> QED BY <1>4, <1>6, <1>7 DEF EditorInv

LEMMA EditorRequestFails ==
    ASSUME EditorInv, NEW p \in puts, Editor!RequestFails(p)
    PROVE  EditorInv'
<1>0. Owned /\ Shown /\ p.doc \in Drafts /\ p.tex \in Nat BY EditorFacts
<1>1. /\ puts' = puts \ {p}
      /\ retry' = IF p.compile THEN retry ELSE [doc |-> p.doc, tex |-> p.tex]
      /\ forgotten' = IF p.compile THEN forgotten ELSE forgotten \cup {p.doc}
      /\ status' = IF p.compile /\ p.live THEN "error" ELSE status
      /\ UNCHANGED <<file, documents, active, source, saveTimer, previewTimer, sent,
                     shown, creating, owner, overtaken>>
  BY DEF Editor!RequestFails
<1>2. puts' = (puts \ {p}) \cup {} BY <1>1
<1>3. forgotten \subseteq forgotten' /\ (p.stage = "sent" => p.compile \/ p.doc \in forgotten')
  BY <1>1
<1>4. /\ Numbered' /\ Newest' /\ AllSaved' /\ Previewed'
      /\ \A r \in puts' : Belongs(r.doc, r.tex)'
  <2>1. Answers(p, {}) BY <1>1, <1>2, <1>3 DEF Answers
  <2> QED BY <2>1, AnswerStep, Zenon
<1>5. retry' # None => retry'.doc \in Drafts /\ Belongs(retry'.doc, retry'.tex)
  <2>1. Belongs(p.doc, p.tex) BY <1>0 DEF Owned
  <2>2. CASE p.compile BY <1>0, <1>1, <2>2 DEF Owned
  <2>3. CASE ~p.compile
    <3>1. retry'.doc = p.doc /\ retry'.tex = p.tex BY <1>1, <2>3
    <3> QED BY <1>0, <2>1, <3>1
  <2> QED BY <2>2, <2>3
<1>6. Owned' /\ Listed' BY <1>1, <1>4, <1>5, RestStays
<1>7. Shown'
  <2>1. status' = "ok" => status = "ok" BY <1>1
  <2> QED BY <1>0, <1>1, <2>1 DEF Shown, Editor!PreviewOfSource
<1> QED BY <1>4, <1>6, <1>7 DEF EditorInv

LEMMA EditorCompileLands ==
    ASSUME EditorInv, NEW p \in puts, Editor!CompileLands(p)
    PROVE  EditorInv'
<1> DEFINE q == [p EXCEPT !.stage = "fetching"]
           rest == IF p.stage = "stored" THEN {q} ELSE {}
<1>0. Owned /\ Shown /\ Previewed BY EditorFacts
<1>1. /\ p.compile /\ p.stage \in {"stored", "rejected"}
      /\ puts' = (puts \ {p}) \cup rest
      /\ status' = IF p.stage = "rejected" THEN "error" ELSE status
      /\ UNCHANGED <<file, documents, active, source, saveTimer, previewTimer, sent,
                     shown, creating, retry, owner, overtaken, forgotten>>
  BY DEF Editor!CompileLands
<1>2. p.live /\ p.stage # "sent" BY <1>0, <1>1 DEF Previewed
<1>3. ASSUME p.stage = "stored"
      PROVE  q \in Requests /\ Comes(p, q) /\ q.stage # "sent" /\ q.live /\ (q.stage = "fetching" => q.compile)
  BY <1>1, <1>2, <1>3, Moved
<1>4. \A r \in rest : r = q /\ p.stage = "stored" OBVIOUS
<1> HIDE DEF q, rest
<1>5. /\ Numbered' /\ Newest' /\ AllSaved' /\ Previewed'
      /\ \A r \in puts' : Belongs(r.doc, r.tex)'
  <2>1. \A r \in rest : /\ r \in Requests /\ Comes(p, r) /\ r.stage # "sent" /\ r.live
                        /\ r.stage = "fetching" => r.compile
    BY <1>3, <1>4, Zenon
  <2>2. Answers(p, rest) BY <1>1, <1>2, <2>1 DEF Answers
  <2> QED BY <2>2, AnswerStep, Zenon
<1>6. retry' # None => retry'.doc \in Drafts /\ Belongs(retry'.doc, retry'.tex)
  BY <1>0, <1>1 DEF Owned
<1>7. Owned' /\ Listed' BY <1>1, <1>5, <1>6, RestStays
<1>8. Shown'
  <2>1. status' = "ok" => status = "ok" BY <1>1
  <2> QED BY <1>0, <1>1, <2>1 DEF Shown, Editor!PreviewOfSource
<1> QED BY <1>5, <1>7, <1>8 DEF EditorInv

LEMMA EditorPdfLands ==
    ASSUME EditorInv, NEW p \in puts, Editor!PdfLands(p)
    PROVE  EditorInv'
<1>0. Owned /\ Shown /\ Previewed BY EditorFacts
<1>1. /\ p.stage = "fetching" /\ puts' = puts \ {p}
      /\ status' = "ok" /\ shown' = [doc |-> p.doc, tex |-> file[p.doc].pdf]
      /\ UNCHANGED <<file, documents, active, source, saveTimer, previewTimer, sent,
                     creating, retry, owner, overtaken, forgotten>>
  BY DEF Editor!PdfLands
<1>2. puts' = (puts \ {p}) \cup {} /\ p.stage # "sent" BY <1>1
<1>3. /\ Numbered' /\ Newest' /\ AllSaved' /\ Previewed'
      /\ \A r \in puts' : Belongs(r.doc, r.tex)'
  <2>1. Answers(p, {}) BY <1>1, <1>2 DEF Answers
  <2> QED BY <2>1, AnswerStep, Zenon
<1>4. retry' # None => retry'.doc \in Drafts /\ Belongs(retry'.doc, retry'.tex)
  BY <1>0, <1>1 DEF Owned
<1>5. Owned' /\ Listed' BY <1>1, <1>3, <1>4, RestStays
<1>6. Shown'
  <2>1. p.compile /\ p.live BY <1>0, <1>1 DEF Previewed
  <2>2. p.doc = active /\ p.tex = source BY <1>0, <2>1 DEF Previewed
  <2>3. active \notin overtaken => file[active].pdf = source
    BY <1>0, <1>1, <2>1, <2>2 DEF Previewed
  <2>4. active \notin overtaken => shown' = [doc |-> active, tex |-> source]
    BY <1>1, <2>2, <2>3
  <2> QED BY <1>0, <1>1, <2>4 DEF Shown, Editor!PreviewOfSource
<1> QED BY <1>3, <1>5, <1>6 DEF EditorInv

LEMMA EditorAutosaveLands ==
    ASSUME EditorInv, NEW p \in puts, Editor!AutosaveLands(p)
    PROVE  EditorInv'
<1>0. Owned /\ Shown /\ Listed /\ p.doc \in Drafts /\ p.tex \in Nat /\ None \notin Nat BY EditorFacts
<1>1. /\ p.stage = "stored" /\ puts' = puts \ {p} /\ retry' = None
      /\ documents' = [documents EXCEPT ![p.doc] = IF documents[p.doc] = None THEN None ELSE p.tex]
      /\ UNCHANGED <<file, active, source, saveTimer, previewTimer, sent, status,
                     shown, creating, owner, overtaken, forgotten>>
  BY DEF Editor!AutosaveLands
<1>2. puts' = (puts \ {p}) \cup {} /\ p.stage # "sent" BY <1>1
<1>3. /\ Numbered' /\ Newest' /\ AllSaved' /\ Previewed'
      /\ \A r \in puts' : Belongs(r.doc, r.tex)'
  <2>1. Answers(p, {}) BY <1>1, <1>2 DEF Answers
  <2> QED BY <2>1, AnswerStep, Zenon
<1>4. /\ documents' = [d \in Drafts |-> documents'[d]]
      /\ \A d \in Drafts : d # p.doc => documents'[d] = documents[d]
      /\ documents'[p.doc] = IF documents[p.doc] = None THEN None ELSE p.tex
  BY <1>0, <1>1 DEF Listed
<1>5. \A d \in Drafts : documents'[d] # None <=> documents[d] # None BY <1>0, <1>4
<1>6. \A d, x : Belongs(d, x) => Belongs(d, x)' BY <1>1 DEF Belongs
<1>7. ASSUME NEW d \in Drafts, documents'[d] # None PROVE Belongs(d, documents[d])'
  <2>1. CASE d = p.doc
    <3>1. documents'[d] = p.tex BY <1>4, <1>7, <2>1
    <3>2. Belongs(p.doc, p.tex) BY <1>0 DEF Owned
    <3> QED BY <1>1, <2>1, <3>1, <3>2 DEF Belongs
  <2>2. CASE d # p.doc
    <3>1. documents'[d] = documents[d] BY <1>4, <2>2
    <3>2. Belongs(d, documents[d]) BY <1>0, <1>7, <3>1 DEF Owned
    <3> QED BY <1>1, <3>1, <3>2 DEF Belongs
  <2> QED BY <2>1, <2>2
<1>8. Owned'
  <2>1. \A d \in Drafts : Belongs(d, file[d].tex)' BY <1>0, <1>1 DEF Owned, Belongs
  <2>2. \A s \in {saveTimer', retry'} : s # None => s.doc \in Drafts /\ Belongs(s.doc, s.tex)'
    BY <1>0, <1>1 DEF Owned, Belongs
  <2>3. Belongs(active, source)' BY <1>0, <1>1 DEF Owned, Belongs
  <2>4. creating' # None /\ creating'.list # None =>
          \A d \in Drafts : creating'.list[d] # None => Belongs(d, creating.list[d])'
    BY <1>0, <1>1 DEF Owned, Belongs
  <2>5. \A d \in Drafts : documents'[d] # None => Belongs(d, documents[d])' BY <1>7
  <2>6. \A r \in puts' : Belongs(r.doc, r.tex)' BY <1>3
  <2> HIDE DEF Belongs
  <2> QED BY <2>1, <2>2, <2>3, <2>4, <2>5, <2>6 DEF Owned
<1>9. Listed'
  <2>1. active' \in Drafts /\ \A n \in 1 .. Len(owner) : owner[n] \in Drafts
    BY <1>1, EditorFacts
  <2> QED BY <1>0, <1>1, <1>4, <1>5, <2>1 DEF Listed
<1>10. Shown' BY <1>0, <1>1 DEF Shown, Editor!PreviewOfSource
<1> QED BY <1>3, <1>8, <1>9, <1>10 DEF EditorInv

Pdfs == Nat \cup {None}

Rewritten(r, x, n, z) == [[[r EXCEPT !.tex = x] EXCEPT !.put = n] EXCEPT !.pdf = z]

IsWritten(f, r, x, n, z) ==
    f \in Files /\ f.tex = x /\ f.put = n /\ f.pdf = z /\ f.listed = r.listed

LEMMA StoredRecord ==
    ASSUME NEW r \in Files, NEW x \in Nat, NEW n \in Nat, NEW z \in Pdfs
    PROVE  IsWritten(Rewritten(r, x, n, z), r, x, n, z)
<1> DEFINE a == [r EXCEPT !.tex = x]
           b == [a EXCEPT !.put = n]
           f == [b EXCEPT !.pdf = z]
<1>1. a \in Files /\ a.tex = x /\ a.listed = r.listed BY DEF Files
<1> HIDE DEF a
<1>2. b \in Files /\ b.tex = x /\ b.put = n /\ b.listed = r.listed BY <1>1 DEF Files
<1> HIDE DEF b
<1>3. f \in Files /\ f.tex = x /\ f.put = n /\ f.pdf = z /\ f.listed = r.listed
  BY <1>2 DEF Files, Pdfs
<1> QED BY <1>3, Zenon DEF f, b, a, Rewritten, IsWritten

LEMMA StoredFields ==
    ASSUME NEW p \in Requests, file \in [Drafts -> Files], file' = Editor!Stored(p)
    PROVE  /\ file' \in [Drafts -> Files]
           /\ \A d \in Drafts : d # p.doc => file'[d] = file[d]
           /\ file'[p.doc].tex = p.tex /\ file'[p.doc].put = p.put
           /\ file'[p.doc].pdf = IF p.compile THEN p.tex ELSE file[p.doc].pdf
           /\ file'[p.doc].listed = file[p.doc].listed
<1> DEFINE old == file[p.doc]
           pdf == IF p.compile THEN p.tex ELSE old.pdf
           f == Rewritten(old, p.tex, p.put, pdf)
<1>1. p.doc \in Drafts /\ p.tex \in Nat /\ p.put \in Nat /\ old \in Files BY DEF Requests
<1>2. pdf \in Pdfs BY <1>1 DEF Files, Pdfs
<1>3. file' = [file EXCEPT ![p.doc] = f] BY <1>1 DEF Editor!Stored, Rewritten
<1> HIDE DEF old, pdf
<1>4. /\ f \in Files /\ f.tex = p.tex /\ f.put = p.put /\ f.pdf = pdf
      /\ f.listed = old.listed
  <2>1. IsWritten(f, old, p.tex, p.put, pdf) BY <1>1, <1>2, StoredRecord, Zenon
  <2> QED BY <2>1, Zenon DEF IsWritten
<1> HIDE DEF f
<1>5. file' \in [Drafts -> Files] /\ \A d \in Drafts : d # p.doc => file'[d] = file[d]
  BY <1>3, <1>4
<1>6. file'[p.doc] = f BY <1>1, <1>3
<1>7. /\ file'[p.doc].tex = p.tex /\ file'[p.doc].put = p.put
      /\ file'[p.doc].pdf = pdf /\ file'[p.doc].listed = old.listed
  BY <1>4, <1>6
<1> QED BY <1>5, <1>7, Zenon DEF pdf, old

LEMMA EditorStore ==
    ASSUME EditorInv, NEW p \in puts, Editor!Store(p)
    PROVE  EditorInv'
<1> DEFINE m == [p EXCEPT !.stage = "stored"]
<1>0. /\ Numbered /\ Owned /\ Listed /\ Newest /\ AllSaved /\ Previewed /\ Shown
      /\ p \in Requests /\ p.doc \in Drafts /\ p.put \in Nat /\ p.tex \in Nat
      /\ file \in [Drafts -> Files] /\ owner \in Seq(Drafts)
      /\ sent \in Nat /\ \A r \in puts : r \in Requests /\ r.put \in Nat
  BY EditorFacts
<1>1. /\ p.stage = "sent" /\ file' = Editor!Stored(p)
      /\ overtaken' = IF p.put < file[p.doc].put THEN overtaken \cup {p.doc} ELSE overtaken
      /\ puts' = Editor!Awaited((puts \ {p}) \cup {m})
      /\ UNCHANGED <<documents, active, source, saveTimer, previewTimer, sent, status,
                     shown, creating, retry, owner, forgotten>>
  BY DEF Editor!Store
<1>2. /\ m \in Requests /\ Same(p, m) /\ m.stage = "stored" /\ (m.live <=> p.live)
  <2>1. "stored" \in {"sent", "stored", "rejected", "fetching"} OBVIOUS
  <2>2. /\ m \in Requests /\ m.doc = p.doc /\ m.tex = p.tex /\ m.put = p.put
        /\ m.compile = p.compile /\ m.live = p.live /\ m.stage = "stored"
    BY <1>0, <2>1, MoveFields
  <2> HIDE DEF m
  <2> QED BY <2>2 DEF Same
<1> HIDE DEF m
<1>3. PICK rest : puts' = (puts \ {p}) \cup rest /\ \A r \in rest : r = m /\ m.live
  <2>1. m.stage # "sent" BY <1>2
  <2>2. \E rest : /\ puts' = (puts \ {p}) \cup rest
                  /\ \A r \in rest : r = m /\ m.live
                  /\ m.live => rest = {m}
    BY <1>1, <2>1, AwaitedMoved, Zenon
  <2> QED BY <2>2
<1>4. /\ file' \in [Drafts -> Files]
      /\ \A d \in Drafts : d # p.doc => file'[d] = file[d]
      /\ file'[p.doc].tex = p.tex /\ file'[p.doc].put = p.put
      /\ file'[p.doc].pdf = IF p.compile THEN p.tex ELSE file[p.doc].pdf
      /\ file'[p.doc].listed = file[p.doc].listed
  BY <1>0, <1>1, StoredFields
<1>5. \A q \in puts' : q \in puts \ {p} \/ (q = m /\ m.live) BY <1>3
<1>6. \A q \in puts' : q.stage = "sent" => q \in puts \ {p} BY <1>2, <1>5
<1>7. \A d \in Drafts : file[d].put \in Nat /\ file[d].put <= sent /\ file[d] \in Files
  BY <1>0 DEF Numbered, Files
<1>8. \A d : Editor!Latest(d)' = Editor!Latest(d) BY <1>0, <1>1, LatestOfOwner
<1>9. Numbered'
  <2>1. \A d \in Drafts : file'[d].put <= sent
    <3> SUFFICES ASSUME NEW d \in Drafts PROVE file'[d].put <= sent OBVIOUS
    <3>1. CASE d = p.doc BY <1>0, <1>4, <3>1 DEF Numbered
    <3>2. CASE d # p.doc BY <1>4, <1>7, <3>2
    <3> QED BY <3>1, <3>2
  <2>2. \A q \in puts' : q \in Requests /\ q.put <= sent
    BY <1>0, <1>2, <1>5 DEF Numbered, Same
  <2> QED BY <1>0, <1>1, <1>4, <2>1, <2>2 DEF Numbered
<1>10. Owned'
  <2>1. Belongs(p.doc, p.tex) BY <1>0 DEF Owned
  <2>2. \A d \in Drafts : Belongs(d, file'[d].tex) BY <1>0, <1>4, <2>1 DEF Owned
  <2>3. \A q \in puts' : Belongs(q.doc, q.tex)
    BY <1>0, <1>2, <1>5, <2>1 DEF Owned, Same
  <2>4. \A s \in {saveTimer, retry} : s # None => s.doc \in Drafts /\ Belongs(s.doc, s.tex)
    BY <1>0 DEF Owned
  <2>5. Belongs(active, source) BY <1>0 DEF Owned
  <2>6. \A d \in Drafts : documents[d] # None => Belongs(d, documents[d]) BY <1>0 DEF Owned
  <2>7. creating # None /\ creating.list # None =>
          \A d \in Drafts : creating.list[d] # None => Belongs(d, creating.list[d])
    BY <1>0 DEF Owned
  <2> QED BY <1>1, <2>2, <2>3, <2>4, <2>5, <2>6, <2>7 DEF Owned, Belongs
<1>11. Listed'
  <2>1. \A d \in Drafts : file'[d].listed = file[d].listed BY <1>4
  <2> QED BY SMTT(20), <1>0, <1>1, <2>1 DEF Listed
<1>12. Newest' BY <1>0, <1>1, <1>8 DEF Newest
<1>13. AllSaved'
  <2> SUFFICES ASSUME NEW d \in Drafts, d \notin overtaken' \cup forgotten' PROVE Saved(d)'
    BY DEF AllSaved
  <2>0. d \notin overtaken \cup forgotten BY <1>1
  <2>1. CASE Timed(d) BY <1>1, <2>1 DEF Timed, Saved
  <2>2. CASE ~Timed(d)
    <3>1. PICK n \in Nat : SavedFrom(d, n) BY <1>0, <2>0, <2>2 DEF AllSaved, Saved
    <3>2. \A q \in puts' : q.doc = d /\ q.stage = "sent" /\ q.put >= n => q.tex = Editor!Latest(d)
      BY <1>6, <3>1 DEF SavedFrom
    <3>3. CASE d # p.doc
      <4>1. file'[d] = file[d] BY <1>4, <3>3
      <4>2. \A q \in puts : q.doc = d => q \in puts' BY <1>3, <3>3
      <4>3. \/ file'[d].put = n
            \/ \E q \in puts' : q.doc = d /\ q.stage = "sent" /\ ~q.compile /\ q.put = n
        BY <3>1, <4>1, <4>2 DEF SavedFrom
      <4>4. file'[d].put >= n => file'[d].tex = Editor!Latest(d) BY <3>1, <4>1 DEF SavedFrom
      <4>5. SavedFrom(d, n)' BY <1>8, <3>2, <4>3, <4>4 DEF SavedFrom
      <4> QED BY <4>5 DEF Saved
    <3>4. CASE d = p.doc /\ p.put >= n
      <4>1. p.tex = Editor!Latest(d) BY <1>1, <3>1, <3>4 DEF SavedFrom
      <4>2. \A q \in puts' : q.doc = d /\ q.stage = "sent" /\ q.put >= p.put
                => q.tex = Editor!Latest(d)
        <5>1. \A q \in puts' : q.stage = "sent" => q.put \in Nat BY <1>0, <1>6
        <5> QED BY <1>0, <3>2, <3>4, <5>1
      <4>3. file'[d].put = p.put /\ file'[d].tex = p.tex BY <1>4, <3>4
      <4>4. SavedFrom(d, p.put)' BY <1>8, <4>1, <4>2, <4>3 DEF SavedFrom
      <4> QED BY <1>0, <4>4 DEF Saved
    <3>5. CASE d = p.doc /\ ~(p.put >= n)
      <4>1. ~(p.put < file[d].put) BY <1>1, <3>5
      <4>2. file[d].put # n BY <1>0, <1>7, <3>5, <4>1
      <4>3. PICK q \in puts : q.doc = d /\ q.stage = "sent" /\ ~q.compile /\ q.put = n
        BY <3>1, <4>2 DEF SavedFrom
      <4>4. q # p BY <1>0, <3>5, <4>3
      <4>5. q \in puts' BY <1>3, <4>4
      <4>6. ~(file'[d].put >= n) BY <1>4, <3>5
      <4>7. SavedFrom(d, n)' BY <1>8, <3>2, <4>3, <4>5, <4>6 DEF SavedFrom
      <4> QED BY <4>7 DEF Saved
    <3> QED BY <3>3, <3>4, <3>5
  <2> QED BY <2>1, <2>2
<1>14. Previewed'
  <2>1. \A q \in puts' : /\ q.stage # "sent" => q.live
                         /\ q.stage = "fetching" => q.compile
    BY <1>0, <1>2, <1>5 DEF Previewed
  <2>2. \A q \in puts' : q.compile /\ q.live => q.doc = active /\ q.tex = source
    BY <1>0, <1>2, <1>5 DEF Previewed, Same
  <2>3. \A r, q \in puts' :
          r.compile /\ r.live /\ q.compile /\ q.stage = "sent" /\ q.doc = r.doc /\ q.put >= r.put
          => q.tex = r.tex
    <3> SUFFICES ASSUME NEW r \in puts', NEW q \in puts', r.compile, r.live, q.compile,
                        q.stage = "sent", q.doc = r.doc, q.put >= r.put
                 PROVE  q.tex = r.tex
      OBVIOUS
    <3>1. q \in puts BY <1>6
    <3>2. CASE r \in puts BY <1>0, <3>1, <3>2 DEF Previewed
    <3>3. CASE r = m BY <1>0, <1>2, <3>1, <3>3 DEF Previewed, Same
    <3> QED BY <1>5, <3>2, <3>3
  <2>4. ASSUME NEW q \in puts', q.compile, q.stage \in {"stored", "fetching"},
               q.doc \notin overtaken'
        PROVE  file'[q.doc].put >= q.put /\ file'[q.doc].pdf = q.tex
    <3>1. CASE q = m BY <1>0, <1>2, <1>4, <2>4, <3>1 DEF Same
    <3>2. CASE q \in puts \ {p}
      <4>1. q.doc \notin overtaken BY <1>1, <2>4
      <4>2. /\ file[q.doc].put >= q.put /\ file[q.doc].pdf = q.tex /\ q.live
            /\ q.doc \in Drafts /\ q.put \in Nat
        BY <1>0, <2>4, <3>2, <4>1, EditorFacts DEF Previewed
      <4>3. CASE q.doc # p.doc
        <5>1. file'[q.doc] = file[q.doc] BY <1>4, <4>2, <4>3
        <5> QED BY <4>2, <5>1
      <4>4. CASE q.doc = p.doc
        <5>1. ~(p.put < file[p.doc].put) BY <1>1, <2>4, <4>4
        <5>2. p.put >= q.put BY <1>0, <1>7, <4>2, <4>4, <5>1
        <5>3. p.compile => p.tex = q.tex BY <1>0, <1>1, <2>4, <3>2, <4>2, <4>4, <5>2 DEF Previewed
        <5> QED BY <1>4, <4>2, <4>4, <5>2, <5>3
      <4> QED BY <4>3, <4>4
    <3> QED BY <1>5, <3>1, <3>2
  <2> QED BY <1>1, <2>1, <2>2, <2>3, <2>4 DEF Previewed
<1>15. Shown' BY <1>0, <1>1 DEF Shown, Editor!PreviewOfSource
<1> QED BY <1>9, <1>10, <1>11, <1>12, <1>13, <1>14, <1>15 DEF EditorInv

\* Only the list, the draft being created or the card to retry changes.
LEMMA ListStep ==
    ASSUME EditorInv,
           file' \in [Drafts -> Files],
           \A d \in Drafts : file'[d].tex = file[d].tex /\ file'[d].pdf = file[d].pdf
                             /\ file'[d].put = file[d].put,
           UNCHANGED <<active, source, saveTimer, previewTimer, puts, sent, status, shown,
                       owner, overtaken, forgotten>>
    PROVE  /\ Numbered' /\ Newest' /\ AllSaved' /\ Previewed' /\ Shown'
           /\ \A d \in Drafts : Belongs(d, file[d].tex)'
           /\ \A p \in puts' : Belongs(p.doc, p.tex)'
<1>0. /\ Numbered /\ Owned /\ Newest /\ AllSaved /\ Previewed /\ Shown /\ owner \in Seq(Drafts)
      /\ \A p \in puts : p.doc \in Drafts
  BY EditorFacts
<1>1. \A d : Editor!Latest(d)' = Editor!Latest(d) BY <1>0, LatestOfOwner
<1>2. Numbered' BY <1>0 DEF Numbered
<1>3. Newest' BY <1>0, <1>1 DEF Newest
<1>4. AllSaved'
  <2> SUFFICES ASSUME NEW d \in Drafts, d \notin overtaken \cup forgotten PROVE Saved(d)'
    BY DEF AllSaved
  <2>1. CASE Timed(d) BY <2>1 DEF Timed, Saved
  <2>2. CASE ~Timed(d)
    <3>1. PICK n \in Nat : SavedFrom(d, n) BY <1>0, <2>2 DEF AllSaved, Saved
    <3>2. SavedFrom(d, n)' BY <1>1, <3>1 DEF SavedFrom
    <3> QED BY <3>2 DEF Saved
  <2> QED BY <2>1, <2>2
<1>5. Previewed'
  <2>1. \A p \in puts : p.compile /\ p.stage \in {"stored", "fetching"} /\ p.doc \notin overtaken
            => file'[p.doc].put >= p.put /\ file'[p.doc].pdf = p.tex
    BY <1>0 DEF Previewed
  <2> QED BY <1>0, <2>1 DEF Previewed
<1>6. Shown' BY <1>0 DEF Shown, Editor!PreviewOfSource
<1>7. \A d \in Drafts : Belongs(d, file[d].tex)' BY <1>0 DEF Owned, Belongs
<1>8. \A p \in puts' : Belongs(p.doc, p.tex)' BY <1>0 DEF Owned, Belongs
<1> QED BY <1>2, <1>3, <1>4, <1>5, <1>6, <1>7, <1>8

LEMMA EditorStill == EditorInv /\ UNCHANGED editorVars => EditorInv'
<1> SUFFICES ASSUME EditorInv, UNCHANGED editorVars PROVE EditorInv' OBVIOUS
<1>0. Owned /\ file \in [Drafts -> Files] BY EditorFacts
<1>1. /\ UNCHANGED <<file, documents, active, source, saveTimer, previewTimer, puts, sent>>
      /\ UNCHANGED <<status, shown, creating, retry, owner, overtaken, forgotten>>
  BY DEF editorVars
<1>2. /\ Numbered' /\ Newest' /\ AllSaved' /\ Previewed' /\ Shown'
      /\ \A p \in puts' : Belongs(p.doc, p.tex)'
  BY <1>0, <1>1, ListStep
<1>3. retry' # None => retry'.doc \in Drafts /\ Belongs(retry'.doc, retry'.tex)
  BY <1>0, <1>1 DEF Owned
<1>4. Owned' /\ Listed' BY <1>1, <1>2, <1>3, RestStays
<1> QED BY <1>2, <1>4 DEF EditorInv

LEMMA EditorCreateFails == EditorInv /\ Editor!CreateFails => EditorInv'
<1> SUFFICES ASSUME EditorInv, Editor!CreateFails PROVE EditorInv' OBVIOUS
<1>0. file \in [Drafts -> Files] BY EditorFacts
<1>1. /\ UNCHANGED <<file, documents, active, source, saveTimer, previewTimer, puts, sent>>
      /\ UNCHANGED <<status, shown, owner, overtaken, forgotten>>
      /\ creating' = None /\ retry' = None
  BY DEF Editor!CreateFails
<1>2. /\ Numbered' /\ Newest' /\ AllSaved' /\ Previewed' /\ Shown'
      /\ \A p \in puts' : Belongs(p.doc, p.tex)'
  BY <1>0, <1>1, ListStep
<1>3. Owned' /\ Listed' BY <1>1, <1>2, RestStays
<1> QED BY <1>2, <1>3 DEF EditorInv

LEMMA EditorListRead == EditorInv /\ Editor!ListRead => EditorInv'
<1> SUFFICES ASSUME EditorInv, Editor!ListRead PROVE EditorInv' OBVIOUS
<1> DEFINE read == [d \in Drafts |-> IF file[d].listed THEN file[d].tex ELSE None]
<1>0. Owned /\ Listed /\ file \in [Drafts -> Files] /\ None \notin Nat BY EditorFacts
<1>1. /\ UNCHANGED <<file, documents, active, source, saveTimer, previewTimer, puts, sent>>
      /\ UNCHANGED <<status, shown, retry, owner, overtaken, forgotten>>
      /\ creating # None /\ creating' = [creating EXCEPT !.list = read]
  BY DEF Editor!ListRead
<1>2. creating = [doc |-> creating.doc, list |-> creating.list] BY <1>0, <1>1 DEF Listed
<1>3. creating' = [doc |-> creating.doc, list |-> read] BY <1>1, <1>2
<1>4. creating'.doc = creating.doc /\ creating'.list = read BY <1>3
<1>5. \A d \in Drafts : file[d].tex \in Nat BY <1>0 DEF Files
<1>6. /\ read = [d \in Drafts |-> read[d]]
      /\ \A d \in Drafts : /\ file[d].listed => read[d] = file[d].tex /\ read[d] # None
                           /\ ~file[d].listed => read[d] = None
  BY <1>0, <1>5
<1> HIDE DEF read
<1>7. /\ Numbered' /\ Newest' /\ AllSaved' /\ Previewed' /\ Shown'
      /\ \A d \in Drafts : Belongs(d, file[d].tex)'
      /\ \A p \in puts' : Belongs(p.doc, p.tex)'
  BY <1>0, <1>1, ListStep
<1>8. Owned'
  <2>1. \A d \in Drafts : creating'.list[d] # None => Belongs(d, creating.list[d])'
    <3> SUFFICES ASSUME NEW d \in Drafts, creating'.list[d] # None
                 PROVE  Belongs(d, creating.list[d])'
      OBVIOUS
    <3>1. creating'.list[d] = file[d].tex BY <1>4, <1>6
    <3> QED BY <1>0, <1>1, <3>1 DEF Owned, Belongs
  <2>2. \A s \in {saveTimer', retry'} : s # None => s.doc \in Drafts /\ Belongs(s.doc, s.tex)'
    BY <1>0, <1>1 DEF Owned, Belongs
  <2>3. Belongs(active, source)' BY <1>0, <1>1 DEF Owned, Belongs
  <2>4. \A d \in Drafts : documents'[d] # None => Belongs(d, documents[d])'
    BY <1>0, <1>1 DEF Owned, Belongs
  <2> QED BY <1>7, <2>1, <2>2, <2>3, <2>4 DEF Owned
<1>9. Listed'
  <2>1. creating.doc \in Drafts /\ documents[creating.doc] = None /\ file[creating.doc].listed
    BY <1>0, <1>1 DEF Listed
  <2>2. \A d \in Drafts : documents[d] # None => file[d].listed BY <1>0 DEF Listed
  <2>3. /\ creating' = [doc |-> creating'.doc, list |-> creating'.list]
        /\ creating'.list = [d \in Drafts |-> creating'.list[d]]
        /\ creating'.list[creating'.doc] # None
        /\ \A d \in Drafts : documents[d] # None => creating'.list[d] # None
        /\ \A d \in Drafts : creating'.list[d] # None => file[d].listed
    BY <1>3, <1>4, <1>6, <2>1, <2>2
  <2>4. /\ documents = [d \in Drafts |-> documents[d]] /\ documents[active] # None
        /\ \A n \in 1 .. Len(owner) : documents[owner[n]] # None
    BY <1>0 DEF Listed
  <2> QED BY <1>1, <1>4, <2>1, <2>2, <2>3, <2>4 DEF Listed
<1> QED BY <1>7, <1>8, <1>9 DEF EditorInv

LEMMA EditorCreates ==
    ASSUME EditorInv, NEW d \in Drafts, Editor!CreateDraft(d)
    PROVE  EditorInv'
<1>0. Owned /\ Listed /\ file \in [Drafts -> Files] BY EditorFacts
<1>1. /\ ~file[d].listed
      /\ file' = [file EXCEPT ![d].listed = TRUE]
      /\ creating' = [doc |-> d, list |-> None]
      /\ UNCHANGED <<documents, active, source, saveTimer, previewTimer, puts, sent>>
      /\ UNCHANGED <<status, shown, retry, owner, overtaken, forgotten>>
  BY DEF Editor!CreateDraft
<1>2. /\ file' \in [Drafts -> Files]
      /\ \A e \in Drafts : file'[e].tex = file[e].tex /\ file'[e].pdf = file[e].pdf
                           /\ file'[e].put = file[e].put
      /\ \A e \in Drafts : e = d \/ file[e].listed => file'[e].listed
  BY <1>0, <1>1 DEF Files
<1>3. /\ Numbered' /\ Newest' /\ AllSaved' /\ Previewed' /\ Shown'
      /\ \A e \in Drafts : Belongs(e, file[e].tex)'
      /\ \A p \in puts' : Belongs(p.doc, p.tex)'
  BY <1>1, <1>2, ListStep
<1>4. creating'.doc = d /\ creating'.list = None BY <1>1
<1>5. Owned'
  <2>1. \A s \in {saveTimer', retry'} : s # None => s.doc \in Drafts /\ Belongs(s.doc, s.tex)'
    BY <1>0, <1>1 DEF Owned, Belongs
  <2>2. Belongs(active, source)' BY <1>0, <1>1 DEF Owned, Belongs
  <2>3. \A e \in Drafts : documents'[e] # None => Belongs(e, documents[e])'
    BY <1>0, <1>1 DEF Owned, Belongs
  <2> QED BY <1>3, <1>4, <2>1, <2>2, <2>3 DEF Owned
<1>6. Listed'
  <2>1. documents[d] = None BY <1>0, <1>1 DEF Listed
  <2>2. \A e \in Drafts : documents[e] # None => file'[e].listed BY <1>0, <1>2 DEF Listed
  <2>3. creating' = [doc |-> creating'.doc, list |-> creating'.list] BY <1>1, <1>4
  <2>4. file'[d].listed BY <1>2
  <2>5. /\ documents = [e \in Drafts |-> documents[e]] /\ documents[active] # None
        /\ \A n \in 1 .. Len(owner) : documents[owner[n]] # None
    BY <1>0 DEF Listed
  <2> QED BY <1>1, <1>4, <2>1, <2>2, <2>3, <2>4, <2>5 DEF Listed
<1> QED BY <1>3, <1>5, <1>6 DEF EditorInv

LEMMA EditorOpens ==
    ASSUME EditorInv, NEW d \in Drafts, Editor!OpenDraft(d)
    PROVE  EditorInv'
<1> DEFINE save == Editor!Flushed
           new == Editor!Autosave(save)
           x == documents[d]
<1>0. /\ Numbered /\ Owned /\ Listed /\ Newest /\ AllSaved /\ Previewed /\ Shown
      /\ owner \in Seq(Drafts) /\ active \in Drafts /\ source \in Nat
  BY EditorFacts
<1>1. /\ x # None /\ saveTimer' = None /\ Editor!Show(d, x, new)
      /\ forgotten' = forgotten
            \cup (IF documents[d] = Editor!Latest(d) THEN {} ELSE {d})
            \cup (IF saveTimer = None \/ (dirty /\ saveTimer.doc = active)
                  THEN {} ELSE {saveTimer.doc})
      /\ UNCHANGED <<file, documents, shown, creating, retry, owner, overtaken>>
  BY DEF Editor!OpenDraft
<1>2. Belongs(d, x) /\ x \in Nat BY <1>0, <1>1 DEF Owned, Belongs
<1>3. save # None => save.doc = active /\ save.tex = source BY DEF Editor!Flushed
<1>4. dirty => save # None
  <2>1. dirty => save = [doc |-> active, tex |-> source] BY DEF Editor!Flushed
  <2> QED BY <1>0, <2>1, NoneIsNothing
<1>5. save # None => new # {} BY DEF Editor!Autosave
<1>6. active' = d /\ source' = x BY <1>1 DEF Editor!Show
<1> HIDE DEF save
<1>7. /\ \E out : /\ Sends(out) /\ new \subseteq out
                  /\ \A q \in out : q \in new \/ (q.doc = active /\ q.tex = source)
                  /\ d = active => out = new
      /\ \A q \in new : save # None /\ q.doc = save.doc /\ q.tex = save.tex /\ ~q.compile
      /\ \A p \in puts : p.stage = "sent" => \E q \in puts' : Same(p, q) /\ q.stage = "sent"
      /\ d # active \/ x # source => \A q \in puts' : q.compile => ~q.live
  <2>1. save # None => save.doc \in Drafts /\ save.tex \in Nat BY <1>0, <1>3
  <2>2. new \in {{}, Editor!Autosave(save)} OBVIOUS
  <2> HIDE DEF x, new
  <2>3. EditorInv /\ d \in Drafts /\ x \in Nat /\ Editor!Show(d, x, new) BY <1>1, <1>2
  <2> QED BY SMTT(20), <2>1, <2>2, <2>3, ShowSends
<1> HIDE DEF new
<1>8. PICK out : /\ Sends(out) /\ new \subseteq out
                 /\ \A q \in out : q \in new \/ (q.doc = active /\ q.tex = source)
                 /\ d = active => out = new
  BY <1>7
<1>9. /\ \A q \in out : q.doc = active /\ q.tex = source
      /\ \A q \in new : ~q.compile
  BY <1>3, <1>7, <1>8
<1>10. \A e : Editor!Latest(e)' = Editor!Latest(e) BY <1>0, <1>1, LatestOfOwner
<1>11. Numbered' BY <1>0, <1>1, <1>6, <1>8, SendsNumbered
<1>12. Previewed'
  <2>1. CASE d # active \/ x # source BY <1>0, <1>1, <1>7, <1>8, <2>1, SendsPreviewed
  <2>2. CASE d = active /\ x = source
    <3>1. active' = active /\ source' = source /\ overtaken \subseteq overtaken'
      BY <1>1, <1>6, <2>2
    <3>2. \A q \in out : q.compile => q.doc = active /\ q.tex = source BY <1>9
    <3> QED BY <1>0, <1>1, <1>8, <3>1, <3>2, SendsPreviewed
  <2> QED BY <2>1, <2>2
<1>13. Shown'
  <2> HIDE DEF x
  <2>1. d = active /\ x = source => overtaken \subseteq overtaken' BY <1>1
  <2> QED BY <1>1, <1>2, <2>1, ShowShown
<1>14. Owned'
  <2>1. \A e, y : Belongs(e, y) => Belongs(e, y)' BY <1>1 DEF Belongs
  <2>2. \A p \in puts' : Belongs(p.doc, p.tex)'
    <3>1. \A q \in out : Belongs(q.doc, q.tex)
      <4>1. Belongs(active, source) BY <1>0 DEF Owned
      <4> QED BY <1>9, <4>1
    <3> QED BY <1>0, <1>8, <2>1, <3>1, SendsOwned
  <2>3. \A e \in Drafts : Belongs(e, file[e].tex)' BY <1>0, <1>1 DEF Owned, Belongs
  <2>4. \A s \in {saveTimer', retry'} : s # None => s.doc \in Drafts /\ Belongs(s.doc, s.tex)'
    BY <1>0, <1>1 DEF Owned, Belongs
  <2>5. Belongs(active, source)' BY <1>1, <1>2, <1>6 DEF Belongs
  <2>6. \A e \in Drafts : documents'[e] # None => Belongs(e, documents[e])'
    BY <1>0, <1>1 DEF Owned, Belongs
  <2>7. creating' # None /\ creating'.list # None =>
          \A e \in Drafts : creating'.list[e] # None => Belongs(e, creating.list[e])'
    BY <1>0, <1>1 DEF Owned, Belongs
  <2> QED BY <2>2, <2>3, <2>4, <2>5, <2>6, <2>7 DEF Owned
<1>15. Listed' BY <1>0, <1>1, <1>6 DEF Listed
<1>16. Newest'
  <2>1. d \notin forgotten' => x = Editor!Latest(d) BY <1>1
  <2> QED BY <1>1, <1>6, <1>10, <2>1 DEF Newest
<1>17. AllSaved'
  <2> SUFFICES ASSUME NEW e \in Drafts, e \notin overtaken' \cup forgotten' PROVE Saved(e)'
    BY DEF AllSaved
  <2>1. Saved(e) /\ e \notin forgotten BY <1>0, <1>1 DEF AllSaved
  <2>2. \A q \in out : q.doc = e => q.tex = Editor!Latest(e) BY <1>0, <1>9, <2>1 DEF Newest
  <2>3. Timed(e) => \E q \in out : q.doc = e /\ ~q.compile
    <3> SUFFICES ASSUME Timed(e) PROVE \E q \in out : q.doc = e /\ ~q.compile OBVIOUS
    <3>1. saveTimer # None /\ saveTimer.doc = e BY DEF Timed
    <3>2. dirty /\ e = active BY <1>1, <3>1
    <3>3. PICK q \in new : TRUE BY <1>4, <1>5, <3>2
    <3> QED BY <1>8, <1>9, <3>2, <3>3
  <2>4. file' = file /\ Editor!Latest(e)' = Editor!Latest(e) BY <1>1, <1>10
  <2>5. \A p \in puts : p.doc = e /\ p.stage = "sent" /\ ~p.compile =>
               \E q \in puts' : Same(p, q) /\ q.stage = "sent"
    BY <1>7
  <2> QED BY <1>0, <1>8, <2>1, <2>2, <2>3, <2>4, <2>5, SendsSaved
<1> QED BY <1>11, <1>12, <1>13, <1>14, <1>15, <1>16, <1>17 DEF EditorInv

LEMMA EditorListLands == EditorInv /\ Editor!ListLands => EditorInv'
<1> SUFFICES ASSUME EditorInv, Editor!ListLands PROVE EditorInv' OBVIOUS
<1> DEFINE d == creating.doc
           x == creating.list[d]
<1>0. /\ Numbered /\ Owned /\ Listed /\ Newest /\ AllSaved /\ Previewed /\ Shown
      /\ owner \in Seq(Drafts) /\ active \in Drafts /\ source \in Nat
  BY EditorFacts
<1>1. /\ creating # None /\ creating.list # None /\ creating' = None
      /\ documents' = creating.list /\ retry' = None /\ Editor!Show(d, x, {})
      /\ UNCHANGED <<file, saveTimer, shown, owner, overtaken, forgotten>>
  BY DEF Editor!ListLands
<1>2. /\ d \in Drafts /\ documents[d] = None /\ file[d].listed
      /\ creating.list = [e \in Drafts |-> creating.list[e]]
      /\ x # None
      /\ \A e \in Drafts : documents[e] # None => creating.list[e] # None
      /\ \A e \in Drafts : creating.list[e] # None => file[e].listed
  BY <1>0, <1>1 DEF Listed
<1>3. Belongs(d, x) /\ x \in Nat BY <1>0, <1>1, <1>2 DEF Owned, Belongs
<1>4. d # active BY <1>0, <1>2 DEF Listed
<1>5. active' = d /\ source' = x BY <1>1 DEF Editor!Show
<1>6. x = 0 /\ Editor!Latest(d) = 0
  <2>1. \A n \in 1 .. Len(owner) : owner[n] # d BY <1>0, <1>2 DEF Listed
  <2> QED BY <1>0, <1>3, <2>1, LatestOfOwner DEF Belongs
<1> HIDE DEF x, d
<1>7. /\ \E out : /\ Sends(out)
                  /\ \A q \in out : q.doc = active /\ q.tex = source
      /\ \A p \in puts : p.stage = "sent" => \E q \in puts' : Same(p, q) /\ q.stage = "sent"
      /\ \A q \in puts' : q.compile => ~q.live
  <2>1. {} \in {{}, Editor!Autosave(None)} OBVIOUS
  <2>2. /\ \E out : /\ Sends(out) /\ {} \subseteq out
                    /\ \A q \in out : q \in {} \/ (q.doc = active /\ q.tex = source)
                    /\ d = active => out = {}
        /\ \A p \in puts : p.stage = "sent" => \E q \in puts' : Same(p, q) /\ q.stage = "sent"
        /\ d # active \/ x # source => \A q \in puts' : q.compile => ~q.live
    BY <1>1, <1>2, <1>3, <2>1, ShowSends
  <2> QED BY <1>4, <2>2
<1>8. PICK out : Sends(out) /\ \A q \in out : q.doc = active /\ q.tex = source BY <1>7
<1>9. \A e : Editor!Latest(e)' = Editor!Latest(e) BY <1>0, <1>1, LatestOfOwner
<1>10. Numbered' BY <1>0, <1>1, <1>2, <1>5, <1>8, SendsNumbered
<1>11. Previewed' BY <1>0, <1>1, <1>7, <1>8, SendsPreviewed
<1>12. Shown' BY <1>1, <1>2, <1>3, <1>4, ShowShown
<1>13. Owned'
  <2>1. \A e, y : Belongs(e, y) => Belongs(e, y)' BY <1>1 DEF Belongs
  <2>2. \A p \in puts' : Belongs(p.doc, p.tex)'
    <3>1. \A q \in out : Belongs(q.doc, q.tex)
      <4>1. Belongs(active, source) BY <1>0 DEF Owned
      <4> QED BY <1>8, <4>1
    <3> QED BY <1>0, <1>8, <2>1, <3>1, SendsOwned
  <2>3. \A e \in Drafts : Belongs(e, file[e].tex)' BY <1>0, <1>1 DEF Owned, Belongs
  <2>4. \A s \in {saveTimer', retry'} : s # None => s.doc \in Drafts /\ Belongs(s.doc, s.tex)'
    BY <1>0, <1>1 DEF Owned, Belongs
  <2>5. Belongs(active, source)' BY <1>1, <1>3, <1>5 DEF Belongs
  <2>6. \A e \in Drafts : documents'[e] # None => Belongs(e, documents[e])'
    BY <1>0, <1>1 DEF Owned, Belongs
  <2> QED BY <1>1, <2>2, <2>3, <2>4, <2>5, <2>6 DEF Owned
<1>14. Listed'
  <2>1. \A n \in 1 .. Len(owner) : owner[n] \in Drafts /\ documents[owner[n]] # None
    BY <1>0 DEF Listed
  <2>2. documents'[active'] # None BY <1>1, <1>2, <1>5 DEF x, d
  <2> QED BY <1>1, <1>2, <2>1, <2>2 DEF Listed
<1>15. Newest' BY <1>0, <1>1, <1>5, <1>6, <1>9 DEF Newest
<1>16. AllSaved'
  <2> SUFFICES ASSUME NEW e \in Drafts, e \notin overtaken' \cup forgotten' PROVE Saved(e)'
    BY DEF AllSaved
  <2>1. Saved(e) /\ e \notin forgotten BY <1>0, <1>1 DEF AllSaved
  <2>2. \A q \in out : q.doc = e => q.tex = Editor!Latest(e) BY <1>0, <1>8, <2>1 DEF Newest
  <2>3. Timed(e) => Timed(e)' BY <1>1 DEF Timed
  <2>4. file' = file /\ Editor!Latest(e)' = Editor!Latest(e) BY <1>1, <1>9
  <2>5. \A p \in puts : p.doc = e /\ p.stage = "sent" /\ ~p.compile =>
               \E q \in puts' : Same(p, q) /\ q.stage = "sent"
    BY <1>7
  <2> QED BY <1>0, <1>8, <2>1, <2>2, <2>3, <2>4, <2>5, SendsSaved
<1> QED BY <1>10, <1>11, <1>12, <1>13, <1>14, <1>15, <1>16 DEF EditorInv

LEMMA EditorStep ==
    ASSUME EditorInv, Editor!Next \/ UNCHANGED editorVars
    PROVE  EditorInv'
<1>1. CASE UNCHANGED editorVars BY <1>1, EditorStill
<1>2. ASSUME NEW d \in Drafts, Editor!OpenDraft(d) PROVE EditorInv' BY <1>2, EditorOpens
<1>3. ASSUME NEW d \in Drafts, Editor!CreateDraft(d) PROVE EditorInv' BY <1>3, EditorCreates
<1>4. ASSUME NEW p \in puts, Editor!Store(p) PROVE EditorInv' BY <1>4, EditorStore
<1>5. ASSUME NEW p \in puts, Editor!CompileFails(p) PROVE EditorInv'
  BY <1>5, EditorCompileFails
<1>6. ASSUME NEW p \in puts, Editor!RequestFails(p) PROVE EditorInv'
  BY <1>6, EditorRequestFails
<1>7. ASSUME NEW p \in puts, Editor!AutosaveLands(p) PROVE EditorInv'
  BY <1>7, EditorAutosaveLands
<1>8. ASSUME NEW p \in puts, Editor!CompileLands(p) PROVE EditorInv'
  BY <1>8, EditorCompileLands
<1>9. ASSUME NEW p \in puts, Editor!PdfLands(p) PROVE EditorInv' BY <1>9, EditorPdfLands
<1> QED
  BY <1>1, <1>2, <1>3, <1>4, <1>5, <1>6, <1>7, <1>8, <1>9, EditorEdit, EditorSaves,
     EditorPreviews, EditorRetries, EditorListRead, EditorListLands, EditorCreateFails
     DEF Editor!Next

LEMMA EditorAlways == Spec => []EditorInv
<1>1. Init => EditorInv BY EditorInit DEF Init
<1>2. EditorInv /\ [Next]_vars => EditorInv' BY StepOfEach, EditorStep
<1> QED BY <1>1, <1>2, PTL DEF Spec

\* A draft only holds what was typed into it, and once nothing is on its way
\* the last of it, but for the losses that the history variables record.
THEOREM EditsAreKept == Spec => []Editor!EditsKept
<1>1. EditorInv => Editor!EditsKept
  <2> SUFFICES ASSUME EditorInv PROVE Editor!EditsKept OBVIOUS
  <2>0. Owned /\ AllSaved /\ file \in [Drafts -> Files] BY EditorFacts
  <2>1. Editor!OwnText BY <2>0 DEF Owned, Belongs, Editor!OwnText, Editor!Starter
  <2>2. ASSUME NEW d \in Drafts, Editor!Quiet(d), d \notin overtaken \cup forgotten
        PROVE  file[d].tex = Editor!Latest(d)
    <3>1. ~Timed(d) BY <2>2 DEF Editor!Quiet, Timed
    <3>2. PICK n \in Nat : SavedFrom(d, n) BY <2>0, <2>2, <3>1 DEF AllSaved, Saved
    <3>3. file[d].put = n BY <2>2, <3>2 DEF Editor!Quiet, SavedFrom
    <3> QED BY <3>2, <3>3 DEF SavedFrom
  <2>3. Editor!SavedWhenQuiet BY <2>2 DEF Editor!SavedWhenQuiet
  <2> QED BY <2>1, <2>3 DEF Editor!EditsKept
<1> QED BY <1>1, EditorAlways, PTL

\* A preview that says "ok" with no compile pending is of the editor's text.
THEOREM PreviewIsOfSource == Spec => []Editor!PreviewOfSource
<1>1. EditorInv => Editor!PreviewOfSource BY DEF EditorInv, Shown, Editor!PreviewOfSource
<1> QED BY <1>1, EditorAlways, PTL

\* What is typed is kept, and what is previewed is what the editor shows.
THEOREM DraftsAreKept == Spec => []DraftsKept
<1>1. Editor!EditsKept /\ Editor!PreviewOfSource => DraftsKept BY DEF DraftsKept
<1> QED BY <1>1, EditsAreKept, PreviewIsOfSource, PTL
=============================================================================

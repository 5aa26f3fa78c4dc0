---------------------------- MODULE VoicePlayback ----------------------------
(***************************************************************************)
(* Push-to-talk and the spoken reply (frontend/src/voice/useVoice.ts), and *)
(* the Companion pane that drives them (companion/CompanionPane.tsx).      *)
(* A held chord barges in and records; its release transcribes, and sends  *)
(* after an undo window. The reply to a voice message is cut into          *)
(* sentences as it streams; one drain task at a time synthesizes and plays *)
(* them. stopPlayback bumps an epoch, and the drain looks at it after      *)
(* every await. The microphone button, which neither barges in nor waits,  *)
(* is left out.                                                            *)
(***************************************************************************)
EXTENDS Naturals, Sequences

CONSTANTS
    MaxHolds,      \* bound: times the chord is held
    MaxTurns,      \* bound: turns
    MaxSentences,  \* bound: sentences of a turn
    None           \* no sentence

VARIABLES
    chord,         \* chordActiveRef
    opening,       \* getUserMedia calls in progress
    recording,     \* recorderRef is set
    transcribing,  \* clips on their way to text
    timers,        \* undo windows running
    undo,          \* pendingTimerRef is set, to the last window opened
    holds,         \* holds so far

    turn,          \* the turn in flight, 0 for none
    turns,         \* turns so far
    streamed,      \* sentences of the turn in flight
    voiceTurn,     \* isVoiceTurnRef
    asked,         \* the turn that answers the last voice message
    refused,       \* the last voice message was refused, a turn being in flight

    epoch,         \* playbackEpochRef
    muted,         \* voiceMutedRef
    queue,         \* synthQueueRef
    drain,         \* the drain task, off when drainingRef is not set
    playing        \* currentAudioRef

capture  == <<chord, opening, recording, transcribing, timers, undo, holds>>
turnvars == <<turn, turns, streamed, voiceTurn, asked, refused>>
playback == <<epoch, muted, queue, drain, playing>>
vars     == <<capture, turnvars, playback>>

MaxStops  == 3 * MaxHolds + 1
Sentences == [turn : 1 .. MaxTurns, epoch : 0 .. MaxStops]
Off       == [pc |-> "off", epoch |-> 0, sentence |-> None]

TypeOK ==
    /\ chord \in BOOLEAN /\ recording \in BOOLEAN /\ undo \in BOOLEAN
    /\ holds \in 0 .. MaxHolds
    /\ opening \in 0 .. MaxHolds /\ transcribing \in 0 .. MaxHolds /\ timers \in 0 .. MaxHolds
    /\ turns \in 0 .. MaxTurns /\ turn \in {0, turns} /\ asked \in 0 .. turns
    /\ streamed \in 0 .. MaxSentences /\ voiceTurn \in BOOLEAN /\ refused \in BOOLEAN
    /\ epoch \in 0 .. MaxStops /\ muted \in BOOLEAN
    /\ queue \in Seq(Sentences)
    /\ drain \in [pc : {"off", "synthesize", "play"}, epoch : 0 .. MaxStops,
                  sentence : Sentences \cup {None}]
    /\ playing \in Sentences \cup {None}

Init ==
    /\ chord = FALSE /\ opening = 0 /\ recording = FALSE /\ transcribing = 0
    /\ timers = 0 /\ undo = FALSE /\ holds = 0
    /\ turn = 0 /\ turns = 0 /\ streamed = 0
    /\ voiceTurn = FALSE /\ asked = 0 /\ refused = FALSE
    /\ epoch = 0 /\ muted = FALSE /\ queue = <<>> /\ drain = Off /\ playing = None

(***************************************************************************)
(* Playback. A drain that waits for audio to end is resolved by the stop;  *)
(* one that waits for a synthesis is not.                                  *)
(***************************************************************************)
Cut(e) ==
    /\ epoch' = e
    /\ queue' = <<>> /\ playing' = None
    /\ drain' = IF drain.pc = "play" THEN Off ELSE drain

\* Mutant: the epoch is not bumped.
stopPlayback_KeepEpoch == Cut(epoch) /\ muted' = TRUE

stopPlayback == Cut(epoch + 1) /\ muted' = TRUE
beginVoiceTurn == Cut(epoch + 1) /\ muted' = FALSE

\* drainQueue's loop, from its test: q waits, e is the epoch it started in.
Drain(q, e) ==
    IF q = <<>> \/ e # epoch
    THEN drain' = Off /\ queue' = q
    ELSE /\ drain' = [pc |-> "synthesize", epoch |-> e, sentence |-> Head(q)]
         /\ queue' = Tail(q)

enqueueSentence ==
    LET q == Append(queue, [turn |-> turn, epoch |-> epoch]) IN
    /\ IF drain = Off THEN Drain(q, epoch) ELSE queue' = q /\ UNCHANGED drain
    /\ UNCHANGED <<epoch, muted, playing>>

Synthesized ==
    /\ drain.pc = "synthesize"
    /\ IF drain.epoch = epoch
       THEN /\ playing' = drain.sentence
            /\ drain' = [drain EXCEPT !.pc = "play"]
       ELSE drain' = Off /\ UNCHANGED playing
    /\ UNCHANGED <<capture, turnvars, epoch, muted, queue>>

SynthesizeFails ==
    /\ drain.pc = "synthesize"
    /\ Drain(queue, drain.epoch)
    /\ UNCHANGED <<capture, turnvars, epoch, muted, playing>>

\* The audio ends, or cannot be played.
PlayEnds ==
    /\ playing # None
    /\ playing' = None
    /\ Drain(queue, drain.epoch)
    /\ UNCHANGED <<capture, turnvars, epoch, muted>>

(***************************************************************************)
(* Turns.                                                                  *)
(***************************************************************************)
\* sendMessage, and the backend: a turn starts, or is refused for the one in flight.
Accepted == turn' = turns + 1 /\ turns' = turns + 1 /\ streamed' = 0
Refused  == turn # 0 /\ UNCHANGED <<turn, turns, streamed>>

sendTyped ==
    /\ turns < MaxTurns
    /\ voiceTurn' = FALSE
    /\ Refused \/ (turn = 0 /\ Accepted)
    /\ UNCHANGED <<capture, asked, refused, playback>>

sendVoice ==
    /\ voiceTurn' = TRUE
    /\ beginVoiceTurn
    /\ \/ turn = 0 /\ turns < MaxTurns /\ Accepted /\ asked' = turns + 1 /\ refused' = FALSE
       \/ Refused /\ refused' = TRUE /\ UNCHANGED asked

\* feedAssistantDelta: text that completes a sentence. What it does not complete
\* waits for the next delta, or for endVoiceTurn.
Delta ==
    /\ turn # 0 /\ streamed < MaxSentences
    /\ streamed' = streamed + 1
    /\ IF voiceTurn /\ ~muted THEN enqueueSentence ELSE UNCHANGED playback
    /\ UNCHANGED <<capture, turn, turns, voiceTurn, asked, refused>>

\* turn_complete or a terminal error: endVoiceTurn speaks what is left, if anything.
TurnEnds ==
    /\ turn # 0
    /\ turn' = 0 /\ streamed' = 0
    /\ \/ voiceTurn /\ ~muted /\ enqueueSentence
       \/ UNCHANGED playback
    /\ UNCHANGED <<capture, turns, voiceTurn, asked, refused>>

\* The Stop button; the backend goes on until it sees the interrupt. A second
\* stop finds nothing left to cut.
Stop ==
    /\ turn # 0 /\ ~muted
    /\ stopPlayback
    /\ UNCHANGED <<capture, turnvars>>

(***************************************************************************)
(* Capture.                                                                *)
(***************************************************************************)
ChordDown ==
    /\ ~chord /\ ~recording
    /\ holds < MaxHolds /\ holds' = holds + 1
    /\ chord' = TRUE /\ opening' = opening + 1
    /\ stopPlayback
    /\ UNCHANGED <<recording, transcribing, timers, undo, turnvars>>

\* getUserMedia answers, whether or not the chord is still held.
MicOpens ==
    /\ opening > 0 /\ opening' = opening - 1
    /\ \/ recording' = TRUE
       \/ UNCHANGED recording
    /\ UNCHANGED <<chord, transcribing, timers, undo, holds, turnvars, playback>>

\* A key up or a blur. A microphone that opens after it stays on.
Release ==
    /\ chord
    /\ chord' = FALSE /\ recording' = FALSE
    /\ transcribing' = IF recording THEN transcribing + 1 ELSE transcribing
    /\ UNCHANGED <<opening, timers, undo, holds, turnvars, playback>>

\* The undo window opens; one already open keeps running and can no longer be undone.
Transcribed ==
    /\ transcribing > 0 /\ transcribing' = transcribing - 1
    /\ \/ timers' = timers + 1 /\ undo' = TRUE
       \/ UNCHANGED <<timers, undo>>
    /\ UNCHANGED <<chord, opening, recording, holds, turnvars, playback>>

cancelPendingVoiceMessage ==
    /\ undo
    /\ undo' = FALSE /\ timers' = timers - 1
    /\ UNCHANGED <<chord, opening, recording, transcribing, holds, turnvars, playback>>

\* Any window that elapses clears the reference to the last one.
WindowElapses ==
    /\ timers > 0
    /\ timers' = timers - 1 /\ undo' = FALSE
    /\ sendVoice
    /\ UNCHANGED <<chord, opening, recording, transcribing, holds>>

Next ==
    \/ ChordDown \/ MicOpens \/ Release \/ Transcribed
    \/ cancelPendingVoiceMessage \/ WindowElapses
    \/ sendTyped \/ Delta \/ TurnEnds \/ Stop
    \/ Synthesized \/ SynthesizeFails \/ PlayEnds

Spec == Init /\ [][Next]_vars

(***************************************************************************)
(* Properties.                                                             *)
(***************************************************************************)
\* What is heard, and what waits to be, comes after the last stop and answers
\* the last voice message; only when that one was refused, another turn's text.
NoStaleAudio ==
    /\ playing # None =>
          ~muted /\ playing.epoch = epoch /\ (playing.turn = asked \/ refused)
    /\ \A i \in DOMAIN queue : queue[i].epoch = epoch
=============================================================================

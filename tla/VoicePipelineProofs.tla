------------------------ MODULE VoicePipelineProofs ------------------------
(***************************************************************************)
(* The safety properties of VoicePipeline, for recordings of any length.   *)
(***************************************************************************)
EXTENDS VoicePipeline, TLAPS

----------------------------------------------------------------------------
(* The inductive invariant. *)

\* What the thread of the hotkey has told is what it is: once ready without an
\* error it stays at its messages until it is asked to close.
HotkeyInv ==
  /\ hotkey.ready => hotkey.pc \notin {"none", "registering"}
  /\ hotkey.ready /\ ~hotkey.error /\ ~hotkey.close
       => hotkey.pc \in {"pumping", "pressed", "seen"}
  /\ hotkey.close => main.pc \in {"unhook", "stopped"}
  /\ main.pc = "turns" /\ main.listener => hotkey.ready /\ ~hotkey.error

\* A thread runs only while the turn waits for it, with the job it was given.
TurnInv ==
  /\ main.pc \in {"off", "starting"} => idle /\ turn = "none" /\ thread.pc = "none"
  /\ main.pc = "turns" =>
       /\ turn # "none"
       /\ turn = "listening" => thread.job = "activation" /\ thread.pc # "none"
       /\ turn = "confirming" =>
            thread.job = "confirmation" /\ thread.pc \in {"open", "record", "done", "failed"}
       /\ turn \notin {"listening", "confirming"} => thread.pc \in {"none", "done", "failed"}

\* What `speech` and `silentRun` say of the frames: the last loud one is just in
\* front of the silence that is counted.
SilenceInv ==
  LET f == rec.frames
  IN  /\ rec.speech <=> \E i \in 1..Len(f) : f[i] # "quiet"
      /\ ~rec.speech => rec.silentRun = 0
      /\ rec.speech =>
           /\ rec.silentRun < Len(f)
           /\ f[Len(f) - rec.silentRun] # "quiet"
           /\ \A i \in 1..Len(f) : i > Len(f) - rec.silentRun => f[i] = "quiet"

DrainedInv == thread.pc = "record" => ~mic.backlog

IInv ==
  /\ TypeOK /\ HotkeyInv /\ StartedMeansListening /\ TurnInv /\ IdleTellsTheTurn
  /\ SilenceInv /\ DrainedInv /\ RecordingIsWhole

----------------------------------------------------------------------------
(* Recordings. *)

\* The loop of record_until_silence ends exactly where the definition over the
\* frames says.
LEMMA RecordedIsEndsAt ==
  ASSUME TypeOK, SilenceInv
  PROVE  Recorded <=> EndsAt(rec.frames, rec.limit)
<1> DEFINE f == rec.frames
<1>1. /\ f \in Seq(Sounds) /\ Len(f) \in Nat /\ Len(f) <= rec.limit
      /\ rec.limit \in Nat /\ rec.silentRun \in Nat /\ rec.speech \in BOOLEAN
      /\ SilenceFrames \in Nat \ {0}
  BY AudioAssumption DEF TypeOK, AudioTypeOK
<1>2. ASSUME rec.silentRun >= SilenceFrames
      PROVE  EndsAt(f, rec.limit)
  <2>1. rec.speech
    BY <1>1, <1>2 DEF SilenceInv
  <2>2. /\ rec.silentRun < Len(f)
        /\ f[Len(f) - rec.silentRun] # "quiet"
        /\ \A i \in 1..Len(f) : i > Len(f) - rec.silentRun => f[i] = "quiet"
    BY <2>1 DEF SilenceInv
  <2>3. Len(f) - rec.silentRun \in 1..(Len(f) - SilenceFrames)
    BY <1>1, <1>2, <2>2
  <2>4. \A i \in 1..Len(f) : i > Len(f) - SilenceFrames => f[i] = "quiet"
    BY <1>1, <1>2, <2>2
  <2> QED
    BY <2>2, <2>3, <2>4 DEF EndsAt
<1>3. ASSUME EndsAt(f, rec.limit), Len(f) # rec.limit
      PROVE  rec.silentRun >= SilenceFrames
  <2>1. PICK i \in 1..(Len(f) - SilenceFrames) : f[i] # "quiet"
    BY <1>3 DEF EndsAt
  <2>2. i \in 1..Len(f)
    BY <1>1
  <2>3. rec.speech
    BY <2>1, <2>2 DEF SilenceInv
  <2>4. rec.silentRun < Len(f) /\ f[Len(f) - rec.silentRun] # "quiet"
    BY <2>3 DEF SilenceInv
  <2>5. Len(f) - rec.silentRun \in 1..Len(f)
    BY <1>1, <2>4
  <2>6. ~(Len(f) - rec.silentRun > Len(f) - SilenceFrames)
    BY <1>3, <2>4, <2>5 DEF EndsAt
  <2> QED
    BY <1>1, <2>6
<1>4. Len(f) >= rec.limit => Len(f) = rec.limit
  BY <1>1
<1>5. Len(f) = rec.limit => Len(f) >= rec.limit /\ EndsAt(f, rec.limit)
  BY <1>1 DEF EndsAt
<1> QED
  BY <1>2, <1>3, <1>4, <1>5 DEF Recorded

\* A new recording has no frame, and nothing is counted.
LEMMA StartedRecording ==
  ASSUME NEW limit \in {MaxFrames, ConfirmFrames}, StartRecording(limit)
  PROVE  /\ rec' \in [frames : Seq(Sounds), limit : {MaxFrames, ConfirmFrames},
                      speech : BOOLEAN, silentRun : 0..SilenceFrames]
         /\ rec'.frames = <<>> /\ Len(rec'.frames) = 0 /\ Len(rec'.frames) <= rec'.limit
         /\ SilenceInv'
<1>1. rec' = [frames |-> <<>>, limit |-> limit, speech |-> FALSE, silentRun |-> 0]
  BY DEF StartRecording, NoRecording
<1>2. <<>> \in Seq(Sounds) /\ Len(<<>>) = 0
  OBVIOUS
<1> QED
  BY <1>1, <1>2, AudioAssumption DEF SilenceInv

\* One frame more: it is counted, and neither the frames before it nor any of
\* their beginnings were the end.
LEMMA RecordedFrame ==
  ASSUME IInv, thread.pc = "record", RecordFrame
  PROVE  /\ AudioTypeOK' /\ SilenceInv' /\ ~mic'.backlog
         /\ \A i \in 1..Len(rec'.frames) : rec'.frames[i] # "beep"
         /\ \A n \in 0..(Len(rec'.frames) - 1) :
              ~EndsAt(SubSeq(rec'.frames, 1, n), rec'.limit)
<1> DEFINE f == rec.frames
<1>1. /\ f \in Seq(Sounds) /\ Len(f) \in Nat /\ Len(f) <= rec.limit
      /\ rec.limit \in Nat /\ rec.silentRun \in 0..SilenceFrames /\ rec.speech \in BOOLEAN
      /\ SilenceFrames \in Nat \ {0}
      /\ rec \in [frames : Seq(Sounds), limit : {MaxFrames, ConfirmFrames},
                  speech : BOOLEAN, silentRun : 0..SilenceFrames]
  BY AudioAssumption DEF IInv, TypeOK, AudioTypeOK
<1>2. PICK sound \in {"loud", "quiet"} :
        rec' = [rec EXCEPT !.frames = Append(@, sound), !.speech = @ \/ sound # "quiet",
                           !.silentRun = SilentRun(sound)]
  BY DEF IInv, DrainedInv, RecordFrame
<1>3. ~Recorded /\ Len(f) < rec.limit /\ rec.silentRun < SilenceFrames
  BY <1>1 DEF RecordFrame, Recorded
<1> DEFINE g == Append(f, sound)
<1>4. /\ rec'.frames = g /\ rec'.limit = rec.limit
      /\ rec'.speech = (rec.speech \/ sound # "quiet") /\ rec'.silentRun = SilentRun(sound)
  BY <1>1, <1>2
<1>5. /\ g \in Seq(Sounds) /\ Len(g) = Len(f) + 1 /\ g[Len(f) + 1] = sound
      /\ \A i \in 1..Len(f) : g[i] = f[i]
  <2>1. sound \in Sounds
    BY DEF Sounds
  <2> QED
    BY <1>1, <2>1
<1>6. SilentRun(sound) \in 0..SilenceFrames
  BY <1>1, <1>3 DEF SilentRun
<1>7. AudioTypeOK' /\ ~mic'.backlog
  <2>1. mic' = [mic EXCEPT !.backlog = FALSE]
    BY DEF RecordFrame
  <2>2. mic \in [open : BOOLEAN, backlog : BOOLEAN]
    BY DEF IInv, TypeOK, AudioTypeOK
  <2>3. rec' \in [frames : Seq(Sounds), limit : {MaxFrames, ConfirmFrames},
                  speech : BOOLEAN, silentRun : 0..SilenceFrames]
    BY <1>1, <1>2, <1>5, <1>6
  <2>4. mic' \in [open : BOOLEAN, backlog : BOOLEAN] /\ ~mic'.backlog
    BY <2>1, <2>2
  <2>5. Len(rec'.frames) <= rec'.limit
    BY <1>1, <1>3, <1>4, <1>5
  <2> QED
    BY <2>3, <2>4, <2>5 DEF AudioTypeOK
<1>8. SilenceInv'
  <2> DEFINE run == SilentRun(sound)
  <2>1. CASE sound # "quiet"
    <3>1. run = 0 /\ rec'.speech
      BY <1>4, <2>1 DEF SilentRun
    <3>2. g[Len(g) - run] # "quiet" /\ run < Len(g) /\ Len(g) \in 1..Len(g)
      BY <1>1, <1>5, <2>1, <3>1
    <3>3. \A i \in 1..Len(g) : ~(i > Len(g) - run)
      BY <1>1, <1>5, <3>1
    <3>4. \E i \in 1..Len(g) : g[i] # "quiet"
      BY <1>1, <1>5, <2>1
    <3> QED
      BY <1>4, <3>1, <3>2, <3>3, <3>4 DEF SilenceInv
  <2>2. CASE sound = "quiet" /\ rec.speech
    <3>1. run = rec.silentRun + 1 /\ rec'.speech
      BY <1>4, <2>2 DEF SilentRun
    <3>2. /\ rec.silentRun < Len(f)
          /\ f[Len(f) - rec.silentRun] # "quiet"
          /\ \A i \in 1..Len(f) : i > Len(f) - rec.silentRun => f[i] = "quiet"
      BY <2>2 DEF IInv, SilenceInv
    <3>3. Len(g) - run = Len(f) - rec.silentRun /\ Len(g) - run \in 1..Len(f)
      BY <1>1, <1>5, <3>1, <3>2
    <3>4. g[Len(g) - run] # "quiet" /\ run < Len(g) /\ Len(g) - run \in 1..Len(g)
      BY <1>1, <1>5, <3>1, <3>2, <3>3
    <3>5. \A i \in 1..Len(g) : i > Len(g) - run => g[i] = "quiet"
      <4> SUFFICES ASSUME NEW i \in 1..Len(g), i > Len(g) - run
                   PROVE  g[i] = "quiet"
        OBVIOUS
      <4>1. CASE i = Len(f) + 1
        BY <1>5, <2>2, <4>1
      <4>2. CASE i # Len(f) + 1
        <5>1. i \in 1..Len(f) /\ i > Len(f) - rec.silentRun
          BY <1>1, <1>5, <3>3, <4>2
        <5> QED
          BY <1>5, <3>2, <5>1
      <4> QED
        BY <4>1, <4>2
    <3> QED
      BY <1>4, <3>1, <3>4, <3>5 DEF SilenceInv
  <2>3. CASE sound = "quiet" /\ ~rec.speech
    <3>1. run = 0 /\ ~rec'.speech
      <4>1. rec.silentRun = 0
        BY <2>3 DEF IInv, SilenceInv
      <4> QED
        BY <1>4, <2>3, <4>1 DEF SilentRun
    <3>2. \A i \in 1..Len(f) : f[i] = "quiet"
      BY <2>3 DEF IInv, SilenceInv
    <3>3. \A i \in 1..Len(g) : g[i] = "quiet"
      BY <1>1, <1>5, <2>3, <3>2
    <3> QED
      BY <1>4, <3>1, <3>3 DEF SilenceInv
  <2> QED
    BY <1>1, <2>1, <2>2, <2>3
<1>9. \A i \in 1..Len(g) : g[i] # "beep"
  <2>1. \A i \in 1..Len(f) : f[i] # "beep"
    BY DEF IInv, RecordingIsWhole
  <2> QED
    BY <1>1, <1>5, <2>1
<1>10. ASSUME NEW n \in 0..(Len(g) - 1)
       PROVE  ~EndsAt(SubSeq(g, 1, n), rec.limit)
  <2>1. SubSeq(g, 1, n) = SubSeq(f, 1, n)
    BY <1>1, <1>5
  <2>2. CASE n < Len(f)
    <3>1. n \in 0..(Len(f) - 1)
      BY <1>1, <2>2
    <3> QED
      BY <2>1, <3>1 DEF IInv, RecordingIsWhole
  <2>3. CASE n = Len(f)
    <3>1. SubSeq(f, 1, n) = f
      BY <1>1, <2>3
    <3>2. ~EndsAt(f, rec.limit)
      BY <1>3, RecordedIsEndsAt DEF IInv
    <3> QED
      BY <2>1, <3>1, <3>2
  <2> QED
    BY <1>1, <1>5, <2>2, <2>3
<1> QED
  BY <1>4, <1>7, <1>8, <1>9, <1>10

----------------------------------------------------------------------------
(* The invariant is inductive. *)

LEMMA InitInv == Init => IInv
<1> SUFFICES ASSUME Init PROVE IInv
  OBVIOUS
<1>1. mic = [open |-> FALSE, backlog |-> FALSE] /\ rec = NoRecording(MaxFrames)
  BY DEF Init, AudioInit
<1>2. rec = [frames |-> <<>>, limit |-> MaxFrames, speech |-> FALSE, silentRun |-> 0]
  BY <1>1 DEF NoRecording
<1>3. <<>> \in Seq(Sounds) /\ Len(<<>>) = 0
  OBVIOUS
<1>4. AudioTypeOK /\ SilenceInv
  BY <1>1, <1>2, <1>3, AudioAssumption DEF AudioTypeOK, SilenceInv
<1>5. HotkeyTypeOK /\ HotkeyInv /\ StartedMeansListening
  BY DEF Init, HotkeyInit, HotkeyTypeOK, HotkeyInv, StartedMeansListening
<1>6. TypeOK
  BY <1>4, <1>5 DEF Init, TypeOK, Main, Turns, Thread
<1>7. TurnInv /\ IdleTellsTheTurn /\ DrainedInv /\ RecordingIsWhole
  BY DEF Init, TurnInv, IdleTellsTheTurn, DrainedInv, RecordingIsWhole
<1> QED
  BY <1>4, <1>5, <1>6, <1>7 DEF IInv

\* What holds of the microphone and the recording goes on to hold where nothing
\* touches them, and no recording is begun or ended.
AudioInv == AudioTypeOK /\ SilenceInv /\ DrainedInv /\ RecordingIsWhole

LEMMA AudioKept ==
  ASSUME AudioInv, UNCHANGED audioVars,
         thread'.pc \in {"record", "done"} => thread'.pc = thread.pc
  PROVE  AudioInv'
BY DEF AudioInv, AudioTypeOK, SilenceInv, DrainedInv, RecordingIsWhole, audioVars

\* The rest of the invariant, in two parts.
HotkeyPart ==
  HotkeyTypeOK /\ main \in Main /\ HotkeyInv /\ StartedMeansListening

TurnPart ==
  /\ main \in Main /\ turn \in Turns /\ thread \in Thread
  /\ idle \in BOOLEAN /\ activation \in BOOLEAN
  /\ TurnInv /\ IdleTellsTheTurn

LEMMA InvParts == IInv <=> HotkeyPart /\ TurnPart /\ AudioInv
BY DEF IInv, HotkeyPart, TurnPart, AudioInv, TypeOK

LEMMA HotkeyKept ==
  ASSUME HotkeyPart, UNCHANGED <<hotkey, main>>
  PROVE  HotkeyPart'
BY DEF HotkeyPart, HotkeyTypeOK, HotkeyInv, StartedMeansListening

LEMMA TurnKept ==
  ASSUME TurnPart, UNCHANGED <<main, turn, thread, idle>>, activation' \in BOOLEAN
  PROVE  TurnPart'
BY DEF TurnPart, TurnInv, IdleTellsTheTurn

\* run_forever: the hotkey is asked to close only when the turns are over.
LEMMA MainSteps ==
  ASSUME HotkeyPart, TurnPart,
         RunForever \/ HotkeyStarted \/ Cancel \/ CancelStart \/ HotkeyStopped
  PROVE  HotkeyPart' /\ TurnPart' /\ UNCHANGED <<audioVars, thread>>
<1> USE DEF HotkeyPart, HotkeyTypeOK, Main, HotkeyInv, StartedMeansListening
<1>1. CASE RunForever
  <2>1. HotkeyPart'
    BY <1>1 DEF RunForever, StartThread
  <2>2. TurnPart' /\ UNCHANGED <<audioVars, thread>>
    BY <1>1 DEF RunForever, TurnPart, TurnInv, IdleTellsTheTurn, Turns
  <2> QED
    BY <2>1, <2>2
<1>2. CASE HotkeyStarted
  <2>1. /\ main.pc = "starting" /\ turn' = "begin"
        /\ UNCHANGED <<hotkey, audioVars, thread, idle, activation>>
        /\ main' \in Main /\ main'.pc = "turns"
    <3>1. CASE main' = [main EXCEPT !.pc = "turns"]
      BY <1>2, <3>1 DEF HotkeyStarted
    <3>2. CASE main' = [pc |-> "turns", listener |-> FALSE]
      BY <1>2, <3>2 DEF HotkeyStarted
    <3> QED
      BY <1>2, <3>1, <3>2 DEF HotkeyStarted
  <2>2. main'.listener => hotkey.ready /\ ~hotkey.error
    BY <1>2 DEF HotkeyStarted, StartReturns
  <2>3. HotkeyPart'
    BY <2>1, <2>2
  <2>4. TurnPart'
    BY <2>1 DEF TurnPart, TurnInv, IdleTellsTheTurn, Turns
  <2> QED
    BY <2>1, <2>3, <2>4
<1>3. CASE Cancel
  <2>1. HotkeyPart'
    BY <1>3 DEF Cancel, PostClose
  <2>2. TurnPart' /\ UNCHANGED <<audioVars, thread>>
    BY <1>3 DEF Cancel, TurnPart, TurnInv, IdleTellsTheTurn, Turns
  <2> QED
    BY <2>1, <2>2
<1>4. CASE CancelStart \/ HotkeyStopped
  <2>1. main' = [main EXCEPT !.pc = "stopped"] /\ UNCHANGED <<hotkey, audioVars, turn, thread, idle, activation>>
    BY <1>4 DEF CancelStart, HotkeyStopped
  <2>2. HotkeyPart'
    BY <2>1
  <2>3. TurnPart'
    BY <2>1 DEF TurnPart, TurnInv, IdleTellsTheTurn
  <2> QED
    BY <2>1, <2>2, <2>3
<1> QED
  BY <1>1, <1>2, <1>3, <1>4

\* The thread of the hotkey.
LEMMA HotkeySteps ==
  ASSUME HotkeyPart, TurnPart, (WmHotkey /\ HotkeyOnly) \/ HotkeyStep
  PROVE  HotkeyPart' /\ TurnPart' /\ UNCHANGED <<audioVars, thread>>
<1>1. TurnPart' /\ UNCHANGED <<audioVars, thread, main>>
  <2>1. activation \in BOOLEAN
    BY DEF TurnPart
  <2>2. /\ UNCHANGED <<audioVars, main, turn, thread, idle>>
        /\ activation' \in {activation, TRUE}
    BY DEF HotkeyStep, HotkeyOnly, PressRead, PressSet, pipeVars
  <2> QED
    BY <2>1, <2>2, TurnKept
<1> USE DEF HotkeyPart, HotkeyTypeOK, HotkeyInv, StartedMeansListening
<1>2. CASE WmHotkey
  BY <1>1, <1>2 DEF WmHotkey
<1>3. CASE Registers
  BY <1>1, <1>3 DEF Registers
<1>4. CASE RegistrationFails
  BY <1>1, <1>4 DEF RegistrationFails
<1>5. CASE Closes
  BY <1>1, <1>5 DEF Closes
<1>6. CASE PressRead
  BY <1>1, <1>6 DEF PressRead, PressReturns
<1>7. CASE PressSet
  BY <1>1, <1>7 DEF PressSet, PressReturns
<1> QED
  BY <1>1, <1>2, <1>3, <1>4, <1>5, <1>6, <1>7 DEF HotkeyStep

\* The turn.
LEMMA TurnSteps ==
  ASSUME TurnPart, TurnStep
  PROVE  /\ TurnPart' /\ UNCHANGED <<hotkey, audioVars, main>>
         /\ thread'.pc \in {"record", "done"} => thread'.pc = thread.pc
<1> USE DEF TurnPart, Turns, Thread, TurnInv, IdleTellsTheTurn, TurnTo, EndTurn, Start
<1>1. CASE BeginTurn
  BY <1>1 DEF BeginTurn
<1>2. CASE Heard
  BY <1>2 DEF Heard
<1>3. CASE Transcribed
  BY <1>3 DEF Transcribed
<1>4. CASE Responded
  BY <1>4 DEF Responded
<1>5. CASE Warned
  <2>1. CASE turn' = "confirming" /\ thread' = [pc |-> "open", job |-> "confirmation"]
    BY <1>5, <2>1 DEF Warned
  <2>2. CASE turn' = "speaking" /\ thread' = thread
    BY <1>5, <2>2 DEF Warned
  <2> QED
    BY <1>5, <2>1, <2>2 DEF Warned
<1>6. CASE Confirmed
  BY <1>6 DEF Confirmed
<1>7. CASE Spoken
  BY <1>7 DEF Spoken
<1>8. CASE TurnRaises
  BY <1>8 DEF TurnRaises
<1> QED
  BY <1>1, <1>2, <1>3, <1>4, <1>5, <1>6, <1>7, <1>8 DEF TurnStep

\* The thread that listens and records, but for the audio.
LEMMA ThreadSteps ==
  ASSUME TurnPart, ThreadStep
  PROVE  TurnPart' /\ UNCHANGED <<hotkey, main>>
<1> USE DEF TurnPart, Thread, TurnInv, IdleTellsTheTurn, ThreadTo, pipeVars
<1>1. CASE Opened
  BY <1>1 DEF Opened
<1>2. CASE ThreadRaises
  BY <1>2 DEF ThreadRaises
<1>3. CASE Poll
  BY <1>3 DEF Poll
<1>4. CASE ReadFrame
  BY <1>4 DEF ReadFrame
<1>5. CASE Detected
  BY <1>5 DEF Detected
<1>6. CASE Beeped
  BY <1>6 DEF Beeped
<1>7. CASE Record
  BY <1>7 DEF Record
<1>8. CASE EndRecording
  BY <1>8 DEF EndRecording
<1> QED
  BY <1>1, <1>2, <1>3, <1>4, <1>5, <1>6, <1>7, <1>8 DEF ThreadStep

\* A thread at its first recorded frame has a drained stream and no frame yet.
LEMMA RecordingStarted ==
  ASSUME NEW limit \in {MaxFrames, ConfirmFrames}, StartRecording(limit),
         mic' \in [open : BOOLEAN, backlog : {FALSE}], thread'.pc = "record"
  PROVE  AudioInv'
<1>1. AudioTypeOK' /\ SilenceInv'
  BY StartedRecording DEF AudioTypeOK
<1>2. RecordingIsWhole'
  BY StartedRecording DEF RecordingIsWhole
<1> QED
  BY <1>1, <1>2 DEF AudioInv, DrainedInv

\* The audio.
LEMMA AudioSteps ==
  ASSUME IInv, ThreadStep
  PROVE  AudioInv'
<1>1. /\ AudioInv /\ thread \in Thread /\ mic \in [open : BOOLEAN, backlog : BOOLEAN]
      /\ rec \in [frames : Seq(Sounds), limit : {MaxFrames, ConfirmFrames},
                  speech : BOOLEAN, silentRun : 0..SilenceFrames]
  BY InvParts DEF IInv, TypeOK, AudioTypeOK
<1>2. ASSUME rec' = rec, mic' \in [open : BOOLEAN, backlog : BOOLEAN],
             thread'.pc \notin {"record", "done"}
      PROVE  AudioInv'
  BY <1>1, <1>2 DEF AudioInv, AudioTypeOK, SilenceInv, DrainedInv, RecordingIsWhole
<1>3. CASE Opened
  <2>1. CASE thread.job = "activation"
    BY <1>1, <1>2, <1>3, <2>1 DEF Opened, OpenMic, ThreadTo, Thread
  <2>2. CASE thread.job # "activation"
    BY <1>1, <1>3, <2>2, RecordingStarted DEF Opened, OpenMic, ThreadTo, Thread
  <2> QED
    BY <2>1, <2>2
<1>4. CASE ThreadRaises
  BY <1>1, <1>2, <1>4 DEF ThreadRaises, CloseMic, ThreadTo, Thread
<1>5. CASE Poll
  BY <1>1, <1>2, <1>5 DEF Poll, ThreadTo, Thread, audioVars
<1>6. CASE ReadFrame
  BY <1>1, <1>2, <1>6 DEF ReadFrame, ThreadTo, Thread, audioVars
<1>7. CASE Detected
  BY <1>1, <1>2, <1>7 DEF Detected, ThreadTo, Thread, audioVars
<1>8. CASE Beeped
  <2>1. CASE mic.backlog
    BY <1>1, <1>8, <2>1, RecordingStarted DEF Beeped, Drain, ThreadTo, Thread
  <2>2. CASE ~mic.backlog
    BY <1>1, <1>2, <1>8, <2>2 DEF Beeped, Beep
  <2> QED
    BY <2>1, <2>2
<1>9. CASE Record
  <2>1. thread.pc = "record" /\ thread' = thread /\ RecordFrame
    BY <1>9 DEF Record
  <2> QED
    BY <2>1, RecordedFrame DEF AudioInv, DrainedInv, RecordingIsWhole
<1>10. CASE EndRecording
  <2>1. thread.pc = "record" /\ thread'.pc = "done" /\ rec' = rec
        /\ mic' = [open |-> FALSE, backlog |-> FALSE] /\ Recorded
    BY <1>1, <1>10 DEF EndRecording, ThreadTo, CloseMic, Thread
  <2>2. EndsAt(rec.frames, rec.limit)
    BY <2>1, RecordedIsEndsAt DEF IInv
  <2>3. AudioTypeOK' /\ SilenceInv' /\ DrainedInv'
    BY <1>1, <2>1 DEF AudioInv, AudioTypeOK, SilenceInv, DrainedInv
  <2>4. RecordingIsWhole'
    BY <1>1, <2>1, <2>2 DEF AudioInv, RecordingIsWhole
  <2> QED
    BY <2>3, <2>4 DEF AudioInv
<1> QED
  BY <1>3, <1>4, <1>5, <1>6, <1>7, <1>8, <1>9, <1>10 DEF ThreadStep

LEMMA NextInv == IInv /\ [Next]_vars => IInv'
<1> SUFFICES ASSUME IInv, [Next]_vars PROVE IInv'
  OBVIOUS
<1>1. HotkeyPart /\ TurnPart /\ AudioInv
  BY InvParts
<1>2. CASE RunForever \/ HotkeyStarted \/ Cancel \/ CancelStart \/ HotkeyStopped
  <2>1. HotkeyPart' /\ TurnPart' /\ UNCHANGED <<audioVars, thread>>
    BY <1>1, <1>2, MainSteps
  <2> QED
    BY <1>1, <2>1, AudioKept DEF IInv, HotkeyPart, TurnPart, AudioInv, TypeOK
<1>3. CASE (WmHotkey /\ HotkeyOnly) \/ HotkeyStep
  <2>1. HotkeyPart' /\ TurnPart' /\ UNCHANGED <<audioVars, thread>>
    BY <1>1, <1>3, HotkeySteps
  <2> QED
    BY <1>1, <2>1, AudioKept DEF IInv, HotkeyPart, TurnPart, AudioInv, TypeOK
<1>4. CASE ThreadStep
  <2>1. TurnPart' /\ HotkeyPart'
    BY <1>1, <1>4, ThreadSteps, HotkeyKept
  <2>2. AudioInv'
    BY <1>4, AudioSteps
  <2> QED
    BY <2>1, <2>2 DEF IInv, HotkeyPart, TurnPart, AudioInv, TypeOK
<1>5. CASE TurnStep
  <2>1. TurnPart' /\ HotkeyPart'
    BY <1>1, <1>5, TurnSteps, HotkeyKept
  <2>2. AudioInv'
    BY <1>1, <1>5, TurnSteps, AudioKept
  <2> QED
    BY <2>1, <2>2 DEF IInv, HotkeyPart, TurnPart, AudioInv, TypeOK
<1>6. CASE UNCHANGED vars
  <2>1. UNCHANGED <<hotkey, audioVars, main, turn, thread, idle, activation>>
    BY <1>6 DEF vars, pipeVars
  <2>2. HotkeyPart' /\ TurnPart'
    BY <1>1, <2>1, HotkeyKept, TurnKept DEF TurnPart
  <2>3. AudioInv'
    BY <1>1, <2>1, AudioKept
  <2> QED
    BY <2>2, <2>3 DEF IInv, HotkeyPart, TurnPart, AudioInv, TypeOK
<1> QED
  BY <1>2, <1>3, <1>4, <1>5, <1>6 DEF Next, Over

----------------------------------------------------------------------------
(* The theorems. *)

\* A thread works only while the turn waits for it, and what it counts is what
\* it recorded.
THEOREM Invariance == Spec => []IInv
BY InitInv, NextInv, PTL DEF Spec

\* The variables of the pipeline keep their types, for any lengths of silence and
\* of recordings.
THEOREM TypeCorrect == Spec => []TypeOK
<1>1. IInv => TypeOK
  BY DEF IInv
<1> QED
  BY <1>1, Invariance, PTL

\* Once start has returned the hotkey is seen until the pipeline stops.
THEOREM Listening == Spec => []StartedMeansListening
<1>1. IInv => StartedMeansListening
  BY DEF IInv
<1> QED
  BY <1>1, Invariance, PTL

\* _idle is set exactly while nothing was activated, whatever raises.
THEOREM IdleTells == Spec => []IdleTellsTheTurn
<1>1. IInv => IdleTellsTheTurn
  BY DEF IInv
<1> QED
  BY <1>1, Invariance, PTL

\* A recording of any length ends at the first silence after speech or at its
\* limit, and the beep is not in it.
THEOREM Whole == Spec => []RecordingIsWhole
<1>1. IInv => RecordingIsWhole
  BY DEF IInv
<1> QED
  BY <1>1, Invariance, PTL

=============================================================================

--------------------------- MODULE VoicePipeline ---------------------------
(***************************************************************************)
(* VoicePipeline: run_forever (the event loop), the thread that listens    *)
(* and records for it (asyncio.to_thread), and the hotkey's thread.  The   *)
(* three share two threading.Events, _idle and _hotkey_activation.  The    *)
(* consumer of the routines, the other task of run_forever, is             *)
(* RoutineDelivery.                                                        *)
(*                                                                         *)
(* The API and the speech providers are what they can answer: a text or    *)
(* none, a response that asks for a confirmation or not, an exception.     *)
(***************************************************************************)
EXTENDS HotkeyListener, AudioIO

VARIABLES
  main,         \* where run_forever is, and whether it keeps a listener
  turn,         \* the await of run_once
  thread,       \* where the thread of to_thread is, and which job it has
  idle,         \* _idle
  activation    \* _hotkey_activation

audioVars == <<mic, rec>>
pipeVars == <<main, turn, idle, activation>>
vars == <<hotkey, audioVars, pipeVars, thread>>

----------------------------------------------------------------------------
(* State. *)

Main == [pc : {"off", "starting", "turns", "unhook", "stopped"}, listener : BOOLEAN]

Turns == {"none", "begin", "listening", "transcribing", "posting", "warning", "confirming",
          "hearing", "posting confirmation", "speaking"}

Thread == [pc : {"none", "open", "poll", "read", "detected", "beep", "record", "close",
                 "done", "failed"},
           job : {"activation", "confirmation"}]

TypeOK ==
  /\ HotkeyTypeOK /\ AudioTypeOK
  /\ main \in Main /\ turn \in Turns /\ thread \in Thread
  /\ idle \in BOOLEAN /\ activation \in BOOLEAN

Init ==
  /\ HotkeyInit /\ AudioInit
  /\ main = [pc |-> "off", listener |-> Combo # <<>>]
  /\ turn = "none"
  /\ thread = [pc |-> "none", job |-> "activation"]
  /\ idle = TRUE /\ activation = FALSE

----------------------------------------------------------------------------
(* run_forever. *)

RunForever ==
  /\ main.pc = "off"
  /\ IF main.listener
     THEN StartThread /\ main' = [main EXCEPT !.pc = "starting"] /\ UNCHANGED turn
     ELSE main' = [main EXCEPT !.pc = "turns"] /\ turn' = "begin" /\ UNCHANGED hotkey
  /\ UNCHANGED <<audioVars, thread, idle, activation>>

\* The listener is kept, or given up for good, whatever its thread does later.
HotkeyStarted ==
  /\ main.pc = "starting"
  /\ \/ StartReturns /\ main' = [main EXCEPT !.pc = "turns"]
     \/ StartRaises /\ main' = [pc |-> "turns", listener |-> FALSE]
  /\ turn' = "begin"
  /\ UNCHANGED <<hotkey, audioVars, thread, idle, activation>>

\* The task is cancelled at the await it is at: the finally of run_once, then
\* the one of run_forever.  The thread it waited for goes on.
Cancel ==
  /\ main.pc = "turns" /\ turn # "begin"
  /\ idle' = TRUE /\ turn' = "none"
  /\ main' = [main EXCEPT !.pc = IF main.listener THEN "unhook" ELSE "stopped"]
  /\ IF main.listener THEN PostClose ELSE UNCHANGED hotkey
  /\ UNCHANGED <<audioVars, thread, activation>>

\* Cancelled while start waits: nothing of the finally is reached.
CancelStart ==
  /\ main.pc = "starting"
  /\ main' = [main EXCEPT !.pc = "stopped"]
  /\ UNCHANGED <<hotkey, audioVars, turn, thread, idle, activation>>

\* The join of stop, which waits five seconds at most.
HotkeyStopped ==
  /\ main.pc = "unhook"
  /\ main' = [main EXCEPT !.pc = "stopped"]
  /\ UNCHANGED <<hotkey, audioVars, turn, thread, idle, activation>>

----------------------------------------------------------------------------
(* The thread of the hotkey. *)

HotkeyOnly == UNCHANGED <<audioVars, pipeVars, thread>>

\* _on_hotkey_press reads _idle, and a busy pipeline ignores the press.
PressRead ==
  /\ hotkey.pc = "pressed"
  /\ IF idle THEN hotkey' = [hotkey EXCEPT !.pc = "seen"] ELSE PressReturns
  /\ HotkeyOnly

PressSet ==
  /\ hotkey.pc = "seen"
  /\ activation' = TRUE
  /\ PressReturns
  /\ UNCHANGED <<audioVars, main, turn, thread, idle>>

HotkeyStep == ((Registers \/ RegistrationFails \/ Closes) /\ HotkeyOnly) \/ PressRead \/ PressSet

----------------------------------------------------------------------------
(* _listen_for_activation_sync and _record_utterance_sync. *)

Start(job) == thread' = [pc |-> "open", job |-> job]
ThreadTo(pc) == thread' = [thread EXCEPT !.pc = pc]

\* `with self.listener`: a confirmation is recorded at once.
Opened ==
  /\ thread.pc = "open"
  /\ OpenMic
  /\ IF thread.job = "activation" THEN ThreadTo("poll") /\ UNCHANGED rec
     ELSE ThreadTo("record") /\ StartRecording(ConfirmFrames)
  /\ UNCHANGED <<hotkey, pipeVars>>

\* open, a read, the model or a beep raises: the stream is closed.
ThreadRaises ==
  /\ thread.pc \in {"open", "read", "beep", "record"}
  /\ ThreadTo("failed") /\ CloseMic
  /\ UNCHANGED <<hotkey, rec, pipeVars>>

\* Mutated: the event is cleared before it is looked at.
Mut_Poll ==
  /\ thread.pc = "poll"
  /\ activation' = FALSE
  /\ ThreadTo("read")
  /\ UNCHANGED <<hotkey, audioVars, main, turn, idle>>

\* The hotkey is looked at before each frame, and its event is cleared.
Poll ==
  /\ thread.pc = "poll"
  /\ activation' = FALSE
  /\ ThreadTo(IF activation THEN "detected" ELSE "read")
  /\ UNCHANGED <<hotkey, audioVars, main, turn, idle>>

\* process_frame finds a wake word, or none.
ReadFrame ==
  /\ thread.pc = "read"
  /\ ThreadTo("poll") \/ ThreadTo("detected")
  /\ UNCHANGED <<hotkey, audioVars, pipeVars>>

\* Mutated: only once the recording is over is the pipeline busy.
Mut_Detected ==
  /\ thread.pc = "detected"
  /\ ThreadTo("beep")
  /\ UNCHANGED <<hotkey, audioVars, pipeVars>>

Detected ==
  /\ thread.pc = "detected"
  /\ idle' = FALSE
  /\ ThreadTo("beep")
  /\ UNCHANGED <<hotkey, audioVars, main, turn, activation>>

\* The beep is over, nobody read the stream meanwhile: it is drained.
Beeped ==
  /\ thread.pc = "beep"
  /\ IF mic.backlog
     THEN Drain /\ ThreadTo("record") /\ StartRecording(MaxFrames)
     ELSE Beep /\ UNCHANGED <<thread, rec>>
  /\ UNCHANGED <<hotkey, pipeVars>>

Record ==
  /\ thread.pc = "record"
  /\ RecordFrame
  /\ UNCHANGED <<hotkey, pipeVars, thread>>

\* The recording is handed to the pipeline, after the second beep.
EndRecording ==
  /\ thread.pc = "record" /\ Recorded
  /\ ThreadTo("done") /\ CloseMic
  /\ UNCHANGED <<hotkey, rec, pipeVars>>

ThreadStep ==
  \/ Opened \/ ThreadRaises \/ Poll \/ ReadFrame \/ Detected \/ Beeped \/ Record
  \/ EndRecording

----------------------------------------------------------------------------
(* run_once and _handle_confirmation. *)

TurnTo(p) == turn' = p

\* A new turn starts as soon as the last one is over.
BeginTurn ==
  /\ main.pc = "turns" /\ turn = "begin"
  /\ TurnTo("listening") /\ Start("activation")
  /\ UNCHANGED <<hotkey, audioVars, main, idle, activation>>

\* The thread returned the audio of the utterance or of the confirmation.
Heard ==
  /\ turn \in {"listening", "confirming"} /\ thread.pc = "done"
  /\ TurnTo(IF turn = "listening" THEN "transcribing" ELSE "hearing")
  /\ UNCHANGED <<hotkey, audioVars, main, thread, idle, activation>>

\* A text goes to POST /message; nothing intelligible is told and that is all.
Transcribed ==
  /\ turn = "transcribing"
  /\ TurnTo("posting") \/ TurnTo("speaking")
  /\ UNCHANGED <<hotkey, audioVars, main, thread, idle, activation>>

Responded ==
  /\ turn = "posting"
  /\ TurnTo("warning") \/ TurnTo("speaking")
  /\ UNCHANGED <<hotkey, audioVars, main, thread, idle, activation>>

\* The warning is spoken: without a confirmation_id there is nothing to confirm.
Warned ==
  /\ turn = "warning"
  /\ \/ TurnTo("confirming") /\ Start("confirmation")
     \/ TurnTo("speaking") /\ UNCHANGED thread
  /\ UNCHANGED <<hotkey, audioVars, main, idle, activation>>

\* What was heard goes to POST /message/confirm, and its answer is spoken.
Confirmed ==
  /\ turn \in {"hearing", "posting confirmation"}
  /\ TurnTo(IF turn = "hearing" THEN "posting confirmation" ELSE "speaking")
  /\ UNCHANGED <<hotkey, audioVars, main, thread, idle, activation>>

\* Mutated: an exception leaves the pipeline busy.
Mut_EndTurn == turn' = "begin" /\ UNCHANGED idle

\* The finally of run_once.
EndTurn == turn' = "begin" /\ idle' = TRUE

Spoken ==
  /\ turn = "speaking"
  /\ EndTurn
  /\ UNCHANGED <<hotkey, audioVars, main, thread, activation>>

\* Whatever raises - the thread, a provider, the API, the player - is logged.
TurnRaises ==
  /\ \/ turn \in {"listening", "confirming"} /\ thread.pc = "failed"
     \/ turn \in Turns \ {"none", "begin", "listening", "confirming"}
  /\ EndTurn
  /\ UNCHANGED <<hotkey, audioVars, main, thread, activation>>

TurnStep ==
  \/ BeginTurn \/ Heard \/ Transcribed \/ Responded \/ Warned \/ Confirmed \/ Spoken
  \/ TurnRaises

----------------------------------------------------------------------------
(* The specification. *)

\* After the end a thread may still wait for an activation, and the process
\* with it.
Over == main.pc = "stopped" /\ UNCHANGED vars

Next ==
  \/ RunForever \/ HotkeyStarted \/ Cancel \/ CancelStart \/ HotkeyStopped
  \/ (WmHotkey /\ HotkeyOnly) \/ HotkeyStep \/ ThreadStep \/ TurnStep \/ Over

\* Threads and tasks go on; nobody has to press, to speak or to cancel.  A
\* microphone that cannot be opened now can be at some later attempt.
Fairness ==
  /\ WF_vars(RunForever) /\ WF_vars(HotkeyStarted) /\ WF_vars(HotkeyStopped)
  /\ WF_vars(HotkeyStep) /\ WF_vars(ThreadStep) /\ WF_vars(TurnStep)
  /\ SF_vars(Opened)

Spec == Init /\ [][Next]_vars
FairSpec == Spec /\ Fairness

----------------------------------------------------------------------------
(* Properties. *)

\* Once start has returned without an exception a press of the hotkey is seen,
\* until the pipeline stops (hotkey_listener.py:167).
StartedMeansListening ==
  main.pc = "turns" /\ main.listener => hotkey.pc \in {"pumping", "pressed", "seen"}

\* While the loop runs, _idle tells which presses count: it is set until an
\* activation is detected, and clear from the first beep until the turn is over,
\* while the utterance is recorded too (pipeline.py:121-130, 176-179).
IdleTellsTheTurn ==
  main.pc = "turns" =>
    /\ turn = "begin" => idle
    /\ turn = "listening" /\ thread.pc \in {"open", "poll", "read", "detected"} => idle
    /\ turn = "listening" /\ thread.pc \in {"beep", "record", "done"} => ~idle
    /\ turn \notin {"none", "begin", "listening"} => ~idle

\* A recording ends with the first silence after speech or at its limit, no
\* earlier and no later, and has nothing of the beep in it (audio_io.py:220).
RecordingIsWhole ==
  thread.pc \in {"record", "done"} =>
    /\ \A i \in 1..Len(rec.frames) : rec.frames[i] # "beep"
    /\ \A n \in 0..(Len(rec.frames) - 1) : ~EndsAt(SubSeq(rec.frames, 1, n), rec.limit)
    /\ thread.pc = "done" => EndsAt(rec.frames, rec.limit)

\* A press that was accepted starts a turn, the next one or the one after it
\* (pipeline.py:183).
PressStartsATurn ==
  activation /\ main.pc = "turns" ~>
    (thread.pc = "detected" /\ ~activation) \/ main.pc # "turns"

\* A busy pipeline is idle again in the end, whatever fails in the turn
\* (pipeline.py:306).
TurnsEnd == ~idle /\ main.pc = "turns" ~> idle \/ main.pc # "turns"

=============================================================================

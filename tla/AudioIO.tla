------------------------------ MODULE AudioIO ------------------------------
(***************************************************************************)
(* MicrophoneListener and record_until_silence.  A frame is what its       *)
(* energy says, "loud" or "quiet", or the pipeline's own "beep", which is  *)
(* as loud as speech.  The stream goes on while nobody reads it: `backlog` *)
(* says that it holds what it captured during the beep.                    *)
(***************************************************************************)
EXTENDS Naturals, Sequences

CONSTANTS
  SilenceFrames,   \* silence_duration_seconds, in frames, at least one
  MaxFrames,       \* max_utterance_seconds, in frames, at least one
  ConfirmFrames    \* confirmation_timeout_seconds, in frames, at least one

ASSUME AudioAssumption ==
  {SilenceFrames, MaxFrames, ConfirmFrames} \subseteq Nat \ {0}

VARIABLES
  mic,   \* whether the stream is open, and its backlog
  rec    \* the locals of record_until_silence

Sounds == {"loud", "quiet", "beep"}

AudioTypeOK ==
  /\ mic \in [open : BOOLEAN, backlog : BOOLEAN]
  /\ rec \in [frames : Seq(Sounds), limit : {MaxFrames, ConfirmFrames},
              speech : BOOLEAN, silentRun : 0..SilenceFrames]
  /\ Len(rec.frames) <= rec.limit

NoRecording(limit) == [frames |-> <<>>, limit |-> limit, speech |-> FALSE, silentRun |-> 0]

AudioInit ==
  /\ mic = [open |-> FALSE, backlog |-> FALSE]
  /\ rec = NoRecording(MaxFrames)

OpenMic == mic' = [open |-> TRUE, backlog |-> FALSE]
CloseMic == mic' = [open |-> FALSE, backlog |-> FALSE]
Beep == mic' = [mic EXCEPT !.backlog = TRUE]

\* Mutated: the stream is read as it is.
Mut_Drain == UNCHANGED mic

\* drain: what was captured so far is discarded.
Drain == mic' = [mic EXCEPT !.backlog = FALSE]

StartRecording(limit) == rec' = NoRecording(limit)

\* Silence counts only after speech, and from zero after each loud frame.
SilentRun(sound) ==
  IF sound # "quiet" THEN 0 ELSE IF rec.speech THEN rec.silentRun + 1 ELSE rec.silentRun

\* Mutated: the limit is forgotten.
Mut_Recorded == rec.silentRun >= SilenceFrames

\* The loop of record_until_silence is over.
Recorded == Len(rec.frames) >= rec.limit \/ rec.silentRun >= SilenceFrames

\* One frame: from the backlog first.
RecordFrame ==
  /\ mic.open /\ ~Recorded
  /\ \E sound \in IF mic.backlog THEN {"beep"} ELSE {"loud", "quiet"} :
       rec' = [rec EXCEPT !.frames = Append(@, sound), !.speech = @ \/ sound # "quiet",
                          !.silentRun = SilentRun(sound)]
  /\ mic' = [mic EXCEPT !.backlog = FALSE]

\* A reference for the above: where a recording of these frames has to end.
EndsAt(f, limit) ==
  \/ Len(f) = limit
  \/ /\ \E i \in 1..(Len(f) - SilenceFrames) : f[i] # "quiet"
     /\ \A i \in 1..Len(f) : i > Len(f) - SilenceFrames => f[i] = "quiet"

=============================================================================

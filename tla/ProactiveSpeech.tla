-------------------------- MODULE ProactiveSpeech --------------------------
(***************************************************************************)
(* RoutineManager and the voice process with the stream between them: what *)
(* check_due publishes is what the consumer reads, and one clock tells     *)
(* both when an occurrence is too old.  (Two machines with two clocks are  *)
(* not considered: both processes run on one PC.)                          *)
(***************************************************************************)
EXTENDS Naturals, Sequences, FiniteSets

CONSTANTS
  NumRoutines, OnStartup, Due, Steps, MaxStaleness, MaxTime,
  NumMessages, MaxLen, BatchSize, ReplayCount

VARIABLES
  clock, loadedAt, lastFired, pending, firedOnStartup, check, stream, took, resolved,
  trimmed, delivered, pel, consumer, heard, dropped

Manager == INSTANCE Routines

\* Mutated: the consumer works it out from what it knows of the routine.
Mut_ValidUntil(m) == lastFired[stream[m].routine] + MaxStaleness

\* valid_until, which travels in the payload, is occurrence + max staleness.
ValidUntil(m) == stream[m].occ + MaxStaleness

Voice == INSTANCE RoutineDelivery WITH
  written <- Len(stream),
  expired <- {m \in 1..Len(stream) : clock > ValidUntil(m)}

\* What the two processes assume of their constants.
ASSUME SpeechAssumption == Manager!RoutinesAssumption /\ Voice!DeliveryAssumption

managerVars == <<clock, loadedAt, lastFired, pending, firedOnStartup, check, stream,
                 took, resolved>>
voiceVars == <<delivered, pel, consumer, heard, dropped>>

vars == <<managerVars, trimmed, voiceVars>>

----------------------------------------------------------------------------

Init == Manager!Init /\ Voice!Init

\* The process of the API: its XADD also trims the stream.
ManagerStep ==
  /\ Manager!Next
  /\ Len(stream') <= NumMessages
  /\ IF stream' = stream THEN UNCHANGED trimmed ELSE Voice!Trims(Len(stream'))
  /\ UNCHANGED voiceVars

VoiceStep ==
  /\ UNCHANGED managerVars
  /\ Voice!Voice

Next == ManagerStep \/ VoiceStep

Spec == Init /\ [][Next]_vars

\* The fairness of the voice process; the routines need none for what follows.
FairSpec == Spec /\ Voice!Fairness
----------------------------------------------------------------------------
(* Properties. *)

\* Seen from the voice process, RoutineManager is a publisher as that module
\* assumes: one entry at a time, never removed, and never valid again once its
\* valid_until is over.
DeliverySpec == Voice!Spec

\* A sentence is heard only after every step in front of it in its chain has
\* succeeded, however often the chain was started again and the sentence
\* delivered again.
HeardInTurn ==
  \A m \in heard :
    /\ m \in 1..Len(stream)
    /\ \A i \in 1..(stream[m].step - 1) : [stream[m] EXCEPT !.step = i] \in took

\* What a routine completed is what the user gets: each sentence of its chain is
\* spoken, or is given up once it is too late or cannot be said, or was pushed
\* out of the stream; but for what comes after an entry the consumer died of,
\* one that was pushed out while it waited for its confirmation.
DoneIsSaid ==
  \A r \in Manager!Routines : \A k \in Due[r] : \A i \in 1..Len(Steps[r]) :
    LET said == \E m \in 1..Len(stream) :
                  /\ stream[m] = [routine |-> r, occ |-> k, step |-> i]
                  /\ m \in heard \cup dropped \/ m <= trimmed
    IN  Steps[r][i] = "speak" =>
          ([occ |-> k, how |-> "done"] \in {resolved[r][j] : j \in 1..Len(resolved[r])}
           ~> said \/ consumer.pc = "dead")

============================================================================

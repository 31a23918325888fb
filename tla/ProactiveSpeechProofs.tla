----------------------- MODULE ProactiveSpeechProofs -----------------------
(***************************************************************************)
(* RoutineManager is the publisher that the delivery assumes, whatever the *)
(* routines are and however long the stream: so what is proved of each     *)
(* process holds of the two together, and what a chain says is heard in    *)
(* its turn and not lost.                                                  *)
(***************************************************************************)
EXTENDS ProactiveSpeech, SequenceTheorems, TLAPS

\* The entries whose valid_until is over.
TooLate == {m \in 1..Len(stream) : clock > ValidUntil(m)}

\* The two processes with what is proved of each.
Settling == INSTANCE RoutinesProofs

Hearing == INSTANCE RoutineDeliveryProofs WITH written <- Len(stream), expired <- TooLate

----------------------------------------------------------------------------
(* The modules with the proofs speak of the same processes. *)

\* RoutineManager.
LEMMA SameManager ==
  /\ Manager!Init <=> Settling!Init
  /\ Manager!Next <=> Settling!Next
  /\ Manager!vars = Settling!vars
<1>1. Manager!Init <=> Settling!Init
  BY DEF Manager!Init, Settling!Init, Manager!Routines, Settling!Routines,
         Manager!Asleep, Settling!Asleep
<1>2. Manager!Next <=> Settling!Next
  BY
  DEF Manager!Routines, Settling!Routines, Manager!state, Settling!state,
      Manager!Asleep, Settling!Asleep, Manager!Tick, Settling!Tick, Manager!Restart,
      Settling!Restart, Manager!StartCheck, Settling!StartCheck, Manager!NextRoutine,
      Settling!NextRoutine, Manager!Anchor, Settling!Anchor, Manager!GetNext,
      Settling!GetNext, Manager!Occurrence, Settling!Occurrence, Manager!Owed,
      Settling!Owed, Manager!Stale, Settling!Stale, Manager!Resolve, Settling!Resolve,
      Manager!NotDue, Settling!NotDue, Manager!Discard, Settling!Discard,
      Manager!BecomesDue, Settling!BecomesDue, Manager!Evaluate, Settling!Evaluate,
      Manager!At, Settling!At, Manager!ThisEffect, Settling!ThisEffect,
      Manager!Publishes, Settling!Publishes, Manager!StepDone, Settling!StepDone,
      Manager!SpeakPublished, Settling!SpeakPublished, Manager!AgentSucceeds,
      Settling!AgentSucceeds, Manager!RetryLater, Settling!RetryLater,
      Manager!SpeakFails, Settling!SpeakFails, Manager!AgentFails,
      Settling!AgentFails, Manager!AgentRefused, Settling!AgentRefused,
      Manager!Completed, Settling!Completed, Manager!Execute, Settling!Execute,
      Manager!Next, Settling!Next
<1>3. Manager!vars = Settling!vars
  BY DEF Manager!vars, Settling!vars, Manager!state, Settling!state
<1> QED
  BY <1>1, <1>2, <1>3

\* The bus and the voice process.
LEMMA SameVoice ==
  /\ Voice!Init <=> Hearing!Init
  /\ Voice!Next <=> Hearing!Next
  /\ Voice!Voice <=> Hearing!Voice
  /\ Voice!vars = Hearing!vars
<1>1. Voice!Init <=> Hearing!Init
  BY DEF Voice!Init, Hearing!Init, TooLate, Voice!Fresh, Hearing!Fresh
<1>2. Voice!Voice <=> Hearing!Voice
  <2>1. Voice!Oldest(pel, ReplayCount) = Hearing!Oldest(pel, ReplayCount)
    BY Zenon DEF Voice!Cardinality, Hearing!Cardinality, Voice!Oldest, Hearing!Oldest
  <2>2. /\ Voice!Undelivered = Hearing!Undelivered
        /\ Voice!Oldest(Voice!Undelivered, BatchSize)
           = Hearing!Oldest(Hearing!Undelivered, BatchSize)
    BY Zenon
    DEF Voice!Cardinality, Hearing!Cardinality, Voice!Oldest, Hearing!Oldest,
        Voice!Undelivered, Hearing!Undelivered
  <2>3. Voice!Connect <=> Hearing!Connect
    BY DEF TooLate, Voice!Connect, Hearing!Connect, Voice!Goto, Hearing!Goto
  <2>4. Voice!ReadOwn <=> Hearing!ReadOwn
    BY Zenon, <2>1 DEF TooLate, Voice!ReadOwn, Hearing!ReadOwn
  <2>5. Voice!ReadNew <=> Hearing!ReadNew
    BY Zenon, <2>2 DEF TooLate, Voice!ReadNew, Hearing!ReadNew, Voice!Hand, Hearing!Hand
  <2>6. Voice!RedisFails <=> Hearing!RedisFails
    BY
    DEF TooLate, Voice!RedisFails, Hearing!RedisFails, Voice!Reconnect,
        Hearing!Reconnect, Voice!Fresh, Hearing!Fresh
  <2>7. Voice!ReplyLost <=> Hearing!ReplyLost
    BY Zenon, <2>2
    DEF TooLate, Voice!ReplyLost, Hearing!ReplyLost, Voice!Hand, Hearing!Hand,
        Voice!Reconnect, Hearing!Reconnect, Voice!Fresh, Hearing!Fresh
  <2>8. Voice!Yield <=> Hearing!Yield
    BY
    DEF TooLate, Voice!Yield, Hearing!Yield, Voice!YieldMessage,
        Hearing!YieldMessage, Voice!YieldRaises, Hearing!YieldRaises, Voice!Yields,
        Hearing!Yields, Voice!Goto, Hearing!Goto, Voice!Messages, Hearing!Messages
  <2>9. Voice!BatchDone <=> Hearing!BatchDone
    BY DEF TooLate, Voice!BatchDone, Hearing!BatchDone, Voice!Fresh, Hearing!Fresh
  <2>10. Voice!Finish <=> Hearing!Finish
    BY
    DEF TooLate, Voice!Finish, Hearing!Finish, Voice!Speak, Hearing!Speak,
        Voice!GiveUp, Hearing!GiveUp, Voice!Goto, Hearing!Goto
  <2>11. Voice!Ack <=> Hearing!Ack
    BY DEF TooLate, Voice!Ack, Hearing!Ack, Voice!Goto, Hearing!Goto
  <2>12. Voice!AckFails <=> Hearing!AckFails
    BY DEF TooLate, Voice!AckFails, Hearing!AckFails, Voice!Goto, Hearing!Goto
  <2>13. Voice!Crash <=> Hearing!Crash
    BY DEF TooLate, Voice!Crash, Hearing!Crash, Voice!Fresh, Hearing!Fresh
  <2> QED
    BY <2>3, <2>4, <2>5, <2>6, <2>7, <2>8, <2>9, <2>10, <2>11, <2>12, <2>13
    DEF Voice!Voice, Hearing!Voice
<1>3. Voice!Next <=> Hearing!Next
  BY <1>2 DEF Voice!Next, Hearing!Next, TooLate, Voice!Publish, Hearing!Publish,
      Voice!Expire, Hearing!Expire, Voice!Trims, Hearing!Trims
<1>4. Voice!vars = Hearing!vars
  BY DEF Voice!vars, Hearing!vars, TooLate
<1> QED
  BY <1>1, <1>2, <1>3, <1>4

----------------------------------------------------------------------------
(* The manager in the composition. *)

\* Each step of the composition is one of RoutineManager, or leaves it alone.
LEMMA ManagerBehaves == Spec => Settling!Spec
<1>1. Init => Settling!Init
  BY SameManager DEF Init
<1>2. [Next]_vars => [Settling!Next]_(Settling!vars)
  BY SameManager
  DEF Next, vars, managerVars, ManagerStep, VoiceStep, Settling!vars, Settling!state
<1> QED
  BY <1>1, <1>2, PTL DEF Spec, Settling!Spec

\* The two processes run with constants they are proved for.
LEMMA ConstantsAreGood == Settling!RoutinesAssumption /\ Hearing!DeliveryAssumption
BY SpeechAssumption
DEF Manager!RoutinesAssumption, Settling!RoutinesAssumption, Manager!Routines,
    Settling!Routines, Manager!Times, Settling!Times, Manager!Kinds, Settling!Kinds,
    Voice!DeliveryAssumption, Hearing!DeliveryAssumption

\* So all that is proved of RoutineManager holds in the composition.
LEMMA ManagerInvariance == Spec => []Settling!IInv
<1>1. Settling!Spec => []Settling!IInv
  BY ConstantsAreGood, Settling!Invariance
<1> QED
  BY <1>1, ManagerBehaves, PTL

\* What a step of RoutineManager does to the clock, the stream and the effects:
\* XADD is for a step that speaks, and has happened when the step has succeeded.
LEMMA ManagerEffect ==
  ASSUME Settling!IInv, Manager!Next
  PROVE  LET r == check.routine
             e == Settling!ThisEffect(r)
         IN  \/ UNCHANGED <<stream, took>> /\ clock' \in {clock, clock + 1}
             \/ /\ UNCHANGED clock
                /\ check.pc = "execute"
                /\ \/ /\ stream' = Append(stream, e)
                      /\ took' \in {took, took \cup {e}}
                   \/ /\ Settling!At(r, "agent")
                      /\ UNCHANGED stream
                      /\ took' = took \cup {e}
<1> DEFINE r == check.routine
           e == Settling!ThisEffect(r)
<1>1. Settling!Next
  BY SameManager
<1>2. CASE Settling!Tick
  BY <1>2 DEF Settling!Tick
<1>3. CASE Settling!Restart
  BY <1>3 DEF Settling!Restart
<1>4. CASE Settling!StartCheck
  BY <1>4 DEF Settling!StartCheck
<1>5. CASE Settling!Evaluate
  BY <1>5 DEF Settling!Evaluate, Settling!NotDue, Settling!Discard, Settling!BecomesDue
<1>6. CASE Settling!Execute
  <2>1. check.pc = "execute"
    BY <1>6 DEF Settling!Execute
  <2>2. CASE Settling!SpeakPublished(r)
    BY <2>1, <2>2 DEF Settling!SpeakPublished, Settling!Publishes, Settling!StepDone
  <2>3. CASE Settling!AgentSucceeds(r)
    BY <2>1, <2>3 DEF Settling!AgentSucceeds, Settling!StepDone
  <2>4. CASE Settling!SpeakFails(r)
    BY <2>1, <2>4 DEF Settling!SpeakFails, Settling!Publishes
  <2>5. CASE Settling!AgentFails(r) \/ Settling!AgentRefused(r) \/ Settling!Completed(r)
    BY <2>5 DEF Settling!AgentFails, Settling!AgentRefused, Settling!Completed
  <2> QED
    BY <1>6, <2>2, <2>3, <2>4, <2>5 DEF Settling!Execute
<1> QED
  BY <1>1, <1>2, <1>3, <1>4, <1>5, <1>6 DEF Settling!Next

----------------------------------------------------------------------------
(* The manager as a publisher. *)

\* An entry that is appended is the last one, and it may be too late already;
\* the others are as late as they were.
LEMMA AppendLate ==
  ASSUME Settling!IInv, NEW e \in Settling!Effect,
         stream' = Append(stream, e), UNCHANGED clock
  PROVE  /\ Len(stream) \in Nat /\ Len(stream') = Len(stream) + 1
         /\ TooLate' \in {TooLate, TooLate \cup {Len(stream) + 1}}
<1>1. stream \in Seq(Settling!Effect)
  BY DEF Settling!IInv, Settling!TypeOK
<1>2. /\ Len(stream) \in Nat /\ Len(stream') = Len(stream) + 1
      /\ \A m \in 1..Len(stream) : stream'[m] = stream[m]
  BY <1>1, AppendProperties, LenProperties
<1>3. \A m \in 1..Len(stream) : m \in TooLate' <=> m \in TooLate
  BY <1>2 DEF TooLate, ValidUntil
<1>4. TooLate' \subseteq 1..(Len(stream) + 1) /\ TooLate \subseteq 1..Len(stream)
  BY <1>2 DEF TooLate
<1> QED
  <2> DEFINE n == Len(stream)
  <2>1. n \in Nat /\ 1..(n + 1) = (1..n) \cup {n + 1} /\ n + 1 \notin 1..n
    BY <1>2
  <2>2. n + 1 \in TooLate' => TooLate' = TooLate \cup {n + 1}
    BY <1>3, <1>4, <2>1
  <2>3. n + 1 \notin TooLate' => TooLate' = TooLate
    BY <1>3, <1>4, <2>1
  <2> QED
    BY <1>2, <2>2, <2>3

\* What is too late stays too late.
LEMMA LaterIsLate ==
  ASSUME Settling!IInv, UNCHANGED stream, clock' \in {clock, clock + 1}
  PROVE  TooLate \subseteq TooLate' /\ TooLate' \subseteq 1..Len(stream)
<1>1. stream \in Seq(Settling!Effect) /\ clock \in Nat
  BY DEF Settling!IInv, Settling!TypeOK, Settling!Times
<1>2. MaxStaleness \in Nat
  BY SpeechAssumption DEF Manager!RoutinesAssumption
<1>3. ASSUME NEW m \in 1..Len(stream) PROVE ValidUntil(m) \in Nat
  <2>1. stream[m] \in Settling!Effect
    BY <1>1, ElementOfSeq
  <2> QED
    BY <1>2, <2>1 DEF ValidUntil, Settling!Effect, Settling!Times
<1>4. ASSUME NEW m \in 1..Len(stream), clock > ValidUntil(m) PROVE clock' > ValidUntil(m)
  <2>1. ValidUntil(m) \in Nat
    BY <1>3
  <2> QED
    BY <1>1, <1>4, <2>1
<1>5. \A m : ValidUntil(m)' = ValidUntil(m)
  BY DEF ValidUntil
<1> QED
  BY <1>4, <1>5 DEF TooLate

\* Each step of the composition is one of the delivery, or a stutter of it.
LEMMA DeliveryStep ==
  ASSUME Settling!IInv, [Next]_vars
  PROVE  [Voice!Next]_(Voice!vars)
<1>1. CASE ManagerStep
  <2>1. Manager!Next /\ Len(stream') <= NumMessages /\ UNCHANGED voiceVars
    BY <1>1 DEF ManagerStep
  <2>2. CASE UNCHANGED stream
    <3>1. UNCHANGED trimmed
      BY <1>1, <2>2 DEF ManagerStep
    <3>2. clock' \in {clock, clock + 1}
      BY <2>1, ManagerEffect
    <3>3. TooLate \subseteq TooLate' /\ TooLate' \subseteq 1..Len(stream)
      BY <2>2, <3>2, LaterIsLate
    <3>4. CASE TooLate' = TooLate
      BY <2>1, <2>2, <3>1, <3>4 DEF voiceVars, Voice!vars, TooLate
    <3>5. CASE TooLate' # TooLate
      <4> DEFINE S == TooLate' \ TooLate
      <4>1. S # {} /\ S \in SUBSET ((1..Len(stream)) \ TooLate) /\ TooLate' = TooLate \cup S
        BY <3>3, <3>5
      <4> HIDE DEF S
      <4>2. Voice!Expire(S)
        BY <2>1, <2>2, <3>1, <4>1 DEF Voice!Expire, TooLate, voiceVars
      <4> QED
        BY <4>1, <4>2 DEF Voice!Next, TooLate
    <3> QED
      BY <3>4, <3>5
  <2>3. CASE ~ UNCHANGED stream
    <3> DEFINE e == Settling!ThisEffect(check.routine)
    <3>1. UNCHANGED clock /\ check.pc = "execute" /\ stream' = Append(stream, e)
      BY <2>1, <2>3, ManagerEffect
    <3>2. e \in Settling!Effect
      BY <3>1, ConstantsAreGood, Settling!ExecutedIsOpen
    <3> HIDE DEF e
    <3>3. /\ Len(stream) \in Nat /\ Len(stream') = Len(stream) + 1
          /\ TooLate' \in {TooLate, TooLate \cup {Len(stream) + 1}}
      BY <3>1, <3>2, AppendLate
    <3>4. NumMessages \in Nat /\ Len(stream) < NumMessages
      BY <2>1, <3>3, ConstantsAreGood DEF Hearing!DeliveryAssumption
    <3>5. Voice!Trims(Len(stream) + 1)
      BY <1>1, <2>3, <3>3 DEF ManagerStep
    <3>6. Voice!Publish
      BY <2>1, <3>3, <3>4, <3>5 DEF Voice!Publish, TooLate, voiceVars
    <3> QED
      BY <3>6 DEF Voice!Next
  <2> QED
    BY <2>2, <2>3
<1>2. CASE VoiceStep
  BY <1>2 DEF VoiceStep, Voice!Next
<1>3. CASE UNCHANGED vars
  BY <1>3 DEF vars, managerVars, voiceVars, Voice!vars, ValidUntil
<1> QED
  BY <1>1, <1>2, <1>3 DEF Next

\* To the voice process RoutineManager is the publisher that the delivery
\* assumes: one entry at a time, numbered as they come, each valid until its
\* valid_until and never again.
THEOREM Implements == Spec => DeliverySpec
<1>1. Init => Voice!Init
  BY DEF Init
<1>2. Settling!IInv /\ [Next]_vars => [Voice!Next]_(Voice!vars)
  BY DeliveryStep
<1> QED
  BY <1>1, <1>2, ManagerInvariance, PTL DEF Spec, DeliverySpec, Voice!Spec

----------------------------------------------------------------------------
(* From the chain to the ear. *)

\* What is on the stream has the steps of its chain in front of it behind it.
ChainInv ==
  \A m \in 1..Len(stream) : \A i \in 1..(stream[m].step - 1) :
    [stream[m] EXCEPT !.step = i] \in took

\* A sentence that took effect is on the stream.
PublishedInv ==
  \A e \in took :
    e.step \in 1..Len(Steps[e.routine]) /\ Steps[e.routine][e.step] = "speak" =>
      \E m \in 1..Len(stream) : stream[m] = e

\* Only what is on the stream is heard.
HeardInv == heard \subseteq 1..Len(stream)

SpeechInv == ChainInv /\ PublishedInv /\ HeardInv

\* All that is proved of the delivery holds in the composition.
LEMMA HearingInvariance == Spec => []Hearing!IInv
<1>1. Voice!Init => Hearing!Init
  BY SameVoice
<1>2. [Voice!Next]_(Voice!vars) => [Hearing!Next]_(Hearing!vars)
  BY SameVoice DEF Voice!vars, Hearing!vars, TooLate
<1>3. DeliverySpec => Hearing!Spec
  BY <1>1, <1>2, PTL DEF DeliverySpec, Voice!Spec, Hearing!Spec
<1>4. Hearing!Spec => []Hearing!IInv
  BY ConstantsAreGood, Hearing!Invariance
<1> QED
  BY <1>3, <1>4, Implements, PTL

\* What the voice process does to the stream and to what is heard.
LEMMA VoiceEffect ==
  ASSUME Hearing!IInv, VoiceStep
  PROVE  /\ UNCHANGED managerVars
         /\ \/ UNCHANGED heard
            \/ heard' = heard \cup {consumer.msg} /\ consumer.msg \in 1..Len(stream)
<1>1. UNCHANGED managerVars /\ Hearing!Voice
  BY SameVoice DEF VoiceStep
<1>2. CASE Hearing!Speak
  <2>1. heard' = heard \cup {consumer.msg} /\ consumer.pc = "speak"
    BY <1>2 DEF Hearing!Speak
  <2>2. consumer.msg \in pel
    BY <2>1 DEF Hearing!IInv, Hearing!ConfirmedIsOver, Hearing!InHand
  <2>3. pel \subseteq 1..delivered /\ delivered \in 0..Len(stream)
    BY DEF Hearing!IInv, Hearing!TypeOK
  <2>4. Len(stream) \in Nat
    BY ConstantsAreGood DEF Hearing!DeliveryAssumption, Hearing!IInv, Hearing!TypeOK
  <2> DEFINE m == consumer.msg
             n == Len(stream)
  <2>5. m \in 1..delivered /\ delivered \in 0..n /\ n \in Nat
    BY <2>2, <2>3, <2>4
  <2> HIDE DEF m, n
  <2>6. m \in 1..n
    BY <2>5
  <2> QED
    BY <1>1, <2>1, <2>6 DEF m, n
<1>3. CASE ~ Hearing!Speak
  BY <1>1, <1>3
  DEF Hearing!Voice, Hearing!Connect, Hearing!ReadOwn, Hearing!ReadNew,
      Hearing!RedisFails, Hearing!ReplyLost, Hearing!Yield, Hearing!YieldMessage,
      Hearing!YieldRaises, Hearing!BatchDone, Hearing!Finish, Hearing!GiveUp,
      Hearing!Ack, Hearing!AckFails, Hearing!Crash
<1> QED
  BY <1>2, <1>3

\* The step that takes effect has the ones in front of it behind it.
LEMMA ExecutedInChain ==
  ASSUME Settling!IInv, check.pc = "execute"
  PROVE  LET e == Settling!ThisEffect(check.routine)
         IN  /\ e \in Settling!Effect
             /\ e.routine = check.routine /\ e.step = check.step
             /\ \A i \in 1..(e.step - 1) : [e EXCEPT !.step = i] \in took
<1> DEFINE r == check.routine
           e == Settling!ThisEffect(r)
<1>1. e \in Settling!Effect /\ Settling!Occurrence(r) = pending[r]
  BY ConstantsAreGood, Settling!ExecutedIsOpen
<1>2. e = [routine |-> r, occ |-> pending[r], step |-> check.step]
  BY <1>1 DEF Settling!ThisEffect
<1>3. ASSUME NEW i \in 1..(e.step - 1) PROVE [e EXCEPT !.step = i] \in took
  <2>1. [e EXCEPT !.step = i] = [routine |-> r, occ |-> pending[r], step |-> i]
    BY <1>2
  <2> QED
    BY <1>2, <2>1 DEF Settling!IInv, Settling!ExecInv
<1> QED
  BY <1>1, <1>2, <1>3

\* A step that leaves the stream, and what was heard, keeps the invariant.
LEMMA SpeechKept ==
  ASSUME SpeechInv, UNCHANGED <<stream, took, heard>>
  PROVE  SpeechInv'
BY DEF SpeechInv, ChainInv, PublishedInv, HeardInv

\* XADD, of a step that took effect or of one that is tried again.
LEMMA SpeechPublished ==
  ASSUME Settling!IInv, SpeechInv, UNCHANGED heard, check.pc = "execute",
         stream' = Append(stream, Settling!ThisEffect(check.routine)),
         took' \in {took, took \cup {Settling!ThisEffect(check.routine)}}
  PROVE  SpeechInv'
<1> DEFINE e == Settling!ThisEffect(check.routine)
<1>1. e \in Settling!Effect /\ \A i \in 1..(e.step - 1) : [e EXCEPT !.step = i] \in took
  BY ExecutedInChain
<1>2. stream \in Seq(Settling!Effect)
  BY DEF Settling!IInv, Settling!TypeOK
<1> HIDE DEF e
<1>3. /\ Len(stream) \in Nat /\ Len(stream') = Len(stream) + 1
      /\ \A m \in 1..Len(stream) : stream'[m] = stream[m]
      /\ stream'[Len(stream) + 1] = e
  BY <1>1, <1>2, AppendProperties, LenProperties DEF e
<1>4. 1..Len(stream') = 1..Len(stream) \cup {Len(stream) + 1}
  BY <1>3
<1>5. took \subseteq took' /\ took' \subseteq took \cup {e}
  BY DEF e
<1>6. ChainInv'
  BY <1>1, <1>3, <1>4, <1>5 DEF SpeechInv, ChainInv
<1>7. PublishedInv'
  <2> SUFFICES ASSUME NEW x \in took',
                      x.step \in 1..Len(Steps[x.routine]), Steps[x.routine][x.step] = "speak"
               PROVE  \E m \in 1..Len(stream') : stream'[m] = x
    BY DEF PublishedInv
  <2>1. CASE x = e
    BY <1>3, <1>4, <2>1
  <2>2. CASE x \in took
    <3>1. PICK m \in 1..Len(stream) : stream[m] = x
      BY <2>2 DEF SpeechInv, PublishedInv
    <3> QED
      BY <1>3, <1>4, <3>1
  <2> QED
    BY <1>5, <2>1, <2>2
<1>8. HeardInv'
  BY <1>4 DEF SpeechInv, HeardInv
<1> QED
  BY <1>6, <1>7, <1>8 DEF SpeechInv

\* Each step of the composition keeps the invariant.
LEMMA SpeechNext ==
  ASSUME Settling!IInv, Hearing!IInv, SpeechInv, [Next]_vars
  PROVE  SpeechInv'
<1> DEFINE r == check.routine
           e == Settling!ThisEffect(r)
<1>1. CASE ManagerStep
  <2>1. Manager!Next /\ UNCHANGED heard
    BY <1>1 DEF ManagerStep, voiceVars
  <2>2. CASE UNCHANGED <<stream, took>>
    BY <2>1, <2>2, SpeechKept
  <2>3. CASE /\ check.pc = "execute" /\ stream' = Append(stream, e)
             /\ took' \in {took, took \cup {e}}
    BY <2>1, <2>3, SpeechPublished
  <2>4. CASE /\ check.pc = "execute" /\ Settling!At(r, "agent")
             /\ UNCHANGED stream /\ took' = took \cup {e}
    <3>1. e.routine = r /\ e.step = check.step
      BY <2>4, ExecutedInChain
    <3>2. Steps[e.routine][e.step] # "speak"
      BY <2>4, <3>1 DEF Settling!At
    <3> HIDE DEF e
    <3> QED
      BY <2>1, <2>4, <3>2 DEF SpeechInv, ChainInv, PublishedInv, HeardInv
  <2> QED
    BY <2>1, <2>2, <2>3, <2>4, ManagerEffect
<1>2. CASE VoiceStep
  <2>1. UNCHANGED <<stream, took>> /\ heard' \subseteq heard \cup 1..Len(stream)
    BY <1>2, VoiceEffect DEF managerVars
  <2> QED
    BY <2>1 DEF SpeechInv, ChainInv, PublishedInv, HeardInv
<1>3. CASE UNCHANGED vars
  BY <1>3, SpeechKept DEF vars, managerVars, voiceVars
<1> QED
  BY <1>1, <1>2, <1>3 DEF Next

\* The stream holds what the chains have reached, in every state.
LEMMA SpeechInvariance == Spec => []SpeechInv
<1>1. Init => SpeechInv
  BY DEF Init, Manager!Init, Voice!Init, SpeechInv, ChainInv, PublishedInv, HeardInv
<1>2. Settling!IInv /\ Hearing!IInv /\ SpeechInv /\ [Next]_vars => SpeechInv'
  BY SpeechNext
<1> QED
  BY <1>1, <1>2, ManagerInvariance, HearingInvariance, PTL DEF Spec

\* A sentence is heard only after every step in front of it in its chain has
\* succeeded, for any routines, however often _execute_action started the chain
\* again and the bus delivered the sentence again.
THEOREM SpokenInTurn == Spec => []HeardInTurn
<1>1. SpeechInv => HeardInTurn
  BY DEF SpeechInv, ChainInv, HeardInv, HeardInTurn
<1> QED
  BY <1>1, SpeechInvariance, PTL

\* A sentence of a completed routine is never lost: it was spoken or given up, or
\* it waits in the stream for the consumer or for its confirmation, unless MAXLEN
\* took it.
DoneIsNotLost ==
  \A r \in Manager!Routines : \A k \in 1..Len(resolved[r]) : \A i \in 1..Len(Steps[r]) :
    resolved[r][k].how = "done" /\ Steps[r][i] = "speak" =>
      \E m \in 1..Len(stream) :
        /\ stream[m] = [routine |-> r, occ |-> resolved[r][k].occ, step |-> i]
        /\ \/ m > delivered \/ m \in pel
           \/ m \in heard \cup dropped \/ m <= trimmed

\* What RoutineManager resolved as completed is not lost between the XADD of its
\* sentences and their XACK.
THEOREM NotLost == Spec => []DoneIsNotLost
<1>1. Settling!IInv /\ Hearing!IInv /\ SpeechInv => DoneIsNotLost
  <2> SUFFICES ASSUME Settling!IInv, Hearing!IInv, SpeechInv,
                      NEW r \in Manager!Routines, NEW k \in 1..Len(resolved[r]),
                      NEW i \in 1..Len(Steps[r]),
                      resolved[r][k].how = "done", Steps[r][i] = "speak"
               PROVE  \E m \in 1..Len(stream) :
                        /\ stream[m] = [routine |-> r, occ |-> resolved[r][k].occ,
                                        step |-> i]
                        /\ \/ m > delivered \/ m \in pel
                           \/ m \in heard \cup dropped \/ m <= trimmed
    BY DEF DoneIsNotLost
  <2> DEFINE e == [routine |-> r, occ |-> resolved[r][k].occ, step |-> i]
  <2>1. e \in took
    BY DEF Settling!IInv, Settling!DoneMeansDone, Manager!Routines, Settling!Routines
  <2>2. e.routine = r /\ e.step = i
    OBVIOUS
  <2> HIDE DEF e
  <2>3. PICK m \in 1..Len(stream) : stream[m] = e
    BY <2>1, <2>2 DEF SpeechInv, PublishedInv
  <2>4. delivered \in Nat /\ m \in Nat \ {0}
    BY ConstantsAreGood DEF Hearing!DeliveryAssumption, Hearing!IInv, Hearing!TypeOK
  <2>5. m > delivered \/ m \in 1..delivered
    BY <2>4
  <2>6. m > delivered \/ m \in pel \/ m \in heard \cup dropped \/ m <= trimmed
    BY <2>5 DEF Hearing!IInv, Hearing!NothingLost, Hearing!Finished
  <2> QED
    BY <2>3, <2>6 DEF e
<1> QED
  BY <1>1, ManagerInvariance, HearingInvariance, SpeechInvariance, PTL

============================================================================

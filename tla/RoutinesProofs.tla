--------------------------- MODULE RoutinesProofs ---------------------------
(***************************************************************************)
(* RoutineManager settles each occurrence once and in order, for every     *)
(* number of routines, every schedule and every action.                    *)
(***************************************************************************)
EXTENDS Routines, WellFoundedInduction, SequenceTheorems, TLAPS

----------------------------------------------------------------------------
(* The inductive invariant. *)

\* The occurrence a routine waits for when none is pending.
NextOne(r) == IF OnStartup[r] THEN loadedAt ELSE GetNext(r, Anchor(r))

\* A check belongs to this life of the process, and no time lies ahead.
TimeInv ==
  /\ loadedAt <= clock
  /\ check.now <= clock
  /\ check.pc # "sleep" => loadedAt <= check.now

\* last_fired_occurrence is one of the routine's, of this life of the process.
LastInv ==
  \A r \in Routines :
    /\ OnStartup[r] => lastFired[r] = 0
    /\ ~OnStartup[r] => ~firedOnStartup[r]
    /\ lastFired[r] # 0 =>
         lastFired[r] \in Due[r] /\ loadedAt < lastFired[r] /\ lastFired[r] <= clock

\* A pending occurrence is the one the routine waits for: a retry and a new
\* evaluation look at the same.
PendingInv ==
  \A r \in Routines : pending[r] # 0 =>
    ~firedOnStartup[r] /\ pending[r] = NextOne(r) /\ pending[r] <= clock

\* A chain is run from its first step.
StepInv == check.pc = "evaluate" => check.step = 1

\* What is executed is pending, and the steps in front of it have succeeded.
ExecInv ==
  check.pc = "execute" =>
    LET r == check.routine
    IN  /\ pending[r] # 0
        /\ check.step <= Len(Steps[r]) + 1
        /\ \A i \in 1..(check.step - 1) :
             [routine |-> r, occ |-> pending[r], step |-> i] \in took

\* Nothing is settled ahead of the anchor.
SettledInv ==
  \A r \in Routines : \A o \in Settled(r) :
    o <= clock /\ (IF OnStartup[r] THEN o <= loadedAt ELSE o <= Anchor(r))

IInv ==
  /\ TypeOK
  /\ TimeInv /\ StepInv /\ LastInv /\ PendingInv /\ ExecInv /\ SettledInv
  /\ EachInTurn /\ DoneMeansDone

----------------------------------------------------------------------------
(* Occurrences. *)

\* A set of numbers that is not empty has a least one.
LEMMA Least ==
  ASSUME NEW T \in SUBSET Nat, T # {}
  PROVE  \E x \in T : \A y \in T : x <= y
<1> DEFINE R == {ss \in Nat \X Nat : ss[1] < ss[2]}
<1>1. IsWellFoundedOn(R, Nat)
  BY NatLessThanWellFounded DEF OpToRel
<1>2. R = {ss \in Nat \X Nat : ss[1] < ss[2]}
  OBVIOUS
<1> HIDE DEF R
<1>3. PICK x \in T : \A y \in T : ~(<<y, x>> \in R)
  BY <1>1, WFMin
<1>4. ASSUME NEW y \in T PROVE x <= y
  <2>1. ~(y < x)
    BY <1>2, <1>3
  <2> QED
    BY <2>1
<1> QED
  BY <1>4

\* croniter.get_next returns the first time after t.
LEMMA GetNextFirst ==
  ASSUME NEW r \in Routines, NEW t \in Nat
  PROVE  /\ GetNext(r, t) \in 0..MaxTime
         /\ GetNext(r, t) # 0 =>
              /\ GetNext(r, t) \in Due[r] /\ t < GetNext(r, t)
              /\ \A e \in Due[r] : t < e => GetNext(r, t) <= e
<1> DEFINE later == {d \in Due[r] : d > t}
           first == CHOOSE d \in later : \A e \in later : d <= e
<1>1. Due[r] \subseteq 1..MaxTime /\ MaxTime \in Nat
  BY RoutinesAssumption DEF Times
<1>2. CASE later = {}
  BY <1>1, <1>2 DEF GetNext
<1>3. CASE later # {}
  <2>1. later \in SUBSET Nat
    BY <1>1
  <2>2. \E d \in later : \A e \in later : d <= e
    BY <1>3, <2>1, Least
  <2>3. first \in later /\ \A e \in later : first <= e
    BY <2>2
  <2>4. GetNext(r, t) = first
    BY <1>3 DEF GetNext
  <2> QED
    BY <1>1, <2>3, <2>4
<1> QED
  BY <1>2, <1>3

\* The types of what a check computes.
LEMMA OccurrenceType ==
  ASSUME TypeOK, NEW r \in Routines
  PROVE  /\ clock \in Nat /\ loadedAt \in Nat \ {0} /\ MaxTime \in Nat
         /\ lastFired[r] \in 0..MaxTime /\ pending[r] \in 0..MaxTime
         /\ Anchor(r) \in Nat /\ NextOne(r) \in 0..MaxTime
<1>1. /\ clock \in 1..MaxTime /\ loadedAt \in 1..MaxTime /\ MaxTime \in Nat
      /\ lastFired[r] \in 0..MaxTime /\ pending[r] \in 0..MaxTime
  BY RoutinesAssumption DEF TypeOK, Times
<1>2. Anchor(r) \in Nat
  BY <1>1 DEF Anchor
<1>3. NextOne(r) \in 0..MaxTime
  BY <1>1, <1>2, GetNextFirst DEF NextOne
<1> QED
  BY <1>1, <1>2, <1>3

\* The history of a routine is a sequence, and its occurrences are times.
LEMMA SettledType ==
  ASSUME TypeOK, NEW r \in Routines
  PROVE  /\ resolved[r] \in Seq([occ : Times, how : Verdicts])
         /\ Len(resolved[r]) \in Nat
         /\ \A k \in 1..Len(resolved[r]) : resolved[r][k] \in [occ : Times, how : Verdicts]
         /\ Settled(r) \subseteq Times /\ Settled(r) \subseteq Nat
<1>1. resolved[r] \in Seq([occ : Times, how : Verdicts])
  BY DEF TypeOK
<1>2. /\ Len(resolved[r]) \in Nat
      /\ \A k \in 1..Len(resolved[r]) : resolved[r][k] \in [occ : Times, how : Verdicts]
  BY <1>1, LenProperties, ElementOfSeq, Zenon
<1>3. Settled(r) \subseteq Times
  BY <1>2 DEF Settled
<1>4. Times \subseteq Nat
  BY RoutinesAssumption DEF Times
<1> QED
  BY <1>1, <1>2, <1>3, <1>4

\* The occurrence a check looks at is the one the routine waits for.
LEMMA OccurrenceIsNext ==
  ASSUME IInv, NEW r \in Routines
  PROVE  Occurrence(r) = NextOne(r)
BY DEF IInv, PendingInv, Occurrence, NextOne

\* A routine waits for nothing that is settled, nor for anything of an earlier
\* life of the process.
LEMMA NextIsOpen ==
  ASSUME IInv, NEW r \in Routines, ~firedOnStartup[r], NextOne(r) # 0
  PROVE  /\ loadedAt <= NextOne(r) /\ NextOne(r) \notin Settled(r)
         /\ \A o \in Settled(r) : o < NextOne(r)
<1>1. /\ loadedAt \in Nat /\ Anchor(r) \in Nat /\ loadedAt <= Anchor(r)
  <2>1. /\ loadedAt \in Nat /\ lastFired[r] \in Nat /\ Anchor(r) \in Nat
    BY OccurrenceType DEF IInv
  <2> QED
    BY <2>1 DEF IInv, LastInv, Anchor
<1>2. Settled(r) \subseteq Nat
  BY SettledType DEF IInv
<1>3. CASE OnStartup[r]
  <2>1. NextOne(r) = loadedAt
    BY <1>3 DEF NextOne
  <2>2. loadedAt \notin Settled(r)
    BY <1>3 DEF IInv, EachInTurn
  <2>3. \A o \in Settled(r) : o <= loadedAt
    BY <1>3 DEF IInv, SettledInv
  <2> QED
    BY <1>1, <1>2, <2>1, <2>2, <2>3
<1>4. CASE ~OnStartup[r]
  <2>1. NextOne(r) = GetNext(r, Anchor(r))
    BY <1>4 DEF NextOne
  <2>2. NextOne(r) \in Nat /\ Anchor(r) < NextOne(r)
    BY <1>1, <2>1, GetNextFirst, RoutinesAssumption
  <2>3. \A o \in Settled(r) : o <= Anchor(r)
    BY <1>4 DEF IInv, SettledInv
  <2> QED
    BY <1>1, <1>2, <2>2, <2>3
<1> QED
  BY <1>3, <1>4

\* What takes effect in this step is open: its occurrence is pending.
LEMMA ExecutedIsOpen ==
  ASSUME IInv, check.pc = "execute"
  PROVE  LET r == check.routine
         IN  /\ r \in Routines
             /\ Occurrence(r) = pending[r] /\ Occurrence(r) = NextOne(r)
             /\ Occurrence(r) \in Times /\ Occurrence(r) <= clock /\ ~firedOnStartup[r]
             /\ ThisEffect(r) \in Effect /\ StillOpen(ThisEffect(r))
<1> DEFINE r == check.routine
<1>1. r \in Routines /\ check.step \in Nat \ {0}
  BY DEF IInv, TypeOK, Check
<1>2. pending[r] # 0
  BY DEF IInv, ExecInv
<1>3. Occurrence(r) = pending[r] /\ Occurrence(r) = NextOne(r)
  BY <1>1, <1>2, OccurrenceIsNext DEF Occurrence
<1>4. pending[r] <= clock /\ ~firedOnStartup[r]
  BY <1>1, <1>2 DEF IInv, PendingInv
<1>5. pending[r] \in Times
  BY <1>1, <1>2, OccurrenceType DEF IInv, Times
<1>6. loadedAt <= pending[r] /\ pending[r] \notin Settled(r)
  BY <1>1, <1>2, <1>3, <1>4, NextIsOpen
<1>7. ThisEffect(r) \in Effect
  BY <1>1, <1>3, <1>5 DEF ThisEffect, Effect
<1>8. StillOpen(ThisEffect(r))
  <2>1. loadedAt \in Nat /\ pending[r] \in Nat
    BY <1>1, OccurrenceType DEF IInv
  <2>2. ThisEffect(r).occ = pending[r] /\ ThisEffect(r).routine = r
    BY <1>3 DEF ThisEffect
  <2> QED
    BY <1>6, <2>1, <2>2 DEF StillOpen
<1> QED
  BY <1>1, <1>3, <1>4, <1>5, <1>7, <1>8

----------------------------------------------------------------------------
(* _resolve. *)

\* What _resolve adds to the history.
LEMMA ResolveHistory ==
  ASSUME TypeOK, NEW r \in Routines, NEW how \in Verdicts, Resolve(r, how),
         Occurrence(r) \in Times
  PROVE  /\ resolved' \in [Routines -> Seq([occ : Times, how : Verdicts])]
         /\ Len(resolved'[r]) = Len(resolved[r]) + 1
         /\ \A k \in 1..Len(resolved[r]) : resolved'[r][k] = resolved[r][k]
         /\ resolved'[r][Len(resolved[r]) + 1] = [occ |-> Occurrence(r), how |-> how]
         /\ \A q \in Routines : q # r => resolved'[q] = resolved[q]
         /\ Settled(r)' = Settled(r) \cup {Occurrence(r)}
         /\ \A q \in Routines : q # r => Settled(q)' = Settled(q)
<1> DEFINE new == [occ |-> Occurrence(r), how |-> how]
           Entry == [occ : Times, how : Verdicts]
<1>1. new \in Entry /\ new.occ = Occurrence(r)
  OBVIOUS
<1> HIDE DEF new
<1>2. resolved \in [Routines -> Seq(Entry)] /\ resolved[r] \in Seq(Entry)
  BY DEF TypeOK
<1>3. resolved' = [resolved EXCEPT ![r] = Append(resolved[r], new)]
  BY DEF Resolve, new
<1> HIDE DEF Entry
<1>4. resolved'[r] = Append(resolved[r], new) /\ Append(resolved[r], new) \in Seq(Entry)
  BY <1>1, <1>2, <1>3
<1>5. /\ Len(resolved'[r]) = Len(resolved[r]) + 1 /\ Len(resolved[r]) \in Nat
      /\ \A k \in 1..Len(resolved[r]) : resolved'[r][k] = resolved[r][k]
      /\ resolved'[r][Len(resolved[r]) + 1] = new
  BY <1>1, <1>2, <1>4
<1>6. resolved' \in [Routines -> Seq(Entry)]
  BY <1>2, <1>3, <1>4
<1>7. \A q \in Routines : q # r => resolved'[q] = resolved[q]
  BY <1>2, <1>3
<1>8. \A q \in Routines : q # r => Settled(q)' = Settled(q)
  BY <1>7 DEF Settled
<1>9. Settled(r)' = Settled(r) \cup {Occurrence(r)}
  <2>1. Settled(r)' = {resolved'[r][k].occ : k \in 1..(Len(resolved[r]) + 1)}
    BY <1>5 DEF Settled
  <2>2. 1..(Len(resolved[r]) + 1) = 1..Len(resolved[r]) \cup {Len(resolved[r]) + 1}
    BY <1>5
  <2>3. \A x : x \in Settled(r)' <=> x \in Settled(r) \/ x = Occurrence(r)
    BY <1>1, <1>5, <2>1, <2>2 DEF Settled
  <2> QED
    BY <2>3
<1> QED
  BY <1>5, <1>6, <1>7, <1>8, <1>9 DEF new, Entry

\* Resolving the occurrence a routine waits for keeps the history in order.
LEMMA ResolveInv ==
  ASSUME IInv, NEW r \in Routines, NEW how \in Verdicts, Resolve(r, how),
         Occurrence(r) \in Times, Occurrence(r) <= clock, ~firedOnStartup[r],
         UNCHANGED <<clock, loadedAt, took>>,
         how = "done" => \A i \in 1..Len(Steps[r]) :
           [routine |-> r, occ |-> Occurrence(r), step |-> i] \in took
  PROVE  /\ lastFired' \in [Routines -> 0..MaxTime]
         /\ pending' \in [Routines -> 0..MaxTime] /\ pending'[r] = 0
         /\ \A q \in Routines : q # r => pending'[q] = pending[q]
         /\ firedOnStartup' \in [Routines -> BOOLEAN]
         /\ resolved' \in [Routines -> Seq([occ : Times, how : Verdicts])]
         /\ LastInv' /\ PendingInv' /\ SettledInv' /\ EachInTurn' /\ DoneMeansDone'
<1> DEFINE o == Occurrence(r)
<1>1. TypeOK
  BY DEF IInv
<1>2. o = NextOne(r) /\ o \in Times /\ o \in 1..MaxTime /\ MaxTime \in Nat /\ o # 0
  BY <1>1, OccurrenceIsNext, OccurrenceType, RoutinesAssumption DEF Times
<1>3. loadedAt <= o /\ o \notin Settled(r) /\ \A x \in Settled(r) : x < o
  BY <1>2, NextIsOpen
<1>4. /\ Len(resolved'[r]) = Len(resolved[r]) + 1
      /\ \A k \in 1..Len(resolved[r]) : resolved'[r][k] = resolved[r][k]
      /\ resolved'[r][Len(resolved[r]) + 1] = [occ |-> o, how |-> how]
      /\ \A q \in Routines : q # r => resolved'[q] = resolved[q]
      /\ Settled(r)' = Settled(r) \cup {o}
      /\ \A q \in Routines : q # r => Settled(q)' = Settled(q)
  BY <1>1, ResolveHistory
<1>5. /\ clock \in Nat /\ loadedAt \in Nat /\ lastFired[r] \in Nat
      /\ Settled(r) \subseteq Nat /\ Len(resolved[r]) \in Nat
  BY <1>1, OccurrenceType, SettledType
<1>6. /\ pending' \in [Routines -> 0..MaxTime] /\ pending'[r] = 0
      /\ \A q \in Routines : q # r => pending'[q] = pending[q]
  BY <1>1, <1>2 DEF TypeOK, Resolve
<1>7. /\ lastFired' \in [Routines -> 0..MaxTime]
      /\ firedOnStartup' \in [Routines -> BOOLEAN]
      /\ \A q \in Routines : q # r =>
           lastFired'[q] = lastFired[q] /\ firedOnStartup'[q] = firedOnStartup[q]
      /\ OnStartup[r] => lastFired'[r] = lastFired[r] /\ firedOnStartup'[r] = TRUE
      /\ ~OnStartup[r] => lastFired'[r] = o /\ firedOnStartup'[r] = firedOnStartup[r]
  <2> HIDE DEF o
  <2>1. IF OnStartup[r]
        THEN firedOnStartup' = [firedOnStartup EXCEPT ![r] = TRUE] /\ UNCHANGED lastFired
        ELSE lastFired' = [lastFired EXCEPT ![r] = o] /\ UNCHANGED firedOnStartup
    BY DEF Resolve, o
  <2>2. /\ lastFired \in [Routines -> 0..MaxTime] /\ firedOnStartup \in [Routines -> BOOLEAN]
        /\ o \in 0..MaxTime
    BY <1>1, <1>2 DEF TypeOK
  <2>3. CASE OnStartup[r]
    BY <2>1, <2>2, <2>3, Zenon
  <2>4. CASE ~OnStartup[r]
    <3>1. lastFired' = [lastFired EXCEPT ![r] = o] /\ UNCHANGED firedOnStartup
      BY <2>1, <2>4, Zenon
    <3>2. /\ lastFired' \in [Routines -> 0..MaxTime]
          /\ \A q \in Routines : q # r => lastFired'[q] = lastFired[q]
          /\ lastFired'[r] = o
      BY <2>2, <3>1
    <3> QED
      BY <2>2, <2>4, <3>1, <3>2, Zenon
  <2> QED
    BY <2>3, <2>4
<1> HIDE DEF o
<1>8. OnStartup[r] => o = loadedAt
  BY <1>2 DEF NextOne
<1>9. ~OnStartup[r] =>
        /\ o \in Due[r] /\ Anchor(r) < o /\ loadedAt < o
        /\ \A e \in Due[r] : Anchor(r) < e => o <= e
  <2>1. Anchor(r) \in Nat /\ loadedAt <= Anchor(r)
    BY <1>1, <1>5, OccurrenceType DEF IInv, LastInv, Anchor
  <2>2. ~OnStartup[r] => o = GetNext(r, Anchor(r))
    BY <1>2 DEF NextOne
  <2>3. ~OnStartup[r] => o \in Due[r] /\ Anchor(r) < o
                         /\ \A e \in Due[r] : Anchor(r) < e => o <= e
    BY <1>2, <2>1, <2>2, GetNextFirst
  <2> QED
    BY <1>2, <1>5, <2>1, <2>3
<1>10. LastInv'
  <2>1. ASSUME NEW q \in Routines, q # r
        PROVE  /\ OnStartup[q] => lastFired'[q] = 0
               /\ ~OnStartup[q] => ~firedOnStartup'[q]
               /\ lastFired'[q] # 0 =>
                    lastFired'[q] \in Due[q] /\ loadedAt' < lastFired'[q] /\ lastFired'[q] <= clock'
    BY <1>7, <2>1 DEF IInv, LastInv
  <2>2. /\ OnStartup[r] => lastFired'[r] = 0
        /\ ~OnStartup[r] => ~firedOnStartup'[r]
    BY <1>7 DEF IInv, LastInv
  <2>3. lastFired'[r] # 0 =>
          lastFired'[r] \in Due[r] /\ loadedAt' < lastFired'[r] /\ lastFired'[r] <= clock'
    BY <1>7, <1>9, <2>2 DEF o
  <2> QED
    BY <2>1, <2>2, <2>3 DEF LastInv
<1>11. PendingInv'
  <2>1. ASSUME NEW q \in Routines, pending'[q] # 0
        PROVE  ~firedOnStartup'[q] /\ pending'[q] = NextOne(q)' /\ pending'[q] <= clock'
    <3>1. q # r /\ pending'[q] = pending[q]
      BY <1>6, <2>1
    <3>2. NextOne(q)' = NextOne(q)
      BY <1>7, <3>1 DEF NextOne, Anchor
    <3> QED
      BY <1>7, <2>1, <3>1, <3>2 DEF IInv, PendingInv
  <2> QED
    BY <2>1 DEF PendingInv
<1>12. SettledInv'
  <2>1. ASSUME NEW q \in Routines, q # r, NEW x \in Settled(q)'
        PROVE  x <= clock' /\ (IF OnStartup[q] THEN x <= loadedAt' ELSE x <= Anchor(q)')
    BY <1>4, <1>7, <2>1 DEF IInv, SettledInv, Anchor
  <2>2. ASSUME NEW x \in Settled(r)'
        PROVE  x <= clock' /\ (IF OnStartup[r] THEN x <= loadedAt' ELSE x <= Anchor(r)')
    <3>1. x \in Nat /\ o \in Nat /\ x <= o
      BY <1>2, <1>3, <1>4, <1>5, <2>2
    <3>2. o <= clock
      BY DEF o
    <3>3. ~OnStartup[r] => Anchor(r)' = o
      BY <1>2, <1>7 DEF Anchor
    <3> QED
      BY <1>5, <1>8, <3>1, <3>2, <3>3
  <2> QED
    BY <2>1, <2>2 DEF SettledInv
<1>13. EachInTurn'
  <2>1. ASSUME NEW k \in 1..(Len(resolved'[r]) - 1)
        PROVE  resolved'[r][k].occ < resolved'[r][k + 1].occ
    <3>1. CASE k < Len(resolved[r])
      <4>1. resolved[r][k].occ < resolved[r][k + 1].occ
        BY <1>5, <3>1 DEF IInv, EachInTurn
      <4> QED
        BY <1>4, <1>5, <3>1, <4>1
    <3>2. CASE k = Len(resolved[r])
      <4>1. resolved[r][k].occ \in Settled(r)
        BY <1>5, <3>2 DEF Settled
      <4>2. resolved'[r][k + 1].occ = o /\ resolved'[r][k] = resolved[r][k]
        BY <1>4, <1>5, <3>2
      <4> QED
        BY <1>3, <4>1, <4>2
    <3> QED
      BY <1>4, <1>5, <3>1, <3>2
  <2>2. ASSUME ~OnStartup[r]
        PROVE  {x \in Settled(r)' : x > loadedAt'}
               = {d \in Due[r] : loadedAt' < d /\ d <= lastFired'[r]}
    <3>1. {x \in Settled(r) : x > loadedAt} = {d \in Due[r] : loadedAt < d /\ d <= lastFired[r]}
      BY <2>2 DEF IInv, EachInTurn
    <3>2. lastFired'[r] = o
      BY <1>7, <2>2
    <3>3. ASSUME NEW x \in Settled(r), x > loadedAt PROVE x \in Due[r] /\ x <= o
      BY <1>2, <1>3, <1>5, <3>1, <3>3
    <3>4. ASSUME NEW d \in Due[r], loadedAt < d, d <= o, d # o PROVE d \in Settled(r)
      <4>1. d \in Nat
        BY RoutinesAssumption DEF Times
      <4>2. ~(Anchor(r) < d)
        BY <1>2, <1>9, <2>2, <3>4, <4>1
      <4>3. d <= lastFired[r]
        BY <1>5, <3>4, <4>1, <4>2 DEF Anchor
      <4> QED
        BY <3>1, <3>4, <4>3
    <3>5. ASSUME NEW x PROVE (x \in Settled(r)' /\ x > loadedAt)
                             <=> (x \in Due[r] /\ loadedAt < x /\ x <= o)
      BY <1>2, <1>4, <1>5, <1>9, <2>2, <3>3, <3>4
    <3> QED
      BY <3>2, <3>5
  <2>3. OnStartup[r] => (loadedAt' \in Settled(r)' <=> firedOnStartup'[r])
    BY <1>4, <1>7, <1>8
  <2>4. ASSUME NEW q \in Routines, q # r
        PROVE  /\ \A k \in 1..(Len(resolved'[q]) - 1) : resolved'[q][k].occ < resolved'[q][k + 1].occ
               /\ ~OnStartup[q] => {x \in Settled(q)' : x > loadedAt'}
                                   = {d \in Due[q] : loadedAt' < d /\ d <= lastFired'[q]}
               /\ OnStartup[q] => (loadedAt' \in Settled(q)' <=> firedOnStartup'[q])
    <3>1. /\ resolved'[q] = resolved[q] /\ Settled(q)' = Settled(q) /\ loadedAt' = loadedAt
          /\ lastFired'[q] = lastFired[q] /\ firedOnStartup'[q] = firedOnStartup[q]
      BY <1>4, <1>7, <2>4
    <3> QED
      BY <3>1 DEF IInv, EachInTurn
  <2> QED
    BY <2>1, <2>2, <2>3, <2>4 DEF EachInTurn
<1>14. DoneMeansDone'
  <2>1. ASSUME NEW k \in 1..Len(resolved'[r]), resolved'[r][k].how = "done",
               NEW i \in 1..Len(Steps[r])
        PROVE  [routine |-> r, occ |-> resolved'[r][k].occ, step |-> i] \in took'
    <3>1. CASE k = Len(resolved[r]) + 1
      BY <1>4, <2>1, <3>1 DEF o
    <3>2. CASE k # Len(resolved[r]) + 1
      <4>1. k \in 1..Len(resolved[r]) /\ resolved'[r][k] = resolved[r][k]
        BY <1>4, <1>5, <3>2
      <4> QED
        BY <2>1, <4>1 DEF IInv, DoneMeansDone
    <3> QED
      BY <3>1, <3>2
  <2>2. ASSUME NEW q \in Routines, q # r, NEW k \in 1..Len(resolved'[q]),
               resolved'[q][k].how = "done", NEW i \in 1..Len(Steps[q])
        PROVE  [routine |-> q, occ |-> resolved'[q][k].occ, step |-> i] \in took'
    BY <1>4, <2>2 DEF IInv, DoneMeansDone
  <2>3. \A e \in took' : \A i \in 1..(e.step - 1) : [e EXCEPT !.step = i] \in took'
    BY DEF IInv, DoneMeansDone
  <2> QED
    BY <2>1, <2>2, <2>3 DEF DoneMeansDone
<1> QED
  BY <1>1, <1>6, <1>7, <1>10, <1>11, <1>12, <1>13, <1>14, ResolveHistory

----------------------------------------------------------------------------
(* The steps. *)

LEMMA InitInv == Init => IInv
<1> SUFFICES ASSUME Init PROVE IInv
  OBVIOUS
<1>1. /\ NumRoutines \in Nat \ {0} /\ MaxTime \in Nat \ {0} /\ 1 \in Routines /\ 1 \in Times
      /\ 0 \in 0..MaxTime
  BY RoutinesAssumption DEF Routines, Times
<1>2. check \in Check
  BY <1>1 DEF Init, Asleep, Check
<1>3. resolved \in [Routines -> Seq([occ : Times, how : Verdicts])]
  BY EmptySeq DEF Init
<1>4. stream \in Seq(Effect)
  BY EmptySeq DEF Init
<1>5. TypeOK
  BY <1>1, <1>2, <1>3, <1>4 DEF Init, TypeOK
<1>6. \A r \in Routines : resolved[r] = <<>> /\ Len(resolved[r]) = 0
  BY DEF Init
<1>7. \A r \in Routines : Settled(r) = {}
  BY <1>6 DEF Settled
<1>8. TimeInv /\ StepInv /\ LastInv /\ PendingInv /\ ExecInv
  BY DEF Init, Asleep, TimeInv, StepInv, LastInv, PendingInv, ExecInv
<1>9. SettledInv
  BY <1>7 DEF SettledInv
<1>10. EachInTurn
  <2>1. ASSUME NEW r \in Routines
        PROVE  {d \in Due[r] : loadedAt < d /\ d <= lastFired[r]} = {}
    BY <2>1, RoutinesAssumption DEF Init, Times
  <2> QED
    BY <1>6, <1>7, <2>1 DEF Init, EachInTurn
<1>11. DoneMeansDone
  BY <1>6 DEF Init, DoneMeansDone
<1> QED
  BY <1>5, <1>8, <1>9, <1>10, <1>11 DEF IInv

\* NextRoutine leaves the check at a routine, and executing nothing.
LEMMA NextRoutineInv ==
  ASSUME TypeOK, NextRoutine
  PROVE  check' \in Check /\ check'.pc # "execute" /\ check'.now = check.now /\ StepInv'
<1>1. /\ check \in Check /\ check.routine \in 1..NumRoutines /\ NumRoutines \in Nat
  BY RoutinesAssumption DEF TypeOK, Check, Routines
<1>2. CASE check.routine = NumRoutines
  <2>1. check' = [check EXCEPT !.pc = "sleep"]
    BY <1>2 DEF NextRoutine
  <2> QED
    BY <1>1, <2>1 DEF Check, StepInv
<1>3. CASE check.routine # NumRoutines
  <2>1. check' = [check EXCEPT !.pc = "evaluate", !.routine = check.routine + 1, !.step = 1]
    BY <1>3 DEF NextRoutine
  <2>2. check.routine + 1 \in Routines
    BY <1>1, <1>3 DEF Routines
  <2>3. check' = [pc |-> "evaluate", now |-> check.now, routine |-> check.routine + 1, step |-> 1]
    BY <1>1, <2>1 DEF Check
  <2>4. check.now \in 0..MaxTime
    BY <1>1 DEF Check
  <2>5. check'.pc = "evaluate" /\ check'.now = check.now /\ StepInv'
    BY <2>3 DEF StepInv
  <2> QED
    BY <2>2, <2>3, <2>4, <2>5 DEF Check
<1> QED
  BY <1>2, <1>3

\* An effect of this step is one of the occurrence being executed.
LEMMA StepDoneInv ==
  ASSUME IInv, check.pc = "execute", check.step <= Len(Steps[check.routine]),
         StepDone(check.routine),
         UNCHANGED <<clock, loadedAt, state, resolved>>
  PROVE  /\ check' \in Check /\ check'.now = check.now /\ check'.pc = "execute"
         /\ took' \subseteq Effect /\ ExecInv' /\ DoneMeansDone'
<1> DEFINE r == check.routine
           e == ThisEffect(r)
<1>1. /\ r \in Routines /\ check \in Check /\ check.step \in Nat \ {0}
      /\ took \subseteq Effect
  BY DEF IInv, TypeOK, Check
<1>2. Occurrence(r) = pending[r] /\ e \in Effect
  BY ExecutedIsOpen
<1>3. /\ took' = took \cup {e} /\ check' = [check EXCEPT !.step = @ + 1]
      /\ pending' = pending /\ resolved' = resolved
  BY DEF StepDone, state
<1>4. /\ check' \in Check /\ check'.now = check.now /\ check'.pc = "execute"
      /\ check'.routine = r /\ check'.step = check.step + 1
  BY <1>1, <1>3 DEF Check
<1>5. e = [routine |-> r, occ |-> pending[r], step |-> check.step]
  BY <1>2 DEF ThisEffect
<1>6. /\ pending[r] # 0
      /\ \A i \in 1..(check.step - 1) : [routine |-> r, occ |-> pending[r], step |-> i] \in took
  BY DEF IInv, ExecInv
<1> HIDE DEF e
<1>7. ExecInv'
  <2>1. check'.step <= Len(Steps[r]) + 1
    <3>1. Len(Steps[r]) \in Nat
      BY <1>1, RoutinesAssumption
    <3> QED
      BY <1>1, <1>4, <3>1
  <2>2. ASSUME NEW i \in 1..(check'.step - 1)
        PROVE  [routine |-> r, occ |-> pending[r], step |-> i] \in took'
    <3>1. i = check.step \/ i \in 1..(check.step - 1)
      BY <1>1, <1>4
    <3> QED
      BY <1>3, <1>5, <1>6, <3>1
  <2> QED
    BY <1>3, <1>4, <1>6, <2>1, <2>2 DEF ExecInv
<1>8. DoneMeansDone'
  <2>1. ASSUME NEW q \in Routines, NEW k \in 1..Len(resolved'[q]),
               resolved'[q][k].how = "done", NEW i \in 1..Len(Steps[q])
        PROVE  [routine |-> q, occ |-> resolved'[q][k].occ, step |-> i] \in took'
    BY <1>3, <2>1 DEF IInv, DoneMeansDone
  <2>2. ASSUME NEW x \in took', NEW i \in 1..(x.step - 1)
        PROVE  [x EXCEPT !.step = i] \in took'
    <3>1. CASE x \in took
      BY <1>3, <3>1 DEF IInv, DoneMeansDone
    <3>2. CASE x = e
      <4>1. x.step = check.step /\ [x EXCEPT !.step = i] = [routine |-> r, occ |-> pending[r], step |-> i]
        BY <1>5, <3>2
      <4> QED
        BY <1>3, <1>6, <4>1
    <3> QED
      BY <1>3, <3>1, <3>2
  <2> QED
    BY <2>1, <2>2 DEF DoneMeansDone
<1> QED
  BY <1>1, <1>2, <1>3, <1>4, <1>7, <1>8

\* A step that resolves the occurrence at hand and goes on.
LEMMA ResolveStep ==
  ASSUME IInv, check.pc # "sleep", NEW how \in Verdicts,
         Resolve(check.routine, how), NextRoutine,
         UNCHANGED <<clock, loadedAt, stream, took>>,
         Occurrence(check.routine) \in Times, Occurrence(check.routine) <= clock,
         ~firedOnStartup[check.routine],
         how = "done" => \A i \in 1..Len(Steps[check.routine]) :
           [routine |-> check.routine, occ |-> Occurrence(check.routine), step |-> i] \in took
  PROVE  IInv'
<1>1. check.routine \in Routines /\ TypeOK
  BY DEF IInv, TypeOK, Check
<1>2. check' \in Check /\ check'.pc # "execute" /\ check'.now = check.now /\ StepInv'
  BY <1>1, NextRoutineInv
<1>3. TypeOK'
  BY <1>1, <1>2, ResolveInv DEF TypeOK
<1>4. LastInv' /\ PendingInv' /\ SettledInv' /\ EachInTurn' /\ DoneMeansDone'
  BY <1>1, ResolveInv
<1>5. TimeInv' /\ ExecInv'
  BY <1>2 DEF IInv, TimeInv, ExecInv
<1> QED
  BY <1>2, <1>3, <1>4, <1>5 DEF IInv

\* A step that leaves the routines and their history as they are.
LEMMA KeepStep ==
  ASSUME IInv, UNCHANGED <<loadedAt, state, resolved, took>>,
         clock' \in Times, clock <= clock', check' \in Check, stream' \in Seq(Effect),
         check'.now <= clock', check'.pc # "sleep" => loadedAt <= check'.now,
         StepInv', check'.pc = "execute" => check' = check
  PROVE  IInv'
<1>1. UNCHANGED <<lastFired, pending, firedOnStartup>>
  BY DEF state
<1>2. /\ \A r \in Routines : Settled(r)' = Settled(r) /\ NextOne(r)' = NextOne(r)
                             /\ Anchor(r)' = Anchor(r)
  BY <1>1 DEF Settled, NextOne, Anchor
<1>3. TypeOK'
  BY <1>1 DEF IInv, TypeOK
<1>4. clock \in Nat /\ clock' \in Nat /\ loadedAt \in Nat
  BY RoutinesAssumption DEF IInv, TypeOK, Times
<1>5. TimeInv'
  BY <1>4 DEF IInv, TimeInv
<1>6. LastInv'
  <2>1. \A r \in Routines : lastFired[r] \in Nat
    BY RoutinesAssumption DEF IInv, TypeOK
  <2> QED
    BY <1>1, <1>4, <2>1 DEF IInv, LastInv
<1>7. PendingInv'
  <2>1. \A r \in Routines : pending[r] \in Nat
    BY RoutinesAssumption DEF IInv, TypeOK
  <2> QED
    BY <1>1, <1>2, <1>4, <2>1 DEF IInv, PendingInv
<1>8. ExecInv'
  BY <1>1 DEF IInv, ExecInv
<1>9. SettledInv'
  <2>1. \A r \in Routines : Settled(r) \subseteq Nat
    BY SettledType DEF IInv
  <2> QED
    BY <1>2, <1>4, <2>1 DEF IInv, SettledInv
<1>10. EachInTurn'
  BY <1>1, <1>2 DEF IInv, EachInTurn
<1>11. DoneMeansDone'
  BY DEF IInv, DoneMeansDone
<1> QED
  BY <1>3, <1>5, <1>6, <1>7, <1>8, <1>9, <1>10, <1>11 DEF IInv

\* A new process has settled nothing: its clock is past all that was.
LEMMA RestartInv == IInv /\ Restart => IInv'
<1> SUFFICES ASSUME IInv, Restart PROVE IInv'
  OBVIOUS
<1>1. /\ loadedAt' = clock /\ clock' = clock /\ check' = Asleep
      /\ lastFired' = [r \in Routines |-> 0] /\ pending' = [r \in Routines |-> 0]
      /\ firedOnStartup' = [r \in Routines |-> FALSE]
      /\ stream' = stream /\ took' = took /\ resolved' = resolved
  BY DEF Restart
<1>2. /\ clock \in Nat /\ loadedAt \in Nat /\ loadedAt < clock /\ MaxTime \in Nat
      /\ NumRoutines \in Nat \ {0} /\ 1 \in Routines
  BY RoutinesAssumption DEF IInv, TypeOK, Times, Routines, Restart
<1>3. Asleep \in Check
  BY <1>2 DEF Asleep, Check
<1>4. TypeOK'
  <2>1. /\ lastFired' \in [Routines -> 0..MaxTime] /\ pending' \in [Routines -> 0..MaxTime]
        /\ firedOnStartup' \in [Routines -> BOOLEAN]
    BY <1>1, <1>2
  <2> QED
    BY <1>1, <1>3, <2>1 DEF IInv, TypeOK
<1>5. TimeInv' /\ StepInv' /\ LastInv' /\ PendingInv' /\ ExecInv'
  BY <1>1, <1>2 DEF Asleep, TimeInv, StepInv, LastInv, PendingInv, ExecInv
<1>6. \A r \in Routines : Settled(r)' = Settled(r) /\ Settled(r) \subseteq Nat
  BY <1>1, SettledType DEF IInv, Settled
<1>7. \A r \in Routines : \A o \in Settled(r) : o <= clock
  BY DEF IInv, SettledInv
<1>8. SettledInv'
  BY <1>1, <1>6, <1>7 DEF SettledInv, Anchor
<1>9. EachInTurn'
  <2>1. ASSUME NEW r \in Routines
        PROVE  \A k \in 1..(Len(resolved'[r]) - 1) : resolved'[r][k].occ < resolved'[r][k + 1].occ
    BY <1>1 DEF IInv, EachInTurn
  <2>2. ASSUME NEW r \in Routines, ~OnStartup[r]
        PROVE  {o \in Settled(r)' : o > loadedAt'}
               = {d \in Due[r] : loadedAt' < d /\ d <= lastFired'[r]}
    <3>1. {o \in Settled(r)' : o > loadedAt'} = {}
      BY <1>1, <1>2, <1>6, <1>7
    <3>2. {d \in Due[r] : loadedAt' < d /\ d <= lastFired'[r]} = {}
      BY <1>1, <1>2, RoutinesAssumption DEF Times
    <3> QED
      BY <3>1, <3>2
  <2>3. ASSUME NEW r \in Routines, OnStartup[r]
        PROVE  loadedAt' \in Settled(r)' <=> firedOnStartup'[r]
    <3>1. \A o \in Settled(r) : o <= loadedAt
      BY <2>3 DEF IInv, SettledInv
    <3> QED
      BY <1>1, <1>2, <1>6, <3>1
  <2> QED
    BY <2>1, <2>2, <2>3 DEF EachInTurn
<1>10. DoneMeansDone'
  BY <1>1 DEF IInv, DoneMeansDone
<1> QED
  BY <1>4, <1>5, <1>8, <1>9, <1>10 DEF IInv

\* Every step keeps the invariant.
LEMMA NextInv == IInv /\ [Next]_vars => IInv'
<1> SUFFICES ASSUME IInv, [Next]_vars PROVE IInv'
  OBVIOUS
<1> DEFINE r == check.routine
<1>1. /\ r \in Routines /\ check \in Check /\ check.step \in Nat \ {0}
      /\ clock \in Times /\ clock \in 1..MaxTime /\ loadedAt \in Nat /\ MaxTime \in Nat
      /\ stream \in Seq(Effect) /\ check.now \in 0..MaxTime /\ 1 \in Routines
  BY RoutinesAssumption DEF IInv, TypeOK, Check, Times, Routines
<1>2. check.now <= clock /\ loadedAt <= clock /\ (check.pc # "sleep" => loadedAt <= check.now)
  BY DEF IInv, TimeInv
<1>3. CASE Tick
  <2>1. clock' \in Times /\ clock <= clock'
    BY <1>1, <1>3 DEF Tick, Times
  <2>2. UNCHANGED <<loadedAt, state, resolved, took>> /\ check' = check /\ stream' = stream
    BY <1>3 DEF Tick
  <2>3. check.now <= clock'
    BY <1>1, <1>2, <1>3 DEF Tick
  <2>4. StepInv'
    BY <2>2 DEF IInv, StepInv
  <2> QED
    BY <1>1, <1>2, <2>1, <2>2, <2>3, <2>4, KeepStep
<1>4. CASE Restart
  BY <1>4, RestartInv
<1>5. CASE StartCheck
  <2>1. check' = [pc |-> "evaluate", now |-> clock, routine |-> 1, step |-> 1]
    BY <1>5 DEF StartCheck
  <2>2. check' \in Check /\ check'.now = clock /\ check'.pc = "evaluate" /\ StepInv'
    BY <1>1, <2>1 DEF Check, StepInv
  <2>3. UNCHANGED <<clock, loadedAt, state, stream, took, resolved>>
    BY <1>5 DEF StartCheck
  <2> QED
    BY <1>1, <1>2, <2>2, <2>3, KeepStep
<1>6. ASSUME check.pc # "sleep", NextRoutine, UNCHANGED <<clock, loadedAt, state, took, resolved>>,
             stream' \in Seq(Effect)
      PROVE  IInv'
  <2>1. check' \in Check /\ check'.pc # "execute" /\ check'.now = check.now /\ StepInv'
    BY <1>6, NextRoutineInv DEF IInv
  <2> QED
    BY <1>1, <1>2, <1>6, <2>1, KeepStep
<1>7. ASSUME check.pc = "evaluate", NotDue(r) PROVE IInv'
  BY <1>1, <1>6, <1>7 DEF NotDue
<1>8. ASSUME Owed(r) PROVE /\ Occurrence(r) \in Times /\ Occurrence(r) <= clock
                           /\ ~firedOnStartup[r] /\ Occurrence(r) # 0
  <2>1. Occurrence(r) \in 1..check.now /\ ~firedOnStartup[r]
    BY <1>8 DEF Owed
  <2> QED
    BY <1>1, <1>2, <2>1 DEF Times
<1>9. ASSUME check.pc = "evaluate", Discard(r) PROVE IInv'
  <2>1. /\ Owed(r) /\ Resolve(r, "stale") /\ NextRoutine
        /\ UNCHANGED <<clock, loadedAt, stream, took>>
    BY <1>9 DEF Discard
  <2> QED
    BY <1>8, <1>9, <2>1, ResolveStep DEF Verdicts
<1>10. ASSUME check.pc = "evaluate", BecomesDue(r) PROVE IInv'
  <2> DEFINE o == Occurrence(r)
  <2>1. /\ o \in Times /\ o \in 1..MaxTime /\ o <= clock /\ ~firedOnStartup[r] /\ o # 0
    BY <1>8, <1>10 DEF BecomesDue, Times
  <2>2. o = NextOne(r)
    BY <1>1, OccurrenceIsNext
  <2> HIDE DEF o
  <2>3. /\ pending' = [pending EXCEPT ![r] = o] /\ check' = [check EXCEPT !.pc = "execute"]
        /\ UNCHANGED <<clock, loadedAt, lastFired, firedOnStartup, stream, took, resolved>>
    BY <1>10 DEF BecomesDue, o
  <2>4. pending \in [Routines -> 0..MaxTime]
    BY DEF IInv, TypeOK
  <2>5. /\ pending' \in [Routines -> 0..MaxTime] /\ pending'[r] = o
        /\ \A q \in Routines : q # r => pending'[q] = pending[q]
    BY <1>1, <2>1, <2>3, <2>4
  <2>6. /\ check' \in Check /\ check'.routine = r /\ check'.step = check.step
        /\ check'.now = check.now
    BY <1>1, <2>3 DEF Check
  <2>7. \A q \in Routines : Settled(q)' = Settled(q) /\ NextOne(q)' = NextOne(q)
                            /\ Anchor(q)' = Anchor(q)
    BY <2>3 DEF Settled, NextOne, Anchor
  <2>8. TypeOK' /\ TimeInv' /\ LastInv'
    BY <1>10, <2>3, <2>5, <2>6 DEF IInv, TypeOK, TimeInv, LastInv
  <2>9. PendingInv'
    BY <2>1, <2>2, <2>3, <2>5, <2>7 DEF IInv, PendingInv
  <2>10. ExecInv'
    <3>1. check.step = 1
      BY <1>10 DEF IInv, StepInv
    <3>2. Len(Steps[r]) \in Nat
      BY <1>1, RoutinesAssumption
    <3> QED
      BY <2>1, <2>5, <2>6, <3>1, <3>2 DEF ExecInv
  <2>11. SettledInv' /\ EachInTurn' /\ DoneMeansDone'
    BY <2>3, <2>7 DEF IInv, SettledInv, EachInTurn, DoneMeansDone
  <2>12. StepInv'
    BY <2>3, <1>1 DEF StepInv, Check
  <2> QED
    BY <2>8, <2>9, <2>10, <2>11, <2>12 DEF IInv
<1>11. ASSUME check.pc = "execute",
              UNCHANGED <<clock, loadedAt, state, resolved>>, StepDone(r),
              check.step <= Len(Steps[r]), stream' \in Seq(Effect)
       PROVE  IInv'
  <2>1. /\ check' \in Check /\ check'.now = check.now /\ check'.pc = "execute"
        /\ took' \subseteq Effect /\ ExecInv' /\ DoneMeansDone'
    BY <1>11, StepDoneInv
  <2>2. UNCHANGED <<lastFired, pending, firedOnStartup>>
    BY <1>11 DEF state
  <2>3. \A q \in Routines : Settled(q)' = Settled(q) /\ NextOne(q)' = NextOne(q)
                            /\ Anchor(q)' = Anchor(q)
    BY <1>11, <2>2 DEF Settled, NextOne, Anchor
  <2>4. TypeOK' /\ TimeInv' /\ StepInv' /\ LastInv'
    BY <1>11, <2>1, <2>2 DEF IInv, TypeOK, TimeInv, StepInv, LastInv
  <2>5. PendingInv' /\ SettledInv' /\ EachInTurn'
    BY <1>11, <2>2, <2>3 DEF IInv, PendingInv, SettledInv, EachInTurn
  <2> QED
    BY <2>1, <2>4, <2>5 DEF IInv
<1>12. ASSUME check.pc = "execute", SpeakPublished(r) PROVE IInv'
  <2>1. ThisEffect(r) \in Effect
    BY <1>12, ExecutedIsOpen
  <2>2. stream' \in Seq(Effect)
    BY <1>1, <1>12, <2>1 DEF SpeakPublished, Publishes
  <2> QED
    BY <1>11, <1>12, <2>2 DEF SpeakPublished, At
<1>13. ASSUME check.pc = "execute", AgentSucceeds(r) PROVE IInv'
  BY <1>1, <1>11, <1>13 DEF AgentSucceeds, At
<1>14. ASSUME check.pc = "execute", SpeakFails(r) PROVE IInv'
  <2>1. ThisEffect(r) \in Effect
    BY <1>14, ExecutedIsOpen
  <2>2. stream' \in Seq(Effect)
    BY <1>1, <1>14, <2>1 DEF SpeakFails, Publishes
  <2> QED
    BY <1>6, <1>14, <2>2 DEF SpeakFails, RetryLater
<1>15. ASSUME check.pc = "execute", AgentFails(r) PROVE IInv'
  BY <1>1, <1>6, <1>15 DEF AgentFails, RetryLater
<1>16. ASSUME check.pc = "execute" PROVE /\ Occurrence(r) \in Times /\ Occurrence(r) <= clock
                                         /\ ~firedOnStartup[r] /\ Occurrence(r) = pending[r]
  BY <1>16, ExecutedIsOpen
<1>17. ASSUME check.pc = "execute", AgentRefused(r) PROVE IInv'
  <2>1. /\ Resolve(r, "refused") /\ NextRoutine
        /\ UNCHANGED <<clock, loadedAt, stream, took>>
    BY <1>17 DEF AgentRefused
  <2> QED
    BY <1>16, <1>17, <2>1, ResolveStep DEF Verdicts
<1>18. ASSUME check.pc = "execute", Completed(r) PROVE IInv'
  <2>1. /\ Resolve(r, "done") /\ NextRoutine
        /\ UNCHANGED <<clock, loadedAt, stream, took>>
        /\ check.step > Len(Steps[r])
    BY <1>18 DEF Completed
  <2>2. \A i \in 1..Len(Steps[r]) : i \in 1..(check.step - 1)
    <3>1. Len(Steps[r]) \in Nat
      BY <1>1, RoutinesAssumption
    <3> QED
      BY <1>1, <2>1, <3>1
  <2>3. \A i \in 1..Len(Steps[r]) : [routine |-> r, occ |-> Occurrence(r), step |-> i] \in took
    BY <1>16, <1>18, <2>2 DEF IInv, ExecInv
  <2> QED
    BY <1>16, <1>18, <2>1, <2>3, ResolveStep DEF Verdicts
<1>19. CASE UNCHANGED vars
  <2>1. UNCHANGED <<clock, loadedAt, state, check, stream, took, resolved>>
    BY <1>19 DEF vars
  <2>2. StepInv'
    BY <2>1 DEF IInv, StepInv
  <2> QED
    BY <1>1, <1>2, <2>1, <2>2, KeepStep
<1>20. CASE Evaluate
  BY <1>7, <1>9, <1>10, <1>20 DEF Evaluate
<1>21. CASE Execute
  BY <1>12, <1>13, <1>14, <1>15, <1>17, <1>18, <1>21 DEF Execute
<1> QED
  BY <1>3, <1>4, <1>5, <1>19, <1>20, <1>21 DEF Next

----------------------------------------------------------------------------
(* Theorems. *)

\* The inductive invariant holds in every state of RoutineManager, whatever the
\* routines are, how often the process restarts, and whatever fails.
THEOREM Invariance == Spec => []IInv
BY InitInv, NextInv, PTL DEF Spec

\* The state of RoutineManager, of a check_due in progress and of the stream
\* keep their types.
THEOREM TypeCorrect == Spec => []TypeOK
BY Invariance, PTL DEF IInv

\* The occurrences _resolve has settled since this process loaded its routines
\* are exactly those between its start and last_fired_occurrence, each once and
\* in order.
THEOREM InTurn == Spec => []EachInTurn
BY Invariance, PTL DEF IInv

\* An occurrence is resolved as completed only when every step of its chain has
\* succeeded, and _execute_action never gets ahead of a step.
THEOREM Done == Spec => []DoneMeansDone
BY Invariance, PTL DEF IInv

\* Nothing takes effect, and nothing is published, for an occurrence that
\* _resolve has settled or that belongs to an earlier process.
THEOREM Final == Spec => SettledIsFinal
<1> DEFINE Good == /\ \A e \in took' \ took : StillOpen(e)
                   /\ \A i \in (Len(stream) + 1)..Len(stream') : StillOpen(stream'[i])
<1>1. IInv /\ [Next]_vars => [Good]_vars
  <2> SUFFICES ASSUME IInv, [Next]_vars PROVE Good \/ UNCHANGED vars
    OBVIOUS
  <2> DEFINE r == check.routine
  <2>1. stream \in Seq(Effect) /\ Len(stream) \in Nat
    BY LenProperties DEF IInv, TypeOK
  <2>2. ASSUME UNCHANGED <<stream, took>> PROVE Good
    BY <2>1, <2>2
  <2>3. ASSUME check.pc = "execute"
        PROVE  ThisEffect(r) \in Effect /\ StillOpen(ThisEffect(r))
    BY <2>3, ExecutedIsOpen
  <2>4. ASSUME check.pc = "execute", Publishes(r)
        PROVE  \A i \in (Len(stream) + 1)..Len(stream') : StillOpen(stream'[i])
    <3>1. stream' = Append(stream, ThisEffect(r)) /\ ThisEffect(r) \in Effect
      BY <2>3, <2>4 DEF Publishes
    <3>2. Len(stream') = Len(stream) + 1 /\ stream'[Len(stream) + 1] = ThisEffect(r)
      BY <2>1, <3>1
    <3> QED
      BY <2>1, <2>3, <2>4, <3>2
  <2>5. ASSUME check.pc = "execute", StepDone(r)
        PROVE  \A e \in took' \ took : StillOpen(e)
    BY <2>3, <2>5 DEF StepDone
  <2>6. ASSUME UNCHANGED stream
        PROVE  \A i \in (Len(stream) + 1)..Len(stream') : StillOpen(stream'[i])
    BY <2>1, <2>6
  <2>7. CASE Tick \/ Restart \/ StartCheck
    BY <2>2, <2>7 DEF Tick, Restart, StartCheck
  <2>8. CASE Evaluate
    BY <2>2, <2>8 DEF Evaluate, NotDue, Discard, BecomesDue
  <2>9. ASSUME check.pc = "execute", SpeakPublished(r) PROVE Good
    BY <2>4, <2>5, <2>9 DEF SpeakPublished
  <2>10. ASSUME check.pc = "execute", AgentSucceeds(r) PROVE Good
    BY <2>5, <2>6, <2>10 DEF AgentSucceeds
  <2>11. ASSUME check.pc = "execute", SpeakFails(r) PROVE Good
    BY <2>4, <2>6, <2>11 DEF SpeakFails
  <2>12. ASSUME check.pc = "execute", AgentFails(r) \/ AgentRefused(r) \/ Completed(r) PROVE Good
    BY <2>2, <2>12 DEF AgentFails, AgentRefused, Completed
  <2>13. CASE Execute
    BY <2>9, <2>10, <2>11, <2>12, <2>13 DEF Execute
  <2> QED
    BY <2>7, <2>8, <2>13 DEF Next
<1> QED
  BY <1>1, Invariance, PTL DEF Spec, SettledIsFinal

============================================================================

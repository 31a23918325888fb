----------------------- MODULE RoutineDeliveryProofs -----------------------
(***************************************************************************)
(* At-least-once delivery for every number of entries, every MAXLEN and    *)
(* every count: nothing Redis delivered is lost, and nothing confirmed is  *)
(* spoken again.  And the order of delivery, as long as no more entries    *)
(* wait for their confirmation than one replay reads.                      *)
(***************************************************************************)
EXTENDS RoutineDelivery, FiniteSetTheorems, TLAPS

\* What the loop has in hand: nothing between two reads, one entry while it
\* speaks and confirms, which is finished once it is to be confirmed.
HandInv ==
  /\ consumer.pc \in {"connect", "replay", "read"} => consumer.batch = {}
  /\ consumer.pc \in {"speak", "ack"} =>
       consumer.msg \in Messages /\ consumer.msg \notin consumer.batch
  /\ consumer.pc = "ack" => consumer.msg \in Finished

\* The inductive invariant.
IInv == TypeOK /\ HandInv /\ ConfirmedIsOver /\ NothingLost

----------------------------------------------------------------------------
(* Oldest. *)

\* A read returns entries of what it reads from.
LEMMA OldestSubset == \A S, n : Oldest(S, n) \subseteq S
BY DEF Oldest

\* A read leaves no gap: what is older than an entry it returns is returned too.
LEMMA OldestNoGap ==
  ASSUME NEW S \in SUBSET Nat, IsFiniteSet(S), NEW n \in Nat,
         NEW last \in Oldest(S, n), NEW m \in S, m <= last
  PROVE  m \in Oldest(S, n)
<1> DEFINE Below(x) == {k \in S : k < x}
<1>1. last \in S /\ Cardinality(Below(last)) < n
  BY DEF Oldest
<1>2. Below(m) \subseteq Below(last)
  <2>1. m \in Nat /\ last \in Nat
    BY <1>1
  <2>2. ASSUME NEW k \in S, k < m PROVE k < last
    <3>1. k \in Nat
      OBVIOUS
    <3> QED
      BY <2>1, <2>2, <3>1
  <2> QED
    BY <2>2
<1>3. IsFiniteSet(Below(last))
  BY FS_Subset, Below(last) \subseteq S
<1>4. IsFiniteSet(Below(m)) /\ Cardinality(Below(m)) <= Cardinality(Below(last))
  BY <1>2, <1>3, FS_Subset
<1>5. Cardinality(Below(m)) \in Nat /\ Cardinality(Below(last)) \in Nat
  BY <1>3, <1>4, FS_CardinalityType
<1>6. Cardinality(Below(m)) < n
  BY <1>1, <1>4, <1>5
<1> QED
  BY <1>6 DEF Oldest

----------------------------------------------------------------------------
(* The steps. *)

\* Init satisfies the invariant.
LEMMA InitInv == Init => IInv
BY DeliveryAssumption
DEF Init, IInv, TypeOK, HandInv, ConfirmedIsOver, NothingLost, InHand, Finished,
    Consumer, Fresh, Messages

\* What was handed over is in the pending entries list, and the group has
\* skipped only what was trimmed.
LEMMA HandFacts ==
  ASSUME TypeOK, Hand(Oldest(Undelivered, BatchSize))
  PROVE  /\ delivered' \in 0..written /\ delivered <= delivered'
         /\ pel' = pel \cup Oldest(Undelivered, BatchSize)
         /\ pel' \subseteq 1..delivered'
         /\ \A m \in 1..delivered' : m <= delivered \/ m \in pel' \/ m <= trimmed
<1> DEFINE B == Oldest(Undelivered, BatchSize)
<1>1. PICK last \in B : (\A m \in B : m <= last) /\ delivered' = last
  BY DEF Hand
<1>2. B \subseteq Undelivered
  BY OldestSubset
<1>3. written \in Nat /\ delivered \in Nat /\ trimmed \in Nat /\ delivered <= written
  BY DeliveryAssumption DEF TypeOK
<1>4. /\ Undelivered \subseteq 1..written /\ Undelivered \in SUBSET Nat
      /\ IsFiniteSet(Undelivered)
  <2>1. Undelivered \subseteq 1..written
    BY DEF Undelivered
  <2>2. IsFiniteSet(1..written)
    BY <1>3, FS_Interval
  <2>3. IsFiniteSet(Undelivered)
    BY <2>1, <2>2, FS_Subset
  <2>4. 1..written \subseteq Nat
    BY <1>3
  <2> QED
    BY <2>1, <2>3, <2>4
<1>5. last \in 1..written /\ last > delivered
  BY <1>2, <1>4 DEF Undelivered
<1>6. pel' = pel \cup B
  BY DEF Hand
<1>7. pel' \subseteq 1..delivered'
  <2>1. ASSUME NEW m \in B PROVE m \in 1..delivered'
    <3>1. m \in 1..written
      BY <1>2, <1>4
    <3> QED
      BY <1>1, <1>3, <1>5, <3>1
  <2>2. ASSUME NEW m \in pel PROVE m \in 1..delivered'
    <3>1. m \in 1..delivered
      BY DEF TypeOK
    <3> QED
      BY <1>1, <1>3, <1>5, <3>1
  <2> QED
    BY <1>6, <2>1, <2>2
<1>8. ASSUME NEW m \in 1..delivered', m > delivered, m > trimmed
      PROVE  m \in pel'
  <2>1. m \in Undelivered
    BY <1>1, <1>3, <1>5, <1>8 DEF Undelivered
  <2>2. m \in B
    BY <1>1, <1>4, <1>8, <2>1, OldestNoGap, DeliveryAssumption
  <2> QED
    BY <1>6, <2>2
<1> QED
  BY <1>1, <1>3, <1>5, <1>6, <1>7, <1>8

\* Each action keeps the invariant.
LEMMA NextInv == IInv /\ [Next]_vars => IInv'
<1> SUFFICES ASSUME IInv, [Next]_vars PROVE IInv'
  OBVIOUS
<1> USE DeliveryAssumption DEF IInv, HandInv, ConfirmedIsOver, InHand, Finished, Messages
<1>1. CASE Publish
  <2>1. written' \in 0..NumMessages /\ written <= written'
    BY <1>1 DEF Publish, TypeOK
  <2>2. trimmed' \in 0..written' /\ trimmed <= trimmed'
    BY <1>1, <2>1 DEF Publish, Trims, TypeOK
  <2>3. TypeOK'
    BY <1>1, <2>1, <2>2 DEF Publish, TypeOK
  <2>4. NothingLost'
    BY <1>1, <2>2 DEF Publish, NothingLost, TypeOK
  <2> QED
    BY <1>1, <2>3, <2>4 DEF Publish
<1>2. CASE \E S \in SUBSET ((1..written) \ expired) : Expire(S)
  BY <1>2 DEF Expire, TypeOK, NothingLost
<1>3. CASE Connect
  BY <1>3 DEF Connect, Goto, TypeOK, Consumer, NothingLost
<1>4. CASE ReadOwn
  <2> DEFINE own == Oldest(pel, ReplayCount)
  <2>1. own \subseteq pel /\ pel \subseteq Messages
    BY OldestSubset DEF TypeOK
  <2>2. consumer' = [consumer EXCEPT !.pc = "deliver", !.batch = own,
                                     !.blank = {m \in own : m <= trimmed}]
    BY <1>4 DEF ReadOwn
  <2>3. consumer' \in Consumer
    BY <2>1, <2>2 DEF TypeOK, Consumer
  <2>4. UNCHANGED <<written, trimmed, delivered, pel, expired, heard, dropped>>
    BY <1>4 DEF ReadOwn
  <2>5. consumer'.pc = "deliver" /\ consumer'.batch = own
    BY <2>2 DEF TypeOK, Consumer
  <2> HIDE DEF own
  <2> QED
    BY <2>1, <2>3, <2>4, <2>5 DEF TypeOK, NothingLost
<1>5. CASE ReadNew
  <2> DEFINE B == Oldest(Undelivered, BatchSize)
  <2>1. Hand(B)
    BY <1>5 DEF ReadNew
  <2>2. /\ delivered' \in 0..written /\ delivered <= delivered'
        /\ pel' = pel \cup B
        /\ pel' \subseteq 1..delivered'
        /\ \A m \in 1..delivered' : m <= delivered \/ m \in pel' \/ m <= trimmed
    BY <2>1, HandFacts
  <2>3. UNCHANGED <<written, trimmed, expired, heard, dropped>>
    BY <1>5 DEF ReadNew
  <2>4. consumer' = [consumer EXCEPT !.pc = "deliver", !.batch = B]
    BY <1>5 DEF ReadNew
  <2> HIDE DEF B
  <2>5. B \subseteq Messages
    BY <2>2 DEF TypeOK
  <2>6. consumer' \in Consumer /\ consumer'.pc = "deliver" /\ consumer'.batch = B
    BY <2>4, <2>5 DEF TypeOK, Consumer
  <2>7. NothingLost'
    BY <2>2, <2>3 DEF NothingLost, TypeOK
  <2> QED
    BY <2>2, <2>3, <2>6, <2>7 DEF TypeOK
<1>6. CASE RedisFails
  BY <1>6 DEF RedisFails, Reconnect, Fresh, TypeOK, Consumer, NothingLost
<1>7. CASE ReplyLost
  <2>1. /\ delivered' \in 0..written /\ delivered <= delivered'
        /\ pel' \subseteq 1..delivered' /\ pel \subseteq pel'
        /\ \A m \in 1..delivered' : m <= delivered \/ m \in pel' \/ m <= trimmed
    BY <1>7, HandFacts DEF ReplyLost
  <2>2. UNCHANGED <<written, trimmed, expired, heard, dropped>> /\ consumer' = Fresh
    BY <1>7 DEF ReplyLost, Reconnect
  <2>3. NothingLost'
    BY <2>1, <2>2 DEF NothingLost, TypeOK
  <2> QED
    BY <2>1, <2>2, <2>3 DEF TypeOK, Consumer, Fresh
<1>8. ASSUME NEW m \in Messages, YieldMessage(m) PROVE IInv'
  <2>1. consumer.pc = "deliver" /\ m \in consumer.batch
    BY <1>8 DEF YieldMessage, Yields
  <2>2. consumer' = [consumer EXCEPT !.pc = "speak", !.msg = m, !.batch = @ \ {m}]
    BY <1>8 DEF YieldMessage
  <2>3. UNCHANGED <<written, trimmed, delivered, pel, expired, heard, dropped>>
    BY <1>8 DEF YieldMessage
  <2>4. /\ consumer' \in Consumer
        /\ consumer'.pc = "speak" /\ consumer'.msg = m
        /\ consumer'.batch = consumer.batch \ {m}
    <3> DEFINE rest == consumer.batch \ {m}
    <3>1. consumer \in Consumer /\ m \in 0..NumMessages
      BY DEF TypeOK
    <3>2. rest \in SUBSET Messages
      BY <3>1 DEF Consumer
    <3>3. consumer' = [consumer EXCEPT !.pc = "speak", !.msg = m, !.batch = rest]
      BY <2>2
    <3> HIDE DEF rest
    <3>4. consumer' \in Consumer
      BY <3>1, <3>2, <3>3 DEF Consumer
    <3>5. consumer'.pc = "speak" /\ consumer'.msg = m /\ consumer'.batch = rest
      BY <3>1, <3>3 DEF Consumer
    <3> QED
      BY <3>4, <3>5 DEF rest
  <2> QED
    BY <2>1, <2>3, <2>4 DEF TypeOK, NothingLost
<1>9. ASSUME NEW m \in Messages, YieldRaises(m) PROVE IInv'
  BY <1>9 DEF YieldRaises, Yields, Goto, TypeOK, Consumer, NothingLost
<1>10. CASE BatchDone
  BY <1>10 DEF BatchDone, Fresh, TypeOK, Consumer, NothingLost
<1>11. CASE Speak
  BY <1>11 DEF Speak, Goto, TypeOK, Consumer, NothingLost
<1>12. CASE GiveUp
  BY <1>12 DEF GiveUp, Goto, TypeOK, Consumer, NothingLost
<1>13. CASE Ack
  BY <1>13 DEF Ack, Goto, TypeOK, Consumer, NothingLost
<1>14. CASE AckFails
  BY <1>14 DEF AckFails, Goto, TypeOK, Consumer, NothingLost
<1>15. CASE Crash
  BY <1>15 DEF Crash, Fresh, TypeOK, Consumer, NothingLost
<1>16. CASE UNCHANGED vars
  BY <1>16 DEF vars, TypeOK, NothingLost
<1> QED
  BY <1>1, <1>2, <1>3, <1>4, <1>5, <1>6, <1>7, <1>8, <1>9, <1>10, <1>11, <1>12, <1>13,
     <1>14, <1>15, <1>16
  DEF Next, Voice, Yield, Finish

----------------------------------------------------------------------------
(* Theorems. *)

\* The invariant holds in every reachable state.
THEOREM Invariance == Spec => []IInv
<1>1. Init => IInv
  BY InitInv
<1>2. IInv /\ [Next]_vars => IInv'
  BY NextInv
<1> QED
  BY <1>1, <1>2, PTL DEF Spec

\* Redis, the generator and the loop keep values of their types.
THEOREM TypeCorrect == Spec => []TypeOK
<1>1. IInv => TypeOK
  BY DEF IInv
<1> QED
  BY <1>1, Invariance, PTL

\* No lost reply, failed confirmation or crash of the voice process makes an
\* entry disappear that Redis has delivered.
THEOREM AtLeastOnce == Spec => []NothingLost
<1>1. IInv => NothingLost
  BY DEF IInv
<1> QED
  BY <1>1, Invariance, PTL

\* Only unconfirmed entries are in the hands of the loop.
THEOREM NeverAfterAck == Spec => []ConfirmedIsOver
<1>1. IInv => ConfirmedIsOver
  BY DEF IInv
<1> QED
  BY <1>1, Invariance, PTL

----------------------------------------------------------------------------
(* The order, when one replay reads all that waits. *)

\* No more entries wait for their confirmation than the XREADGROUP from "0" reads.
FewWait == Cardinality(pel) <= ReplayCount

\* What waits for a confirmation and is not finished is in hand, once the own
\* entries have been read.
OldInHand ==
  consumer.pc \in {"read", "deliver", "speak", "ack"} => pel \subseteq Finished \cup InHand

\* The entry that is spoken is the next one.
InTurn ==
  consumer.pc = "speak" =>
    \A k \in 1..(consumer.msg - 1) : k \in Finished \/ k <= trimmed

OrderInv == OldInHand /\ InTurn /\ InOrder

\* A replay that is long enough returns everything.
LEMMA OldestAll ==
  ASSUME NEW S \in SUBSET Nat, IsFiniteSet(S), NEW n \in Nat, Cardinality(S) <= n
  PROVE  Oldest(S, n) = S
<1> SUFFICES ASSUME NEW m \in S PROVE m \in Oldest(S, n)
  BY OldestSubset
<1> DEFINE Below == {k \in S : k < m}
<1>1. IsFiniteSet(S \ {m}) /\ Cardinality(S \ {m}) = Cardinality(S) - 1
  BY FS_RemoveElement
<1>2. Below \subseteq S \ {m}
  <2>1. \A k \in S : k \in Nat
    OBVIOUS
  <2> QED
    BY <2>1
<1>3. IsFiniteSet(Below) /\ Cardinality(Below) <= Cardinality(S) - 1
  BY <1>1, <1>2, FS_Subset
<1>4. Cardinality(Below) \in Nat /\ Cardinality(S) \in Nat
  BY <1>3, FS_CardinalityType
<1>5. Cardinality(Below) < n
  BY <1>3, <1>4
<1> QED
  BY <1>5 DEF Oldest

\* The pending entries list is a finite set of entries.
LEMMA PelFinite ==
  ASSUME TypeOK
  PROVE  pel \in SUBSET Nat /\ IsFiniteSet(pel)
<1>1. delivered \in Nat /\ pel \subseteq 1..delivered
  BY DeliveryAssumption DEF TypeOK
<1>2. IsFiniteSet(1..delivered)
  BY <1>1, FS_Interval
<1>3. IsFiniteSet(pel)
  BY <1>1, <1>2, FS_Subset
<1> QED
  BY <1>1, <1>3

\* An entry is yielded when all the older ones are finished or gone.
LEMMA YieldInTurn ==
  ASSUME IInv, OldInHand, NEW m \in Messages, Yields(m), NEW k \in 1..(m - 1)
  PROVE  k \in Finished \/ k <= trimmed
<1>1. m \in pel /\ pel \subseteq 1..delivered /\ delivered \in Nat /\ m \in Nat
  BY DeliveryAssumption DEF IInv, TypeOK, ConfirmedIsOver, InHand, Yields, Messages
<1>2. k \in 1..delivered /\ k < m /\ ~(m <= k)
  BY <1>1
<1>3. k \in Finished \/ k \in pel \/ k <= trimmed
  BY <1>2 DEF IInv, NothingLost
<1>4. k \in pel => k \in Finished \cup consumer.batch
  BY DEF OldInHand, Yields, InHand
<1>5. k \notin consumer.batch
  BY <1>2 DEF Yields
<1> QED
  BY <1>3, <1>4, <1>5

\* Each action keeps the order.
LEMMA NextOrder ==
  ASSUME FewWait, IInv, OrderInv, [Next]_vars
  PROVE  OrderInv'
<1> USE DeliveryAssumption DEF OrderInv, OldInHand, InTurn, InOrder, InHand, Finished
<1>1. CASE Publish
  <2>1. trimmed' \in Nat /\ trimmed \in Nat /\ trimmed <= trimmed'
    BY <1>1 DEF Publish, Trims, IInv, TypeOK
  <2>2. UNCHANGED <<consumer, pel, heard, dropped>>
    BY <1>1 DEF Publish
  <2>3. \A k \in Nat : k <= trimmed => k <= trimmed'
    BY <2>1
  <2> QED
    BY <2>2, <2>3
<1>2. CASE \E S \in SUBSET ((1..written) \ expired) : Expire(S)
  BY <1>2 DEF Expire
<1>3. CASE Connect
  BY <1>3 DEF Connect, Goto, IInv, TypeOK, Consumer
<1>4. CASE ReadOwn
  <2>1. Oldest(pel, ReplayCount) = pel
    BY OldestAll, PelFinite DEF FewWait, IInv
  <2>2. consumer' = [consumer EXCEPT !.pc = "deliver", !.batch = pel,
                                     !.blank = {m \in pel : m <= trimmed}]
    BY <1>4, <2>1 DEF ReadOwn
  <2>3. consumer'.pc = "deliver" /\ consumer'.batch = pel
    BY <2>2 DEF IInv, TypeOK, Consumer
  <2>4. UNCHANGED <<trimmed, pel, heard, dropped>>
    BY <1>4 DEF ReadOwn
  <2> QED
    BY <2>3, <2>4
<1>5. CASE ReadNew
  <2> DEFINE B == Oldest(Undelivered, BatchSize)
  <2>1. consumer.pc = "read" /\ pel' = pel \cup B
    BY <1>5 DEF ReadNew, Hand
  <2>2. consumer.batch = {}
    BY <2>1 DEF IInv, HandInv
  <2>3. pel \subseteq heard \cup dropped
    BY <2>1, <2>2
  <2>4. consumer' = [consumer EXCEPT !.pc = "deliver", !.batch = B]
    BY <1>5 DEF ReadNew
  <2> HIDE DEF B
  <2>5. consumer'.pc = "deliver" /\ consumer'.batch = B
    BY <2>4 DEF IInv, TypeOK, Consumer
  <2>6. UNCHANGED <<trimmed, heard, dropped>>
    BY <1>5 DEF ReadNew
  <2> QED
    BY <2>1, <2>3, <2>5, <2>6
<1>6. CASE RedisFails
  BY <1>6 DEF RedisFails, Reconnect, Fresh
<1>7. CASE ReplyLost
  BY <1>7 DEF ReplyLost, Reconnect, Fresh
<1>8. ASSUME NEW m \in Messages, YieldMessage(m) PROVE OrderInv'
  <2>1. Yields(m) /\ consumer.pc = "deliver"
    BY <1>8 DEF YieldMessage, Yields
  <2>2. consumer' = [consumer EXCEPT !.pc = "speak", !.msg = m, !.batch = @ \ {m}]
    BY <1>8 DEF YieldMessage
  <2>3. /\ consumer'.pc = "speak" /\ consumer'.msg = m
        /\ consumer'.batch = consumer.batch \ {m}
    BY <2>2 DEF IInv, TypeOK, Consumer
  <2>4. UNCHANGED <<trimmed, pel, heard, dropped>>
    BY <1>8 DEF YieldMessage
  <2>5. \A k \in 1..(m - 1) : k \in Finished \/ k <= trimmed
    BY <2>1, YieldInTurn
  <2>6. pel \subseteq heard \cup dropped \cup consumer.batch
    BY <2>1
  <2> QED
    BY <2>3, <2>4, <2>5, <2>6
<1>9. ASSUME NEW m \in Messages, YieldRaises(m) PROVE OrderInv'
  BY <1>9 DEF YieldRaises, Goto, IInv, TypeOK, Consumer
<1>10. CASE BatchDone
  BY <1>10 DEF BatchDone, Fresh
<1>11. CASE Speak
  <2>1. consumer.pc = "speak" /\ heard' = heard \cup {consumer.msg} /\ UNCHANGED dropped
    BY <1>11 DEF Speak
  <2>2. /\ consumer'.pc = "ack" /\ consumer'.msg = consumer.msg
        /\ consumer'.batch = consumer.batch
    BY <1>11 DEF Speak, Goto, IInv, TypeOK, Consumer
  <2>3. UNCHANGED <<trimmed, pel>>
    BY <1>11 DEF Speak
  <2> QED
    BY <2>1, <2>2, <2>3
<1>12. CASE GiveUp
  <2>1. consumer.pc = "speak" /\ dropped' = dropped \cup {consumer.msg} /\ UNCHANGED heard
    BY <1>12 DEF GiveUp
  <2>2. /\ consumer'.pc = "ack" /\ consumer'.msg = consumer.msg
        /\ consumer'.batch = consumer.batch
    BY <1>12 DEF GiveUp, Goto, IInv, TypeOK, Consumer
  <2>3. UNCHANGED <<trimmed, pel>>
    BY <1>12 DEF GiveUp
  <2> QED
    BY <2>1, <2>2, <2>3
<1>13. CASE Ack
  BY <1>13 DEF Ack, Goto, IInv, HandInv, TypeOK, Consumer
<1>14. CASE AckFails
  BY <1>14 DEF AckFails, Goto, IInv, HandInv, TypeOK, Consumer
<1>15. CASE Crash
  BY <1>15 DEF Crash, Fresh
<1>16. CASE UNCHANGED vars
  BY <1>16 DEF vars
<1> QED
  BY <1>1, <1>2, <1>3, <1>4, <1>5, <1>6, <1>7, <1>8, <1>9, <1>10, <1>11, <1>12, <1>13,
     <1>14, <1>15, <1>16
  DEF Next, Voice, Yield, Finish

\* Initially nothing is finished and nothing waits.
LEMMA InitOrder == Init => OrderInv
BY DEF Init, OrderInv, OldInHand, InTurn, InOrder, Finished, InHand, Fresh

\* As long as one replay reads all that waits for a confirmation, what an earlier
\* connection left behind is handled before anything new is asked for.
THEOREM OldFirst == Spec /\ []FewWait => []OldBeforeNew
<1>1. Init => OrderInv
  BY InitOrder
<1>2. FewWait /\ IInv /\ OrderInv /\ [Next]_vars => OrderInv'
  BY NextOrder
<1>3. IInv /\ OrderInv => OldBeforeNew
  BY DEF IInv, HandInv, OrderInv, OldInHand, OldBeforeNew, InHand
<1> QED
  BY <1>1, <1>2, <1>3, Invariance, PTL DEF Spec

\* As long as one replay reads all that waits for a confirmation, entries are
\* dealt with in the order they were published, however many there are.
THEOREM Ordered == Spec /\ []FewWait => []InOrder
<1>1. Init => OrderInv
  BY InitOrder
<1>2. FewWait /\ IInv /\ OrderInv /\ [Next]_vars => OrderInv'
  BY NextOrder
<1>3. OrderInv => InOrder
  BY DEF OrderInv
<1> QED
  BY <1>1, <1>2, <1>3, Invariance, PTL DEF Spec

\* The runs are of that kind: there are no more entries than a replay reads.
COROLLARY OrderedRuns ==
  ASSUME ReplayCount >= NumMessages
  PROVE  Spec => [](OldBeforeNew /\ InOrder)
<1>1. TypeOK => FewWait
  <2> SUFFICES ASSUME TypeOK PROVE FewWait
    OBVIOUS
  <2>1. pel \subseteq 1..NumMessages /\ NumMessages \in Nat
    BY DeliveryAssumption DEF TypeOK
  <2>2. IsFiniteSet(1..NumMessages) /\ Cardinality(1..NumMessages) = NumMessages
    BY <2>1, FS_Interval
  <2>3. Cardinality(pel) <= NumMessages
    BY <2>1, <2>2, FS_Subset
  <2>4. Cardinality(pel) \in Nat /\ ReplayCount \in Nat
    BY PelFinite, FS_CardinalityType, DeliveryAssumption
  <2> QED
    BY <2>1, <2>3, <2>4 DEF FewWait
<1> QED
  BY <1>1, TypeCorrect, OldFirst, Ordered, PTL

============================================================================

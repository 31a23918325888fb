-------------------------- MODULE RoutineDelivery --------------------------
(***************************************************************************)
(* From the stream "routines.due" to the loudspeaker: what                 *)
(* RedisStreamsMessageBus keeps in Redis for the consumer group of the     *)
(* voice process, its generator subscribe, and the loop _consume_routines  *)
(* of VoicePipeline that speaks what it yields.                            *)
(*                                                                         *)
(* The entries of the stream are numbered in the order XADD wrote them.    *)
(* There is one consumer, always of the same name.  Redis keeps what it    *)
(* has; the connection to it, and the voice process, may fail anywhere.    *)
(***************************************************************************)
EXTENDS Naturals, FiniteSets

CONSTANTS
  NumMessages,   \* bound: entries written over a behaviour
  MaxLen,        \* maxlen of XADD
  BatchSize,     \* count of the XREADGROUP for new entries
  ReplayCount    \* count of the XREADGROUP for the consumer's own ones

Messages == 1..NumMessages

ASSUME DeliveryAssumption ==
  /\ NumMessages \in Nat /\ MaxLen \in Nat \ {0}
  /\ BatchSize \in Nat \ {0} /\ ReplayCount \in Nat \ {0}

VARIABLES
  written,    \* Redis: entries 1..written were added
  trimmed,    \* Redis: entries 1..trimmed are gone from the stream
  delivered,  \* Redis: last-delivered-id of the group
  pel,        \* Redis: the pending entries list of the consumer
  expired,    \* the entries whose valid_until is over
  consumer,   \* the voice process: the generator and the loop that uses it
  heard,      \* history: the entries that were spoken
  dropped     \* history: those given up, expired or failed to be spoken

vars == <<written, trimmed, delivered, pel, expired, consumer, heard, dropped>>

----------------------------------------------------------------------------
(* State. *)

\* `batch` are the entries read and not yielded yet, `blank` those of them that
\* came without their payload, `msg` the one the loop handles.
Consumer == [pc : {"connect", "replay", "read", "deliver", "speak", "ack", "dead"},
             batch : SUBSET Messages, blank : SUBSET Messages, msg : 0..NumMessages]

TypeOK ==
  /\ written \in 0..NumMessages
  /\ trimmed \in 0..written
  /\ delivered \in 0..written
  /\ pel \subseteq 1..delivered
  /\ expired \subseteq 1..written
  /\ consumer \in Consumer
  /\ heard \subseteq Messages
  /\ dropped \subseteq Messages

\* run_forever has started the task of _consume_routines.
Fresh == [pc |-> "connect", batch |-> {}, blank |-> {}, msg |-> 0]

Init ==
  /\ written = 0
  /\ trimmed = 0
  /\ delivered = 0
  /\ pel = {}
  /\ expired = {}
  /\ consumer = Fresh
  /\ heard = {}
  /\ dropped = {}

Goto(pc) == consumer' = [consumer EXCEPT !.pc = pc]

----------------------------------------------------------------------------
(* The side of the API, and time. *)

\* MAXLEN ~: what is in front of the last MaxLen entries may be removed, all or
\* a part of it, delivered or not.
Trims(n) ==
  \E t \in trimmed..n : (t = trimmed \/ t + MaxLen <= n) /\ trimmed' = t

\* XADD: a routine that was long in front of it may be late already.
Publish ==
  /\ written < NumMessages
  /\ written' = written + 1
  /\ Trims(written + 1)
  /\ expired' \in {expired, expired \cup {written + 1}}
  /\ UNCHANGED <<delivered, pel, consumer, heard, dropped>>

\* The clock passes the valid_until of the entries S.
Expire(S) ==
  /\ S # {}
  /\ expired' = expired \cup S
  /\ UNCHANGED <<written, trimmed, delivered, pel, consumer, heard, dropped>>

----------------------------------------------------------------------------
(* subscribe. *)

\* Mutated: the newest of S.
Mut_Oldest(S, n) == {m \in S : Cardinality({k \in S : m < k}) < n}

\* The n oldest of S.
Oldest(S, n) == {m \in S : Cardinality({k \in S : k < m}) < n}

\* _ensure_group: from 0 with MKSTREAM, and BUSYGROUP is ignored.  At every
\* connection replayed_own_pel is false.
Connect ==
  /\ consumer.pc = "connect"
  /\ Goto("replay")
  /\ UNCHANGED <<written, trimmed, delivered, pel, expired, heard, dropped>>

\* XREADGROUP from "0": an entry that was trimmed comes without its fields.
ReadOwn ==
  /\ consumer.pc = "replay"
  /\ LET own == Oldest(pel, ReplayCount)
     IN  consumer' = [consumer EXCEPT !.pc = "deliver", !.batch = own,
                                      !.blank = {m \in own : m <= trimmed}]
  /\ UNCHANGED <<written, trimmed, delivered, pel, expired, heard, dropped>>

Undelivered == {m \in 1..written : m > delivered /\ m > trimmed}

\* Mutated: the entries are delivered without a pending entries list.
Mut_Hand(S) ==
  /\ \E last \in S : (\A m \in S : m <= last) /\ delivered' = last
  /\ UNCHANGED pel

\* Mutated: the group does not advance.
Mut_HandAgain(S) ==
  /\ UNCHANGED delivered
  /\ pel' = pel \cup S

\* Redis gives the entries S to the consumer.
Hand(S) ==
  /\ \E last \in S : (\A m \in S : m <= last) /\ delivered' = last
  /\ pel' = pel \cup S

\* XREADGROUP from ">", blocking until there is an entry.
ReadNew ==
  /\ consumer.pc = "read"
  /\ Undelivered # {}
  /\ Hand(Oldest(Undelivered, BatchSize))
  /\ consumer' = [consumer EXCEPT !.pc = "deliver",
                                  !.batch = Oldest(Undelivered, BatchSize)]
  /\ UNCHANGED <<written, trimmed, expired, heard, dropped>>

\* Mutated: replayed_own_pel keeps its value.
Mut_Reconnect ==
  IF consumer.pc = "read" THEN consumer' = consumer ELSE consumer' = Fresh

\* A RedisError: the client is dropped, the own entries are to be read again.
Reconnect == consumer' = Fresh

RedisFails ==
  /\ consumer.pc \in {"connect", "replay", "read"}
  /\ Reconnect
  /\ UNCHANGED <<written, trimmed, delivered, pel, expired, heard, dropped>>

\* The connection is lost behind Redis' back: the entries were delivered, their
\* reply was not.
ReplyLost ==
  /\ consumer.pc = "read"
  /\ Undelivered # {}
  /\ Hand(Oldest(Undelivered, BatchSize))
  /\ Reconnect
  /\ UNCHANGED <<written, trimmed, expired, heard, dropped>>

\* The oldest of the entries read.
Yields(m) ==
  /\ consumer.pc = "deliver" /\ m \in consumer.batch
  /\ \A k \in consumer.batch : m <= k

\* Mutated: the entry is confirmed before it is handled.
Mut_YieldMessage(m) ==
  /\ Yields(m) /\ m \notin consumer.blank
  /\ consumer' = [consumer EXCEPT !.pc = "speak", !.msg = m, !.batch = @ \ {m}]
  /\ pel' = pel \ {m}
  /\ UNCHANGED <<written, trimmed, delivered, expired, heard, dropped>>

YieldMessage(m) ==
  /\ Yields(m) /\ m \notin consumer.blank
  /\ consumer' = [consumer EXCEPT !.pc = "speak", !.msg = m, !.batch = @ \ {m}]
  /\ UNCHANGED <<written, trimmed, delivered, pel, expired, heard, dropped>>

\* _to_bus_message raises no RedisError: the generator ends, and the task of
\* _consume_routines with it.
YieldRaises(m) ==
  /\ Yields(m) /\ m \in consumer.blank
  /\ Goto("dead")
  /\ UNCHANGED <<written, trimmed, delivered, pel, expired, heard, dropped>>

BatchDone ==
  /\ consumer.pc = "deliver" /\ consumer.batch = {}
  /\ consumer' = [Fresh EXCEPT !.pc = "read"]
  /\ UNCHANGED <<written, trimmed, delivered, pel, expired, heard, dropped>>

----------------------------------------------------------------------------
(* _consume_routines. *)

Speak ==
  /\ consumer.pc = "speak" /\ consumer.msg \notin expired
  /\ heard' = heard \cup {consumer.msg}
  /\ Goto("ack")
  /\ UNCHANGED <<written, trimmed, delivered, pel, expired, dropped>>

\* valid_until is over, or the synthesis or the playback raised.
GiveUp ==
  /\ consumer.pc = "speak"
  /\ dropped' = dropped \cup {consumer.msg}
  /\ Goto("ack")
  /\ UNCHANGED <<written, trimmed, delivered, pel, expired, heard>>

Ack ==
  /\ consumer.pc = "ack"
  /\ pel' = pel \ {consumer.msg}
  /\ Goto("deliver")
  /\ UNCHANGED <<written, trimmed, delivered, expired, heard, dropped>>

\* MessageBusError is logged, and the loop goes on with the next entry; if XACK
\* was carried out the failure is the same as a success.
AckFails ==
  /\ consumer.pc = "ack"
  /\ Goto("deliver")
  /\ UNCHANGED <<written, trimmed, delivered, pel, expired, heard, dropped>>

\* The voice process dies, also in the middle of a sentence, and starts again.
Crash ==
  /\ consumer # Fresh
  /\ consumer' = Fresh
  /\ UNCHANGED <<written, trimmed, delivered, pel, expired, heard, dropped>>

----------------------------------------------------------------------------

Yield == \E m \in Messages : YieldMessage(m) \/ YieldRaises(m)

Finish == Speak \/ GiveUp

Voice ==
  \/ Connect \/ ReadOwn \/ ReadNew \/ RedisFails \/ ReplyLost
  \/ Yield \/ BatchDone \/ Finish \/ Ack \/ AckFails \/ Crash

Next == Publish \/ (\E S \in SUBSET ((1..written) \ expired) : Expire(S)) \/ Voice

Spec == Init /\ [][Next]_vars

\* Redis and the voice process fail again and again but not for good: a step the
\* loop comes to over and over is done in the end.
Fairness ==
  /\ SF_vars(Connect) /\ SF_vars(ReadOwn) /\ SF_vars(ReadNew)
  /\ SF_vars(Yield) /\ SF_vars(BatchDone)
  /\ SF_vars(Finish) /\ SF_vars(Ack)

FairSpec == Spec /\ Fairness
----------------------------------------------------------------------------
(* Properties. *)

Finished == heard \cup dropped

InHand == consumer.batch \cup
          (IF consumer.pc \in {"speak", "ack"} THEN {consumer.msg} ELSE {})

\* At least once: an entry Redis has delivered is spoken or given up, or Redis
\* still has it for the consumer, or MAXLEN took it.  No lost reply, failed
\* confirmation or crash makes it disappear.
NothingLost ==
  \A m \in 1..delivered : m \in Finished \/ m \in pel \/ m <= trimmed

\* What is confirmed is over: the entries the process still has in hand are all
\* unconfirmed, so that none is spoken after its confirmation.
ConfirmedIsOver == InHand \subseteq pel

\* MessageBus.spec.md 6.4: what an earlier connection left behind is handled
\* before anything new is asked for.
OldBeforeNew == consumer.pc = "read" => pel \subseteq Finished

\* Entries are dealt with in the order they were published, whatever had to be
\* delivered again.
InOrder ==
  \A m \in Finished : \A k \in 1..(m - 1) : k \in Finished \/ k <= trimmed

\* Every entry is spoken or given up in the end, unless MAXLEN took it first, or
\* the consumer died of one that MAXLEN took.
EveryOneFinished ==
  \A m \in Messages :
    m <= written ~> m \in Finished \/ m <= trimmed \/ consumer.pc = "dead"

\* pipeline.py: no malformed payload ever takes down the loop.
ConsumerSurvives == consumer.pc # "dead"

=============================================================================

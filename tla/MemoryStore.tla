---------------------------- MODULE MemoryStore ----------------------------
(***************************************************************************)
(* The memory stores: InMemoryStore answers in the event loop, under its   *)
(* lock, and SQLiteMemoryStore in a thread, in one statement.  An entry    *)
(* has the number of the call that stored it for its id.  No operation     *)
(* changes an entry, and one that is past its date is found by all of them *)
(* until clear_expired.                                                    *)
(***************************************************************************)
EXTENDS AgentCall

CONSTANT Durable   \* whether it is the SQLite store

ASSUME DurableAssumption == Durable \in BOOLEAN

VARIABLE memory

MemoryTypeOK == memory \in [Calls -> {"absent", "never", "fresh", "expired"}]
MemoryInit == memory = [i \in Calls |-> "absent"]

MemoryReads == {"retrieve", "search", "get_by_type"}
MemoryActions == MemoryReads \cup {"store", "delete", "clear_expired"}

\* What each leaves; delete takes any id, and one that is not there is no error.
MemoryEffects(c, r) ==
  CASE r.action = "store" ->
         {[memory EXCEPT ![c] = IF r.flag THEN "fresh" ELSE "never"]}
    [] r.action = "delete" -> {[memory EXCEPT ![i] = "absent"] : i \in Calls}
    [] r.action = "clear_expired" ->
         {[i \in Calls |-> IF memory[i] = "expired" THEN "absent" ELSE memory[i]]}
    [] OTHER -> {memory}

\* An argument of the wrong type or out of range raises: target "".
ExecuteMemory(c, r) ==
  /\ r.agent = "memory"
  /\ IF r.target = "" THEN AnswerAtOnce(c, r, "RAISED") /\ UNCHANGED memory
     ELSE IF Durable THEN ToThread(c, r, "none") /\ UNCHANGED memory
     ELSE memory' \in MemoryEffects(c, r) /\ AnswerAtOnce(c, r, "SUCCESS")

MemoryDone(c) ==
  /\ At(c, "memory", "working", MemoryActions)
  /\ memory' \in MemoryEffects(c, call[c].req)
  /\ Answer(c, "SUCCESS")

\* The file is locked, or the disk is full: nothing catches it.
MemoryRaises(c) ==
  /\ At(c, "memory", "working", MemoryActions)
  /\ Answer(c, "RAISED")
  /\ UNCHANGED memory

MemoryStep(c) == MemoryDone(c) \/ MemoryRaises(c)

\* An entry's date comes.
Expire ==
  /\ \E i \in Calls : memory[i] = "fresh" /\ memory' = [memory EXCEPT ![i] = "expired"]
  /\ UNCHANGED call

=============================================================================

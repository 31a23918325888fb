--------------------------- MODULE DatabaseAgent ---------------------------
(***************************************************************************)
(* DatabaseAgent on one SQLite file.  An action is a list of operations in *)
(* one engine.begin(): insert, update, delete and execute_query have one,  *)
(* execute_transaction any number.  An operation is "write", "read" or     *)
(* "ddl"; the driver begins a transaction only before the first write, and *)
(* what comes before it commits by itself.                                 *)
(***************************************************************************)
EXTENDS AgentCall

\* `log` is what is committed, in its order, and `tx` what is not yet: pairs of
\* a call and the number of its operation.  `lock` is the call that writes.
VARIABLE db

Entry == Calls \X (Nat \ {0})

DbTypeOK ==
  /\ db \in [lock : 0..MaxCalls, log : Seq(Entry), tx : Seq(Entry)]
  /\ db.lock = 0 => db.tx = <<>>

DbInit == db = [lock |-> 0, log |-> <<>>, tx |-> <<>>]

DbActions == {"execute_query", "insert", "update", "delete", "execute_transaction",
              "list_tables", "get_schema"}

\* A statement that looks destructive, or an update or delete without a where,
\* in the action or in one of its operations: `flag`.
DbConfirms(r) == r.flag /\ r.action \notin {"insert", "list_tables", "get_schema"}

\* Nothing to do is a ValueError, before any thread.
ExecuteDb(c, r) ==
  /\ r.agent = "database"
  /\ IF r.action = "execute_transaction" /\ r.ops = <<>> THEN AnswerAtOnce(c, r, "FAILED")
     ELSE ToThread(c, r, "none")
  /\ UNCHANGED db

Op(c) == call[c].req.ops[call[c].at + 1]
More(c) == At(c, "database", "working", DbActions) /\ call[c].at < Len(call[c].req.ops)
Entered(c) == <<c, call[c].at + 1>>

\* Mutated: each operation commits.
Mut_DbWrite(c) ==
  /\ More(c) /\ Op(c) = "write" /\ db.lock \in {0, c}
  /\ db' = [db EXCEPT !.log = Append(@, Entered(c))]
  /\ GoOn(c, "working")

\* The first write takes the lock of the file, which the commit gives back.
DbWrite(c) ==
  /\ More(c) /\ Op(c) = "write" /\ db.lock \in {0, c}
  /\ db' = [db EXCEPT !.lock = c, !.tx = Append(@, Entered(c))]
  /\ GoOn(c, "working")

DbRead(c) ==
  /\ More(c) /\ Op(c) = "read"
  /\ GoOn(c, "working")
  /\ UNCHANGED db

\* A DDL statement is in the transaction that is open, or committed at once.
DbDefine(c) ==
  /\ More(c) /\ Op(c) = "ddl" /\ db.lock \in {0, c}
  /\ db' = IF db.lock = c THEN [db EXCEPT !.tx = Append(@, Entered(c))]
           ELSE [db EXCEPT !.log = Append(@, Entered(c))]
  /\ GoOn(c, "working")

\* Any operation can raise (no root, no such table, a broken constraint, five
\* seconds of "database is locked"): all is rolled back.
DbFails(c) ==
  /\ At(c, "database", "working", DbActions)
  /\ db' = IF db.lock = c THEN [db EXCEPT !.lock = 0, !.tx = <<>>] ELSE db
  /\ Answer(c, "FAILED")

\* The block of engine.begin() ends.
DbCommit(c) ==
  /\ At(c, "database", "working", DbActions) /\ ~More(c)
  /\ db' = IF db.lock = c THEN [lock |-> 0, log |-> db.log \o db.tx, tx |-> <<>>] ELSE db
  /\ Answer(c, "SUCCESS")

DbStep(c) == DbWrite(c) \/ DbRead(c) \/ DbDefine(c) \/ DbFails(c) \/ DbCommit(c)

=============================================================================

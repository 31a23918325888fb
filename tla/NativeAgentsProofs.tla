------------------------- MODULE NativeAgentsProofs -------------------------
(***************************************************************************)
(* The safety properties of NativeAgents, for any requests, threads, paths *)
(* and branches, from any repository.                                      *)
(***************************************************************************)
EXTENDS NativeAgents, FiniteSetTheorems, SequenceTheorems, TLAPS

----------------------------------------------------------------------------
(* The inductive invariant. *)

\* What a call has, by where it is.
CallInv ==
  \A c \in Calls :
    /\ call[c].pc = "none" => call[c] = NewCall("none", NoRequest, "none", "none")
    /\ call[c].pc # "none" => call[c].req \in Requests
    /\ call[c].pc # "answered" => call[c].status = "none"
    /\ call[c].req.agent = "database" =>
         call[c].pc # "midway" /\ (call[c].pc = "queued" => call[c].at = 0)

\* What the checks before the thread let through.
CheckedInv ==
  \A c \in Calls :
    call[c].pc \in {"queued", "working", "midway"} =>
      /\ call[c].req.agent = "filesystem" =>
           /\ call[c].req.target \in InRoot
           /\ call[c].req.action = "create_file" /\ ~call[c].req.flag => call[c].seen = "none"
      /\ call[c].req.agent = "git" => call[c].req.target # ""

\* The threads in use.
Busy == {c \in Calls : call[c].pc \in {"working", "midway"}}

PoolInv == Cardinality(Busy) <= PoolSize

\* A child that is there has the thread that waits for it.
ChildInv ==
  \A c \in Calls :
    os.child[c] \in {"running", "lingering"} =>
      call[c].pc = "midway" /\ call[c].req.agent = "process"

\* Whose operations are open, and that they are what it should have so far; who
\* has none has not begun to write.
AtWork(c) == call[c].pc = "working" /\ call[c].req.agent = "database"
ToLogSoFar(c) == {i \in ToLog(c) : i <= call[c].at}

TxInv ==
  /\ db.lock # 0 => AtWork(db.lock) /\ Transacted(db.lock, call[db.lock].at)
  /\ \A m \in DOMAIN db.tx : db.tx[m][1] = db.lock
  /\ \A m, n \in DOMAIN db.tx : m < n => db.tx[m][2] < db.tx[n][2]
  /\ db.lock # 0 => {db.tx[m][2] : m \in DOMAIN db.tx} = ToLogSoFar(db.lock)

ProgressInv ==
  \A c \in Calls :
    AtWork(c) =>
      /\ call[c].at <= Len(call[c].req.ops)
      /\ db.lock # c => ~Transacted(c, call[c].at)

\* Nothing is in the log ahead of the call it is of.
LogInv == \A k \in DOMAIN db.log : db.log[k][2] <= call[db.log[k][1]].at

DbInv == DbTypeOK /\ TxInv /\ ProgressInv /\ LogInv /\ DatabaseAtomic

IInv ==
  /\ CallTypeOK /\ CallInv /\ PoolInv /\ CheckedInv /\ ChildInv
  /\ FsTypeOK /\ GitTypeOK /\ ProcessTypeOK /\ MemoryTypeOK /\ DbInv

----------------------------------------------------------------------------
(* What any step does to the calls. *)

Statuses == {"none", "SUCCESS", "FAILED", "RAISED"}

\* c comes, and is answered or waits for a thread.
Asks(c) ==
  /\ call[c].pc = "none"
  /\ \E r \in Requests, seen \in Kinds :
       \/ ToThread(c, r, seen)
       \/ \E s \in Statuses : AnswerAtOnce(c, r, s)

\* c, that has a thread, is answered, or goes on.
Answers(c) ==
  /\ call[c].pc \in {"working", "midway"}
  /\ \E s \in Statuses : Answer(c, s)

GoesOn(c) ==
  /\ call[c].pc \in {"working", "midway"}
  /\ \E pc \in {"queued", "working", "midway"} :
       GoOn(c, pc) /\ (call[c].req.agent = "database" => pc = "working")

CallStep(c) == Asks(c) \/ TakeThread(c) \/ Answers(c) \/ GoesOn(c)

\* A step keeps the types of the calls and what they have.
LEMMA CallsKept ==
  ASSUME CallTypeOK, CallInv, NEW c \in Calls, CallStep(c)
  PROVE  CallTypeOK' /\ CallInv'
<1>. USE DEF CallTypeOK, CallInv, Calls, Kinds
<1>1. CASE Asks(c)
  <2>. PICK r \in Requests, seen \in Kinds, pc \in {"queued", "answered"}, s \in Statuses :
         call' = [call EXCEPT ![c] = NewCall(pc, r, seen, s)] /\ (pc = "queued" => s = "none")
    BY <1>1 DEF Asks, ToThread, AnswerAtOnce, Statuses
  <2>. QED
    BY DEF NewCall, Statuses
<1>2. CASE TakeThread(c)
  BY <1>2 DEF TakeThread
<1>3. CASE Answers(c)
  <2>. PICK s \in Statuses : Answer(c, s)
    BY <1>3 DEF Answers
  <2>1. CallTypeOK'
    <3>1. call' = [d \in Calls |-> call'[d]]
      BY DEF Answer
    <3>2. call'[c] = [call[c] EXCEPT !.pc = "answered", !.status = s]
      BY DEF Answer
    <3>. QED
      BY <3>1, <3>2 DEF Answer, Statuses
  <2>2. \A d \in Calls : d # c => call'[d] = call[d]
    BY DEF Answer
  <2>3. call[c].pc # "none" /\ call'[c].pc = "answered" /\ call'[c].req = call[c].req
    BY <1>3 DEF Answer, Answers
  <2>. QED
    BY <2>1, <2>2, <2>3
<1>4. CASE GoesOn(c)
  BY <1>4 DEF GoesOn, GoOn
<1>. QED
  BY <1>1, <1>2, <1>3, <1>4 DEF CallStep

\* A step leaves the other calls alone.
LEMMA OneCall ==
  ASSUME CallTypeOK, NEW c \in Calls, CallStep(c), NEW d \in Calls, d # c
  PROVE  call'[d] = call[d]
BY DEF CallTypeOK, CallStep, Asks, TakeThread, Answers, GoesOn, ToThread, AnswerAtOnce,
       Answer, GoOn

\* Only a new call brings a request, and only an answer a status.
LEMMA RequestKept ==
  ASSUME CallTypeOK, CallInv, NEW c \in Calls, CallStep(c), ~Asks(c)
  PROVE  /\ call'[c].req = call[c].req /\ call'[c].seen = call[c].seen
         /\ call[c].pc \in {"queued", "working", "midway"}
         /\ call'[c].at >= call[c].at
         /\ call'[c].status # call[c].status => Answers(c)
BY DEF CallTypeOK, CallInv, CallStep, TakeThread, Answers, GoesOn, Answer, GoOn

\* No more threads are taken than there are.
LEMMA PoolKept ==
  ASSUME CallTypeOK, PoolInv, NEW c \in Calls, CallStep(c)
  PROVE  PoolInv'
<1>1. IsFiniteSet(Calls)
  BY FS_Interval, CallAssumption DEF Calls
<1>2. IsFiniteSet(Busy)
  BY <1>1, FS_Subset DEF Busy
<1>3. CASE TakeThread(c)
  <2>1. Busy' = Busy \cup {c} /\ c \notin Busy /\ Cardinality(Busy) < PoolSize
    BY <1>3 DEF TakeThread, Busy, CallTypeOK
  <2>2. Cardinality(Busy) \in Nat
    BY <1>2, FS_CardinalityType
  <2>. QED
    BY <1>2, <2>1, <2>2, FS_AddElement, CallAssumption DEF PoolInv
<1>4. CASE ~TakeThread(c)
  <2>1. Busy' \in SUBSET Busy
    BY <1>4 DEF CallStep, Asks, Answers, GoesOn, ToThread, AnswerAtOnce, NewCall, Answer, GoOn,
                Busy, CallTypeOK
  <2>2. Cardinality(Busy') <= Cardinality(Busy)
    BY <1>2, <2>1, FS_Subset
  <2>3. Cardinality(Busy) \in Nat /\ Cardinality(Busy') \in Nat
    BY <1>2, <2>1, FS_Subset, FS_CardinalityType
  <2>. QED
    BY <2>2, <2>3, CallAssumption DEF PoolInv
<1>. QED
  BY <1>3, <1>4

----------------------------------------------------------------------------
(* The database beside the calls of others. *)

\* Who has not begun to write has nothing to put in the log.
LEMMA Writes ==
  ASSUME NEW c \in Calls, NEW i \in Nat, NEW j \in Nat, i <= j, Transacted(c, i)
  PROVE  Transacted(c, j)
BY DEF Transacted

LEMMA NotYet ==
  ASSUME NEW c \in Calls
  PROVE  ~Transacted(c, 0)
BY DEF Transacted

\* What the log and the open transaction hold.
LEMMA Entries ==
  ASSUME DbTypeOK
  PROVE  /\ Len(db.log) \in Nat /\ DOMAIN db.log = 1..Len(db.log)
         /\ Len(db.tx) \in Nat /\ DOMAIN db.tx = 1..Len(db.tx)
         /\ \A k \in DOMAIN db.log : db.log[k][1] \in Calls /\ db.log[k][2] \in Nat \ {0}
         /\ \A m \in DOMAIN db.tx : db.tx[m][1] \in Calls /\ db.tx[m][2] \in Nat \ {0}
<1>1. db.log \in Seq(Entry) /\ db.tx \in Seq(Entry)
  BY DEF DbTypeOK
<1>2. /\ Len(db.log) \in Nat /\ DOMAIN db.log = 1..Len(db.log)
      /\ Len(db.tx) \in Nat /\ DOMAIN db.tx = 1..Len(db.tx)
  BY <1>1, LenProperties
<1>3. \A k \in DOMAIN db.log : db.log[k] \in Entry
  BY <1>1, <1>2, ElementOfSeq
<1>4. \A m \in DOMAIN db.tx : db.tx[m] \in Entry
  BY <1>1, <1>2, ElementOfSeq
<1>. QED
  BY <1>2, <1>3, <1>4 DEF Entry

\* The operations of a request.
LEMMA Operations ==
  ASSUME NEW r \in Requests
  PROVE  /\ Len(r.ops) \in Nat /\ DOMAIN r.ops = 1..Len(r.ops)
         /\ \A i \in 1..Len(r.ops) : r.ops[i] \in {"write", "read", "ddl"}
<1>1. r.ops \in Seq({"write", "read", "ddl"})
  BY RequestsAssumption
<1>. QED
  BY <1>1, LenProperties, ElementOfSeq

\* What is said of a call depends on its request and on the log only.
LEMMA SameRequest ==
  ASSUME NEW c \in Calls, call'[c].req = call[c].req
  PROVE  /\ \A i : Transacted(c, i)' <=> Transacted(c, i)
         /\ ToLog(c)' = ToLog(c)
         /\ db'.log = db.log =>
              Logged(c)' = Logged(c) /\ (LoggedAsAWhole(c)' <=> LoggedAsAWhole(c))
<1>1. \A i : Transacted(c, i)' <=> Transacted(c, i)
  BY DEF Transacted
<1>2. ToLog(c)' = ToLog(c)
  BY DEF ToLog, Transacted
<1>3. ASSUME db'.log = db.log
      PROVE  Logged(c)' = Logged(c)
  BY <1>3 DEF Logged, Transacted
<1>4. ASSUME db'.log = db.log
      PROVE  LoggedAsAWhole(c)' <=> LoggedAsAWhole(c)
  BY <1>2, <1>3, <1>4 DEF LoggedAsAWhole
<1>. QED
  BY <1>1, <1>2, <1>3, <1>4

\* A step by which the call that it is of does no database work, but comes or
\* gets its thread, keeps what is said of the database.
LEMMA DbAside ==
  ASSUME CallTypeOK, CallInv, DbInv,
         NEW c \in Calls, CallStep(c), UNCHANGED db, ~AtWork(c),
         Asks(c) /\ call'[c].req.agent = "database" => call'[c].status # "SUCCESS"
  PROVE  DbInv'
<1>. DbTypeOK /\ TxInv /\ ProgressInv /\ LogInv /\ DatabaseAtomic
  BY DEF DbInv
<1>0. DbTypeOK'
  BY DEF DbTypeOK
<1>1. \A d \in Calls : d # c => call'[d] = call[d]
  BY OneCall
<1>2. \A d \in Calls : d # c =>
        /\ AtWork(d)' <=> AtWork(d)
        /\ \A i : Transacted(d, i)' <=> Transacted(d, i)
        /\ ToLog(d)' = ToLog(d) /\ Logged(d)' = Logged(d)
        /\ LoggedAsAWhole(d)' <=> LoggedAsAWhole(d)
  BY <1>1, SameRequest DEF AtWork
<1>3. db.lock # c
  BY DEF TxInv, Calls
<1>4. TxInv'
  BY <1>1, <1>2, <1>3 DEF TxInv, ToLogSoFar, DbTypeOK, Calls
<1>5. ProgressInv'
  <2>1. ASSUME AtWork(c)'
        PROVE  call'[c].at = 0 /\ call'[c].req \in Requests
    <3>1. TakeThread(c)
      BY <2>1 DEF CallStep, Asks, Answers, GoesOn, ToThread, AnswerAtOnce, NewCall, Answer,
                  GoOn, AtWork, CallTypeOK
    <3>. QED
      BY <2>1, <3>1 DEF TakeThread, AtWork, CallInv, CallTypeOK
  <2>2. AtWork(c)' => call'[c].at <= Len(call'[c].req.ops) /\ ~Transacted(c, call[c].at)'
    BY <2>1, Operations DEF Transacted
  <2>. QED
    BY <1>1, <1>2, <2>2 DEF ProgressInv
<1>6. call'[c].at >= call[c].at
  BY RequestKept DEF Asks, ToThread, AnswerAtOnce, NewCall, CallTypeOK, CallInv
<1>7. LogInv'
  <2>1. \A d \in Calls : call'[d].at >= call[d].at /\ call[d].at \in Nat /\ call'[d].at \in Nat
    BY <1>1, <1>6, CallsKept DEF CallTypeOK
  <2>2. ASSUME NEW k \in DOMAIN db.log
        PROVE  db.log[k][2] <= call'[db.log[k][1]].at
    <3>1. db.log[k][1] \in Calls /\ db.log[k][2] \in Nat /\ db.log[k][2] <= call[db.log[k][1]].at
      BY Entries DEF LogInv
    <3>. QED
      BY <2>1, <3>1
  <2>. QED
    BY <2>2 DEF LogInv
<1>8. CASE Asks(c)
  <2>1. call[c].at = 0
    BY <1>8 DEF Asks, CallInv, NewCall
  <2>2. \A k \in DOMAIN db.log : db.log[k][1] # c
    BY <2>1 DEF LogInv, DbTypeOK, Entry
  <2>3. Logged(c)' = {}
    BY <2>2 DEF Logged
  <2>. QED
    BY <1>0, <1>1, <1>2, <1>4, <1>5, <1>7, <1>8, <2>3 DEF DatabaseAtomic, DbInv
<1>9. CASE ~Asks(c)
  <2>1. call'[c].req = call[c].req
    BY <1>9, RequestKept
  <2>2. Logged(c)' = Logged(c) /\ (LoggedAsAWhole(c)' <=> LoggedAsAWhole(c))
    BY <2>1, SameRequest
  <2>3. call[c].req.agent = "database" => call'[c].status = call[c].status
    BY <1>9, RequestKept DEF Answers, AtWork, CallInv
  <2>. QED
    BY <1>0, <1>1, <1>2, <1>4, <1>5, <1>7, <2>1, <2>2, <2>3 DEF DatabaseAtomic, DbInv
<1>. QED
  BY <1>8, <1>9

----------------------------------------------------------------------------
(* The steps of the database. *)

\* The log keeps what it has when a sequence is added.
LEMMA LogGrows ==
  ASSUME DbTypeOK, NEW s \in Seq(Entry), db'.log = db.log \o s
  PROVE  /\ Len(s) \in Nat /\ DOMAIN db'.log = 1..(Len(db.log) + Len(s))
         /\ \A k \in 1..Len(db.log) : db'.log[k] = db.log[k]
         /\ \A k \in (Len(db.log) + 1)..(Len(db.log) + Len(s)) :
              db'.log[k] = s[k - Len(db.log)]
<1>1. db.log \in Seq(Entry)
  BY DEF DbTypeOK
<1>. QED
  BY <1>1, ConcatProperties, LenProperties

\* What a call adds to the log is nothing to another call.
LEMMA LogOfOthers ==
  ASSUME DbTypeOK, NEW s \in Seq(Entry), db'.log = db.log \o s,
         NEW d \in Calls, call'[d].req = call[d].req,
         \A m \in 1..Len(s) : s[m][1] # d
  PROVE  Logged(d)' = Logged(d) /\ (LoggedAsAWhole(d)' <=> LoggedAsAWhole(d))
<1>1. \A k \in DOMAIN db'.log : db'.log[k][1] = d => k \in DOMAIN db.log
  BY LogGrows, Entries
<1>2. \A k \in DOMAIN db.log : k \in DOMAIN db'.log /\ db'.log[k] = db.log[k]
  BY LogGrows, Entries
<1>3. \A i : Transacted(d, i)' <=> Transacted(d, i)
  BY SameRequest
<1>4. ToLog(d)' = ToLog(d)
  BY SameRequest
<1>5. Logged(d)' = Logged(d)
  BY <1>1, <1>2, <1>3 DEF Logged
<1>6. \A k \in Logged(d) : db'.log[k] = db.log[k]
  BY <1>2 DEF Logged
<1>7. {db.log[k][2] : k \in Logged(d)}' = {db.log[k][2] : k \in Logged(d)}
  <2>. DEFINE L == Logged(d)
              At2(log, k) == log[k][2]
  <2>1. \A k \in L : At2(db'.log, k) = At2(db.log, k)
    BY <1>6
  <2>2. {db.log[k][2] : k \in Logged(d)}' = {At2(db'.log, k) : k \in L}
    BY <1>5
  <2>. HIDE DEF L, At2
  <2>3. {At2(db'.log, k) : k \in L} = {At2(db.log, k) : k \in L}
    BY <2>1, Zenon
  <2>. QED
    BY <2>2, <2>3 DEF L, At2
<1>8. (\A j, k \in Logged(d) : j < k => db.log[j][2] < db.log[k][2])'
        <=> (\A j, k \in Logged(d) : j < k => db.log[j][2] < db.log[k][2])
  BY <1>5, <1>6
<1>9. (\A j, k \in Logged(d) : \A i \in j..k : i \in Logged(d))'
        <=> (\A j, k \in Logged(d) : \A i \in j..k : i \in Logged(d))
  BY <1>5
<1>. QED
  BY <1>4, <1>5, <1>7, <1>8, <1>9 DEF LoggedAsAWhole

\* A call that is at work has its operations before it.
LEMMA Working ==
  ASSUME CallTypeOK, CallInv, DbInv, NEW c \in Calls, AtWork(c)
  PROVE  /\ call[c].req \in Requests /\ call[c].status = "none" /\ Logged(c) = {}
         /\ call[c].at \in Nat /\ Len(call[c].req.ops) \in Nat
         /\ call[c].at <= Len(call[c].req.ops)
         /\ DOMAIN call[c].req.ops = 1..Len(call[c].req.ops)
         /\ \A i \in 1..Len(call[c].req.ops) : call[c].req.ops[i] \in {"write", "read", "ddl"}
<1>1. /\ call[c].req \in Requests /\ call[c].status = "none" /\ call[c].at \in Nat
  BY DEF CallTypeOK, CallInv, AtWork
<1>. QED
  BY <1>1, Operations DEF DbInv, ProgressInv, DatabaseAtomic

\* Who has not written has nothing to log so far.
LEMMA NothingSoFar ==
  ASSUME CallTypeOK, CallInv, DbInv, NEW c \in Calls, AtWork(c), db.lock # c
  PROVE  ToLogSoFar(c) = {}
<1>1. ~Transacted(c, call[c].at)
  BY DEF DbInv, ProgressInv
<1>. QED
  BY <1>1, Working, Writes DEF ToLogSoFar, ToLog

\* An operation is added to the transaction of c, that is open or begins with it.
LEMMA TxGrows ==
  ASSUME CallTypeOK, CallInv, DbInv, NEW c \in Calls, AtWork(c), GoOn(c, "working"),
         db.lock \in {0, c}, call[c].at + 1 \in ToLog(c),
         db'.lock = c, db'.tx = Append(db.tx, Entered(c))
  PROVE  TxInv'
<1>. DEFINE i == call[c].at + 1
<1>1. /\ call'[c].pc = "working" /\ call'[c].req = call[c].req /\ call'[c].at = i
  BY DEF GoOn, CallTypeOK
<1>2. i \in Nat /\ call[c].at \in Nat
  BY Working
<1>3. /\ db.tx \in Seq(Entry) /\ Len(db.tx) \in Nat /\ DOMAIN db.tx = 1..Len(db.tx)
      /\ \A m \in DOMAIN db.tx : db.tx[m][2] \in Nat
  BY Entries DEF DbInv, DbTypeOK
<1>4. /\ \A m \in DOMAIN db.tx : db.tx[m][1] = c
      /\ {db.tx[m][2] : m \in DOMAIN db.tx} = ToLogSoFar(c)
  <2>1. CASE db.lock = 0
    <3>1. db.tx = <<>>
      BY <2>1 DEF DbInv, DbTypeOK
    <3>. QED
      BY <2>1, <3>1, NothingSoFar DEF Calls
  <2>2. CASE db.lock = c
    BY <2>2 DEF DbInv, TxInv, Calls
  <2>. QED
    BY <2>1, <2>2
<1>5. \A m \in DOMAIN db.tx : db.tx[m][2] < i
  <2>1. \A m \in DOMAIN db.tx : db.tx[m][2] \in ToLogSoFar(c)
    BY <1>4
  <2>. QED
    BY <1>2, <1>3, <2>1 DEF ToLogSoFar
<1>6. Entered(c) \in Entry /\ Entered(c)[1] = c /\ Entered(c)[2] = i
  BY <1>2 DEF Entered, Entry
<1>7. /\ DOMAIN db'.tx = 1..(Len(db.tx) + 1)
      /\ \A m \in DOMAIN db.tx : db'.tx[m] = db.tx[m]
      /\ db'.tx[Len(db.tx) + 1] = Entered(c)
  BY <1>3, <1>6, AppendProperties, LenProperties
<1>8. ToLogSoFar(c)' = ToLogSoFar(c) \cup {i}
  <2>1. ToLog(c)' = ToLog(c)
    BY <1>1, SameRequest
  <2>2. \A k \in ToLog(c) : k \in Nat
    BY Working DEF ToLog
  <2>. QED
    BY <1>1, <1>2, <2>1, <2>2 DEF ToLogSoFar
<1>9. Transacted(c, call[c].at)'
  BY <1>1, <1>2, SameRequest DEF ToLog
<1>10. {db'.tx[m][2] : m \in DOMAIN db'.tx} = {db.tx[m][2] : m \in DOMAIN db.tx} \cup {i}
  BY <1>3, <1>6, <1>7
<1>11. \A m \in DOMAIN db'.tx : db'.tx[m][1] = c
  BY <1>3, <1>4, <1>6, <1>7
<1>12. \A m, n \in DOMAIN db'.tx : m < n => db'.tx[m][2] < db'.tx[n][2]
  BY <1>3, <1>5, <1>6, <1>7 DEF DbInv, TxInv
<1>13. AtWork(c)'
  BY <1>1 DEF AtWork
<1>. QED
  BY <1>4, <1>8, <1>9, <1>10, <1>11, <1>12, <1>13 DEF TxInv

\* What c adds to the log, if anything, is not ahead of it.
LEMMA LogKept ==
  ASSUME CallTypeOK, CallInv, DbInv, NEW c \in Calls, CallStep(c), AtWork(c),
         NEW s \in Seq(Entry), db'.log = db.log \o s,
         \A m \in 1..Len(s) : s[m][1] = c /\ s[m][2] <= call'[c].at
  PROVE  LogInv'
<1>1. \A d \in Calls : call'[d].at >= call[d].at /\ call[d].at \in Nat /\ call'[d].at \in Nat
  <2>1. CallTypeOK'
    BY CallsKept
  <2>2. call'[c].at >= call[c].at
    BY RequestKept DEF AtWork, Asks
  <2>. QED
    BY <2>1, <2>2, OneCall DEF CallTypeOK
<1>2. ASSUME NEW k \in DOMAIN db.log
      PROVE  db'.log[k][2] <= call'[db'.log[k][1]].at
  <2>1. /\ db.log[k][1] \in Calls /\ db.log[k][2] \in Nat
        /\ db.log[k][2] <= call[db.log[k][1]].at /\ db'.log[k] = db.log[k]
    BY Entries, LogGrows DEF DbInv, LogInv
  <2>. QED
    BY <1>1, <2>1
<1>3. ASSUME NEW k \in DOMAIN db'.log, k \notin DOMAIN db.log
      PROVE  db'.log[k][2] <= call'[db'.log[k][1]].at
  <2>1. /\ k - Len(db.log) \in 1..Len(s) /\ db'.log[k] = s[k - Len(db.log)]
    BY <1>3, Entries, LogGrows DEF DbInv
  <2>. QED
    BY <2>1
<1>. QED
  BY <1>2, <1>3 DEF LogInv

\* What c adds to the log leaves what is said of the others as it is.
LEMMA AtomicKept ==
  ASSUME CallTypeOK, CallInv, DbInv, NEW c \in Calls, CallStep(c), AtWork(c),
         NEW s \in Seq(Entry), db'.log = db.log \o s, \A m \in 1..Len(s) : s[m][1] = c,
         IF call'[c].status = "SUCCESS" THEN LoggedAsAWhole(c)' ELSE Logged(c)' = {}
  PROVE  DatabaseAtomic'
<1>1. ASSUME NEW d \in Calls, d # c
      PROVE  /\ call'[d] = call[d] /\ Logged(d)' = Logged(d)
             /\ LoggedAsAWhole(d)' <=> LoggedAsAWhole(d)
  <2>1. call'[d] = call[d]
    BY <1>1, OneCall
  <2>. QED
    BY <1>1, <2>1, LogOfOthers DEF DbInv
<1>2. call'[c].req.agent = "database"
  BY RequestKept DEF AtWork, Asks
<1>. QED
  BY <1>1, <1>2 DEF DbInv, DatabaseAtomic

\* A call that adds nothing, and is at work or fails.
LEMMA LogUntouched ==
  ASSUME CallTypeOK, CallInv, DbInv, NEW c \in Calls, CallStep(c), AtWork(c),
         db'.log = db.log, call'[c].status # "SUCCESS"
  PROVE  LogInv' /\ DatabaseAtomic'
<1>. DEFINE s == <<>>
<1>1. s \in Seq(Entry) /\ db'.log = db.log \o s /\ \A m \in 1..Len(s) : FALSE
  BY ConcatEmptySeq, EmptySeq DEF DbInv, DbTypeOK
<1>2. Logged(c)' = {}
  BY RequestKept, SameRequest, Working DEF AtWork, Asks
<1>. HIDE DEF s
<1>. QED
  BY <1>1, <1>2, LogKept, AtomicKept

\* c goes on with its operations: who has not written is without the lock.
LEMMA ProgressKept ==
  ASSUME CallTypeOK, CallInv, DbInv, NEW c \in Calls, AtWork(c), GoOn(c, "working"),
         call[c].at < Len(call[c].req.ops),
         db'.lock = db.lock \/ db.lock \in {0, c},
         db'.lock = c \/ ~Transacted(c, call[c].at + 1)
  PROVE  ProgressInv'
<1>1. CallStep(c)
  BY DEF CallStep, GoesOn, AtWork
<1>2. /\ call'[c].at = call[c].at + 1 /\ call'[c].req = call[c].req
      /\ call[c].at \in Nat /\ Len(call[c].req.ops) \in Nat
  BY Working DEF GoOn, CallTypeOK
<1>3. ASSUME NEW d \in Calls, d # c
      PROVE  /\ call'[d] = call[d] /\ \A i : Transacted(d, i)' <=> Transacted(d, i)
             /\ db'.lock # d => db.lock # d
  BY <1>1, <1>3, OneCall, SameRequest DEF Calls
<1>4. \A i : Transacted(c, i)' <=> Transacted(c, i)
  BY <1>2, SameRequest
<1>. QED
  BY <1>2, <1>3, <1>4 DEF DbInv, ProgressInv, AtWork

LEMMA Going ==
  ASSUME CallTypeOK, CallInv, DbInv, NEW c \in Calls, More(c), GoOn(c, "working")
  PROVE  /\ AtWork(c) /\ CallStep(c)
         /\ call[c].at \in Nat /\ call[c].at < Len(call[c].req.ops)
         /\ call[c].at + 1 \in 1..Len(call[c].req.ops)
         /\ DOMAIN call[c].req.ops = 1..Len(call[c].req.ops)
         /\ call'[c].at = call[c].at + 1 /\ call'[c].req = call[c].req
         /\ call'[c].status = "none" /\ Logged(c) = {}
         /\ \A i : Transacted(c, i)' <=> Transacted(c, i)
         /\ ToLog(c)' = ToLog(c)
         /\ Op(c) # "write" /\ ~Transacted(c, call[c].at) => ~Transacted(c, call[c].at + 1)
<1>1. AtWork(c) /\ call[c].at < Len(call[c].req.ops)
  BY DEF More, At, AtWork
<1>2. CallStep(c)
  BY <1>1 DEF CallStep, GoesOn, AtWork
<1>3. /\ call'[c].at = call[c].at + 1 /\ call'[c].req = call[c].req
      /\ call'[c].status = call[c].status
  BY DEF GoOn, CallTypeOK
<1>4. Op(c) # "write" /\ ~Transacted(c, call[c].at) => ~Transacted(c, call[c].at + 1)
  BY <1>1, Working DEF Op, Transacted
<1>. QED
  BY <1>1, <1>2, <1>3, <1>4, Working, SameRequest

LEMMA Writing ==
  ASSUME CallTypeOK, CallInv, DbInv, NEW c \in Calls, DbWrite(c)
  PROVE  CallStep(c) /\ DbInv'
<1>1. /\ More(c) /\ Op(c) = "write" /\ db.lock \in {0, c} /\ GoOn(c, "working")
      /\ db' = [db EXCEPT !.lock = c, !.tx = Append(@, Entered(c))]
  BY DEF DbWrite
<1>2. db \in [lock : 0..MaxCalls, log : Seq(Entry), tx : Seq(Entry)]
  BY DEF DbInv, DbTypeOK
<1>3. db'.lock = c /\ db'.log = db.log /\ db'.tx = Append(db.tx, Entered(c))
  BY <1>1, <1>2
<1>4. Entered(c) \in Entry
  BY <1>1, Going DEF Entered, Entry
<1>5. DbTypeOK'
  <2>1. Append(db.tx, Entered(c)) \in Seq(Entry)
    BY <1>2, <1>4, AppendProperties
  <2>2. db' = [lock |-> c, log |-> db.log, tx |-> Append(db.tx, Entered(c))]
    BY <1>1, <1>2
  <2>3. c \in 0..MaxCalls /\ c # 0 /\ db.log \in Seq(Entry)
    BY <1>2, CallAssumption DEF Calls
  <2>. QED
    BY <2>1, <2>2, <2>3 DEF DbTypeOK
<1>6. call[c].at + 1 \in ToLog(c)
  BY <1>1, Going DEF ToLog, Transacted, Op
<1>7. TxInv'
  BY <1>1, <1>3, <1>6, Going, TxGrows
<1>8. ProgressInv'
  BY <1>1, <1>3, Going, ProgressKept
<1>9. LogInv' /\ DatabaseAtomic'
  BY <1>1, <1>3, Going, LogUntouched
<1>. QED
  BY <1>1, <1>5, <1>7, <1>8, <1>9, Going DEF DbInv

LEMMA Reading ==
  ASSUME CallTypeOK, CallInv, DbInv, NEW c \in Calls, DbRead(c)
  PROVE  CallStep(c) /\ DbInv'
<1>1. More(c) /\ Op(c) = "read" /\ GoOn(c, "working") /\ UNCHANGED db
  BY DEF DbRead
<1>2. DbTypeOK'
  BY <1>1 DEF DbInv, DbTypeOK
<1>3. ToLogSoFar(c)' = ToLogSoFar(c)
  <2>1. call[c].at + 1 \notin ToLog(c)
    BY <1>1, Going DEF ToLog, Op
  <2>2. ToLog(c) \subseteq Nat
    BY <1>1, Going DEF ToLog
  <2>. QED
    BY <1>1, <2>1, <2>2, Going DEF ToLogSoFar
<1>4. TxInv'
  <2>1. \A d \in Calls : d # c => call'[d] = call[d] /\ ToLog(d)' = ToLog(d)
    BY <1>1, Going, OneCall, SameRequest
  <2>2. \A d \in Calls : ToLogSoFar(d)' = ToLogSoFar(d)
    BY <1>3, <2>1 DEF ToLogSoFar
  <2>3. \A d \in Calls : AtWork(d) => AtWork(d)'
    BY <1>1, <2>1 DEF AtWork, GoOn, CallTypeOK
  <2>4. \A d \in Calls : Transacted(d, call[d].at) => Transacted(d, call[d].at)'
    BY <1>1, <2>1, Going, SameRequest, Writes
  <2>. QED
    BY <1>1, <2>2, <2>3, <2>4 DEF DbInv, TxInv, DbTypeOK, Calls
<1>5. ProgressInv'
  BY <1>1, Going, ProgressKept DEF DbInv, ProgressInv
<1>6. LogInv' /\ DatabaseAtomic'
  BY <1>1, Going, LogUntouched
<1>. QED
  BY <1>1, <1>2, <1>4, <1>5, <1>6, Going DEF DbInv

LEMMA Defining ==
  ASSUME CallTypeOK, CallInv, DbInv, NEW c \in Calls, DbDefine(c)
  PROVE  CallStep(c) /\ DbInv'
<1>1. More(c) /\ Op(c) = "ddl" /\ db.lock \in {0, c} /\ GoOn(c, "working")
  BY DEF DbDefine
<1>2. db \in [lock : 0..MaxCalls, log : Seq(Entry), tx : Seq(Entry)]
  BY DEF DbInv, DbTypeOK
<1>3. Entered(c) \in Entry /\ Entered(c)[1] = c /\ Entered(c)[2] = call[c].at + 1
  BY <1>1, Going DEF Entered, Entry
<1>4. CASE db.lock = c
  <2>1. db' = [lock |-> c, log |-> db.log, tx |-> Append(db.tx, Entered(c))]
    BY <1>2, <1>4 DEF DbDefine
  <2>2. DbTypeOK'
    <3>1. Append(db.tx, Entered(c)) \in Seq(Entry)
      BY <1>2, <1>3, AppendProperties
    <3>2. c \in 0..MaxCalls /\ c # 0 /\ db.log \in Seq(Entry)
      BY <1>2, CallAssumption DEF Calls
    <3>. QED
      BY <2>1, <3>1, <3>2 DEF DbTypeOK
  <2>3. call[c].at + 1 \in ToLog(c)
    <3>1. Transacted(c, call[c].at)
      BY <1>4 DEF DbInv, TxInv, Calls
    <3>. QED
      BY <1>1, <3>1, Going, Writes DEF ToLog, Op
  <2>4. TxInv'
    BY <1>1, <2>1, <2>3, Going, TxGrows
  <2>5. ProgressInv'
    BY <1>1, <2>1, Going, ProgressKept
  <2>6. LogInv' /\ DatabaseAtomic'
    BY <1>1, <2>1, Going, LogUntouched
  <2>. QED
    BY <1>1, <2>2, <2>4, <2>5, <2>6, Going DEF DbInv
<1>5. CASE db.lock # c
  <2>1. db.lock = 0 /\ db.tx = <<>>
    BY <1>1, <1>5 DEF DbInv, DbTypeOK
  <2>2. db' = [lock |-> 0, log |-> Append(db.log, Entered(c)), tx |-> <<>>]
    BY <1>2, <1>5, <2>1 DEF DbDefine
  <2>3. DbTypeOK'
    <3>1. Append(db.log, Entered(c)) \in Seq(Entry)
      BY <1>2, <1>3, AppendProperties
    <3>. QED
      BY <2>2, <3>1, EmptySeq, CallAssumption DEF DbTypeOK
  <2>4. TxInv'
    BY <2>2 DEF TxInv
  <2>5. ~Transacted(c, call[c].at) /\ ~Transacted(c, call[c].at + 1)
    BY <1>1, <1>5, Going DEF DbInv, ProgressInv
  <2>6. ProgressInv'
    BY <1>1, <2>1, <2>2, <2>5, Going, ProgressKept
  <2>. DEFINE s == <<Entered(c)>>
  <2>7. /\ s \in Seq(Entry) /\ Len(s) = 1 /\ s[1] = Entered(c)
    BY <1>3
  <2>8. db'.log = db.log \o s
    BY <1>2, <1>3, <2>2, AppendIsConcat
  <2>9. \A m \in 1..Len(s) : s[m][1] = c /\ s[m][2] <= call'[c].at
    BY <1>1, <1>3, <2>7, Going
  <2>. HIDE DEF s
  <2>10. LogInv'
    BY <1>1, <2>7, <2>8, <2>9, Going, LogKept
  <2>11. Logged(c)' = {}
    <3>1. ASSUME NEW k \in DOMAIN db'.log, db'.log[k][1] = c
          PROVE  ~Transacted(c, db'.log[k][2])
      <4>1. CASE k \in DOMAIN db.log
        BY <1>1, <3>1, <2>7, <2>8, <4>1, Entries, LogGrows, Going DEF DbInv, Logged
      <4>2. CASE k \notin DOMAIN db.log
        <5>1. k = Len(db.log) + 1 /\ Len(db.log) \in Nat
          <6>1. Len(db.log) \in Nat /\ DOMAIN db.log = 1..Len(db.log)
            BY Entries DEF DbInv
          <6>2. DOMAIN db'.log = 1..(Len(db.log) + 1)
            BY <2>7, <2>8, LogGrows DEF DbInv
          <6>. QED
            BY <3>1, <4>2, <6>1, <6>2
        <5>2. db'.log[k] = s[k - Len(db.log)] /\ k - Len(db.log) = 1
          BY <2>7, <2>8, <5>1, LogGrows DEF DbInv
        <5>. QED
          BY <1>3, <2>5, <2>7, <5>2
      <4>. QED
        BY <4>1, <4>2
    <3>2. \A i : Transacted(c, i)' <=> Transacted(c, i)
      BY <1>1, Going
    <3>. QED
      BY <3>1, <3>2 DEF Logged
  <2>12. DatabaseAtomic'
    BY <1>1, <2>7, <2>8, <2>9, <2>11, Going, AtomicKept
  <2>. QED
    BY <1>1, <2>3, <2>4, <2>6, <2>10, <2>12, Going DEF DbInv
<1>. QED
  BY <1>4, <1>5

\* c gives the lock back, if it has it, and is answered: it is at work no more.
LEMMA Released ==
  ASSUME CallTypeOK, CallInv, DbInv, NEW c \in Calls, AtWork(c), NEW s \in Statuses, Answer(c, s),
         IF db.lock = c THEN db'.lock = 0 /\ db'.tx = <<>> ELSE UNCHANGED db
  PROVE  CallStep(c) /\ TxInv' /\ ProgressInv' /\ call'[c].status = s
<1>1. CallStep(c)
  BY DEF CallStep, Answers, AtWork
<1>2. \A d \in Calls : d # c =>
        /\ call'[d] = call[d] /\ (AtWork(d)' <=> AtWork(d))
        /\ \A i : Transacted(d, i)' <=> Transacted(d, i)
        /\ ToLog(d)' = ToLog(d)
  BY <1>1, OneCall, SameRequest DEF AtWork
<1>3. ~AtWork(c)' /\ call'[c].status = s
  BY DEF AtWork, Answer, CallTypeOK
<1>4. TxInv'
  <2>1. CASE db.lock = c
    <3>1. db'.lock = 0 /\ db'.tx = <<>>
      BY <2>1
    <3>. QED
      BY <3>1 DEF TxInv
  <2>2. CASE db.lock # c
    BY <1>2, <2>2 DEF DbInv, DbTypeOK, TxInv, ToLogSoFar, Calls
  <2>. QED
    BY <2>1, <2>2
<1>5. ProgressInv'
  BY <1>2, <1>3 DEF DbInv, ProgressInv
<1>. QED
  BY <1>1, <1>3, <1>4, <1>5

LEMMA Failing ==
  ASSUME CallTypeOK, CallInv, DbInv, NEW c \in Calls, DbFails(c)
  PROVE  CallStep(c) /\ DbInv'
<1>1. AtWork(c) /\ Answer(c, "FAILED")
  BY DEF DbFails, At, AtWork
<1>2. db \in [lock : 0..MaxCalls, log : Seq(Entry), tx : Seq(Entry)]
  BY DEF DbInv, DbTypeOK
<1>3. IF db.lock = c THEN db' = [lock |-> 0, log |-> db.log, tx |-> <<>>] ELSE db' = db
  BY <1>2 DEF DbFails
<1>4. DbTypeOK'
  <2>1. CASE db.lock = c
    <3>1. db' = [lock |-> 0, log |-> db.log, tx |-> <<>>]
      BY <1>3, <2>1
    <3>2. db.log \in Seq(Entry)
      BY <1>2
    <3>. QED
      BY <3>1, <3>2, EmptySeq, CallAssumption DEF DbTypeOK
  <2>2. CASE db.lock # c
    BY <1>3, <2>2 DEF DbInv, DbTypeOK
  <2>. QED
    BY <2>1, <2>2
<1>5. CallStep(c) /\ TxInv' /\ ProgressInv' /\ call'[c].status = "FAILED"
  BY <1>1, <1>3, Released DEF Statuses
<1>6. LogInv' /\ DatabaseAtomic'
  BY <1>1, <1>3, <1>5, LogUntouched
<1>. QED
  BY <1>4, <1>5, <1>6 DEF DbInv

LEMMA Committing ==
  ASSUME CallTypeOK, CallInv, DbInv, NEW c \in Calls, DbCommit(c)
  PROVE  CallStep(c) /\ DbInv'
<1>1. AtWork(c) /\ Answer(c, "SUCCESS")
  BY DEF DbCommit, At, AtWork
<1>2. db \in [lock : 0..MaxCalls, log : Seq(Entry), tx : Seq(Entry)]
  BY DEF DbInv, DbTypeOK
<1>. DEFINE s == IF db.lock = c THEN db.tx ELSE <<>>
<1>3. s \in Seq(Entry) /\ db'.log = db.log \o s
  BY <1>2, ConcatEmptySeq, EmptySeq DEF DbCommit
<1>4. IF db.lock = c THEN db'.lock = 0 /\ db'.tx = <<>> ELSE UNCHANGED db
  BY DEF DbCommit
<1>5. DbTypeOK'
  <2>1. db'.log \in Seq(Entry)
    BY <1>2, <1>3, ConcatProperties
  <2>2. CASE db.lock = c
    BY <1>2, <2>1, <2>2, EmptySeq, CallAssumption DEF DbCommit, DbTypeOK
  <2>3. CASE db.lock # c
    BY <1>4, <2>3 DEF DbInv, DbTypeOK
  <2>. QED
    BY <2>2, <2>3
<1>6. CallStep(c) /\ TxInv' /\ ProgressInv' /\ call'[c].status = "SUCCESS"
  BY <1>1, <1>4, Released DEF Statuses
<1>7. call[c].at = Len(call[c].req.ops) /\ call'[c].at = call[c].at /\ call'[c].req = call[c].req
  BY <1>1, Working DEF DbCommit, More, Answer, CallTypeOK
<1>8. /\ \A m \in DOMAIN s : s[m][1] = c /\ s[m][2] \in ToLog(c)
      /\ {s[m][2] : m \in DOMAIN s} = ToLog(c)
      /\ \A m, n \in DOMAIN s : m < n => s[m][2] < s[n][2]
      /\ DOMAIN s = 1..Len(s) /\ Len(s) \in Nat
  <2>1. ToLogSoFar(c) = ToLog(c)
    BY <1>1, <1>7, Working DEF ToLogSoFar, ToLog
  <2>2. CASE db.lock = c
    <3>1. {s[m][2] : m \in DOMAIN s} = ToLog(c)
      BY <2>1, <2>2 DEF DbInv, TxInv, Calls
    <3>2. \A m \in DOMAIN s : s[m][2] \in ToLog(c)
      BY <3>1
    <3>. QED
      BY <2>2, <3>1, <3>2, Entries DEF DbInv, TxInv
  <2>3. CASE db.lock # c
    <3>1. ToLog(c) = {}
      BY <1>1, <2>1, <2>3, NothingSoFar
    <3>. QED
      BY <2>3, <3>1
  <2>. QED
    BY <2>2, <2>3
<1>. HIDE DEF s
<1>9. \A m \in 1..Len(s) : s[m][1] = c /\ s[m][2] <= call'[c].at
  BY <1>1, <1>7, <1>8, Working DEF ToLog
<1>10. LogInv'
  BY <1>1, <1>3, <1>6, <1>9, LogKept
<1>. DEFINE n == Len(db.log)
<1>11. n \in Nat /\ DOMAIN db.log = 1..n
  BY Entries DEF DbInv
<1>12. Logged(c)' = (n + 1)..(n + Len(s))
  <2>1. \A i : Transacted(c, i)' <=> Transacted(c, i)
    BY <1>7, SameRequest
  <2>2. ASSUME NEW k \in 1..n, db'.log[k][1] = c
        PROVE  ~Transacted(c, db'.log[k][2])
    BY <1>1, <1>3, <1>11, <2>2, LogGrows, Working DEF DbInv, Logged
  <2>3. ASSUME NEW k \in (n + 1)..(n + Len(s))
        PROVE  db'.log[k][1] = c /\ Transacted(c, db'.log[k][2])
    <3>1. db'.log[k] = s[k - n] /\ k - n \in DOMAIN s
      BY <1>3, <1>8, <1>11, LogGrows DEF DbInv
    <3>. QED
      BY <1>8, <3>1 DEF ToLog
  <2>4. DOMAIN db'.log = (1..n) \cup ((n + 1)..(n + Len(s)))
    BY <1>3, <1>8, <1>11, LogGrows DEF DbInv
  <2>. QED
    BY <1>8, <1>11, <2>1, <2>2, <2>3, <2>4 DEF Logged
<1>13. LoggedAsAWhole(c)'
  <2>1. \A k \in (n + 1)..(n + Len(s)) : db'.log[k] = s[k - n] /\ k - n \in DOMAIN s
    BY <1>3, <1>8, <1>11, LogGrows DEF DbInv
  <2>2. \A m \in DOMAIN s : n + m \in (n + 1)..(n + Len(s)) /\ db'.log[n + m] = s[m]
    BY <1>8, <1>11, <2>1
  <2>. HIDE DEF n
  <2>3. {db'.log[k][2] : k \in (n + 1)..(n + Len(s))} = {s[m][2] : m \in DOMAIN s}
    <3>1. \A k \in (n + 1)..(n + Len(s)) : db'.log[k][2] \in {s[m][2] : m \in DOMAIN s}
      BY <2>1
    <3>2. \A m \in DOMAIN s : s[m][2] \in {db'.log[k][2] : k \in (n + 1)..(n + Len(s))}
      BY <2>2
    <3>. QED
      BY <3>1, <3>2
  <2>4. ToLog(c)' = ToLog(c)
    BY <1>7, SameRequest
  <2>5. \A j, k \in (n + 1)..(n + Len(s)) : j < k => db'.log[j][2] < db'.log[k][2]
    <3>1. ASSUME NEW j \in (n + 1)..(n + Len(s)), NEW k \in (n + 1)..(n + Len(s)), j < k
          PROVE  s[j - n][2] < s[k - n][2]
      <4>1. j - n \in DOMAIN s /\ k - n \in DOMAIN s /\ j - n < k - n
        BY <1>8, <1>11, <2>1, <3>1
      <4>. QED
        BY <1>8, <4>1
    <3>. QED
      BY <2>1, <3>1
  <2>6. \A j, k \in (n + 1)..(n + Len(s)) : \A i \in j..k : i \in (n + 1)..(n + Len(s))
    BY <1>8, <1>11
  <2>. QED
    BY <1>8, <1>12, <2>3, <2>4, <2>5, <2>6 DEF LoggedAsAWhole
<1>14. DatabaseAtomic'
  BY <1>1, <1>3, <1>6, <1>9, <1>13, AtomicKept
<1>. QED
  BY <1>5, <1>6, <1>10, <1>14 DEF DbInv

----------------------------------------------------------------------------
(* The other agents: each keeps what is said of its own state, and does no *)
(* database work.                                                          *)

\* What the checks let through goes on to the thread.
LEMMA CheckedKept ==
  ASSUME CallTypeOK, CallInv, CheckedInv, NEW c \in Calls, CallStep(c), ~Asks(c)
  PROVE  CheckedInv'
BY OneCall, RequestKept DEF CheckedInv

LEMMA FilesStep ==
  ASSUME CallTypeOK, CallInv, CheckedInv, FsTypeOK, NEW c \in Calls, FsStep(c)
  PROVE  /\ CallStep(c) /\ ~Asks(c) /\ call[c].req.agent = "filesystem"
         /\ FsTypeOK' /\ (\A p \in Paths : files'[p].kind = "none" => files[p].kind = "none")
<1>1. call[c].req.target \in Paths
  BY PathsAssumption DEF FsStep, ReadFile, TruncateFile, WriteFile, WriteFails, At, CheckedInv
<1>2. CASE ReadFile(c)
  BY <1>2 DEF ReadFile, At, CallStep, Answers, Asks, Statuses, FsTypeOK
<1>3. CASE TruncateFile(c)
  BY <1>1, <1>3 DEF TruncateFile, At, CallStep, Answers, GoesOn, Asks, Statuses, FsTypeOK,
                    Becomes, Kinds, Calls
<1>4. CASE WriteFile(c)
  BY <1>1, <1>4 DEF WriteFile, At, CallStep, Answers, Asks, Statuses, FsTypeOK, Becomes, Kinds,
                    Calls
<1>5. CASE WriteFails(c)
  BY <1>5 DEF WriteFails, At, CallStep, Answers, Asks, Statuses, FsTypeOK
<1>. QED
  BY <1>2, <1>3, <1>4, <1>5 DEF FsStep

LEMMA MemorySteps ==
  ASSUME CallTypeOK, MemoryTypeOK, NEW c \in Calls, MemoryStep(c)
  PROVE  CallStep(c) /\ ~Asks(c) /\ call[c].req.agent = "memory" /\ MemoryTypeOK'
<1>1. CASE MemoryDone(c)
  <2>1. MemoryTypeOK'
    BY <1>1 DEF MemoryDone, MemoryEffects, MemoryTypeOK
  <2>. QED
    BY <1>1, <2>1 DEF MemoryDone, At, CallStep, Answers, Asks, Statuses
<1>2. CASE MemoryRaises(c)
  BY <1>2 DEF MemoryRaises, At, CallStep, Answers, Asks, Statuses, MemoryTypeOK
<1>. QED
  BY <1>1, <1>2 DEF MemoryStep

\* The heads of a repository: one of them moves, or one is added.
LEMMA HeadMoves ==
  ASSUME GitTypeOK, NEW w \in SUBSET Work
  PROVE  /\ NewHead(w) \in Heads /\ DOMAIN NewHead(w) = DOMAIN repo.heads
         /\ Tip \in SUBSET Work /\ repo.at \in DOMAIN repo.heads
         /\ Tip = repo.heads[repo.at]
         /\ NewHead(w)[repo.at] = w
         /\ \A b \in DOMAIN repo.heads : b # repo.at => NewHead(w)[b] = repo.heads[b]
<1>. PICK B \in SUBSET (Branches \cup {"HEAD"}) : repo.heads \in [B -> SUBSET Work] /\ repo.at \in B
  BY DEF GitTypeOK, Repository, Heads
<1>. QED
  BY DEF NewHead, Heads, Tip

LEMMA HeadsAre ==
  ASSUME GitTypeOK, NEW b \in DOMAIN repo.heads
  PROVE  b \in Branches \cup {"HEAD"} /\ repo.heads[b] \in SUBSET Work
<1>. PICK B \in SUBSET (Branches \cup {"HEAD"}) : repo.heads \in [B -> SUBSET Work]
  BY DEF GitTypeOK, Repository, Heads
<1>. QED
  OBVIOUS

\* A branch has what it had, but for what the branch that is checked out loses.
LEMMA HeadsHave ==
  ASSUME GitTypeOK, NEW w \in SUBSET Work, NEW b \in DOMAIN repo.heads
  PROVE  b \in DOMAIN NewHead(w) /\ repo.heads[b] \subseteq NewHead(w)[b] \cup (Tip \ w)
<1>1. CASE b = repo.at
  <2>1. NewHead(w)[b] = w /\ Tip = repo.heads[b]
    BY <1>1, HeadMoves
  <2>. QED
    BY <2>1, HeadMoves
<1>2. CASE b # repo.at
  BY <1>2, HeadMoves
<1>. QED
  BY <1>1, <1>2

\* HEAD becomes another branch, or a commit: only a detached HEAD is forgotten.
HasSwitched(s, b, w) ==
  /\ s \in Repository /\ s.at = b /\ b \in DOMAIN s.heads /\ s.heads[b] = w
  /\ "HEAD" \in DOMAIN s.heads => b = "HEAD"
  /\ s.worktree = repo.worktree /\ s.index = repo.index /\ s.remote = repo.remote
  /\ \A h \in DOMAIN repo.heads \ {"HEAD", b} :
       h \in DOMAIN s.heads /\ s.heads[h] = repo.heads[h]

LEMMA Switches ==
  ASSUME GitTypeOK, NEW b \in Branches \cup {"HEAD"}, NEW w \in SUBSET Work
  PROVE  HasSwitched(Switched(b, w), b, w)
<1>. DEFINE D == (DOMAIN repo.heads \ {"HEAD"}) \cup {b}
            heads == [h \in D |-> IF h = b THEN w ELSE repo.heads[h]]
            s == Switched(b, w)
<1>1. heads \in Heads
  <2>. PICK B \in SUBSET (Branches \cup {"HEAD"}) : repo.heads \in [B -> SUBSET Work]
    BY DEF GitTypeOK, Repository, Heads
  <2>1. D \in SUBSET (Branches \cup {"HEAD"}) /\ heads \in [D -> SUBSET Work]
    OBVIOUS
  <2>. HIDE DEF D, heads
  <2>. QED
    BY <2>1 DEF Heads
<1>2. /\ DOMAIN heads = D /\ heads[b] = w
      /\ \A h \in DOMAIN repo.heads \ {"HEAD", b} : heads[h] = repo.heads[h]
  OBVIOUS
<1>3. s = [repo EXCEPT !.heads = heads, !.at = b]
  BY DEF Switched, GitTypeOK, Repository
<1>. HIDE DEF heads, s
<1>4. /\ s \in Repository /\ s.at = b /\ s.heads = heads
      /\ s.worktree = repo.worktree /\ s.index = repo.index /\ s.remote = repo.remote
  BY <1>1, <1>3 DEF GitTypeOK, Repository
<1>5. HasSwitched(s, b, w)
  BY <1>2, <1>4 DEF HasSwitched
<1>. QED
  BY <1>5 DEF s

\* What git leaves is a repository, with all the work, unless it was confirmed or
\* is one that discards.
GitKeepsWork(r, after) ==
  /\ after \in Repository /\ after.at \in DOMAIN after.heads
  /\ "HEAD" \in DOMAIN after.heads => after.at = "HEAD"
  /\ ~GitConfirms(r) /\ ~Discards(r) => AllWork \subseteq WorkIn(after)

LEMMA WorkSomewhere ==
  ASSUME NEW r, NEW w
  PROVE  w \in WorkIn(r) <=> \/ w \in r.worktree \/ w \in r.index \/ w \in r.remote
                             \/ \E b \in DOMAIN r.heads : w \in r.heads[b]
BY DEF WorkIn

LEMMA GitKeeps ==
  ASSUME GitTypeOK, NEW r \in Requests, r.agent = "git", r.target # "",
         ~GitRefuses(r), NEW after \in GitEffects(r)
  PROVE  GitKeepsWork(r, after)
<1>. USE DEF GitKeepsWork
<1>1. /\ repo \in Repository /\ repo.at \in DOMAIN repo.heads
      /\ "HEAD" \in DOMAIN repo.heads => repo.at = "HEAD"
  BY DEF GitTypeOK
<1>2. CASE r.action = "add"
  <2>. PICK w \in SUBSET repo.worktree :
         after = [repo EXCEPT !.index = @ \cup w, !.worktree = @ \ w]
    BY <1>2 DEF GitEffects, Added
  <2>1. after \in Repository /\ after.heads = repo.heads /\ after.at = repo.at
    BY <1>1 DEF Repository
  <2>2. /\ after.index = repo.index \cup w /\ after.worktree = repo.worktree \ w
        /\ after.remote = repo.remote
    BY <1>1 DEF Repository
  <2>. QED
    BY <1>1, <2>1, <2>2, WorkSomewhere DEF AllWork
<1>3. CASE r.action = "commit"
  <2>. DEFINE w == Tip \cup repo.index
  <2>1. w \in SUBSET Work
    BY <1>1, HeadMoves DEF Repository
  <2>2. after = [repo EXCEPT !.heads = NewHead(w), !.index = {}]
    BY <1>3 DEF GitEffects, Committed
  <2>3. after \in Repository /\ after.heads = NewHead(w) /\ after.at = repo.at
    BY <1>1, <2>1, <2>2, HeadMoves DEF Repository
  <2>4. after.worktree = repo.worktree /\ after.remote = repo.remote
    BY <1>1, <2>2 DEF Repository
  <2>5. \A b \in DOMAIN repo.heads : b \in DOMAIN after.heads /\ repo.heads[b] \subseteq after.heads[b]
    <3>1. Tip \ w = {}
      OBVIOUS
    <3>. HIDE DEF w
    <3>. QED
      BY <2>1, <2>3, <3>1, HeadsHave
  <2>6. repo.index \subseteq after.heads[repo.at] /\ repo.at \in DOMAIN after.heads
    BY <2>1, <2>3, HeadMoves
  <2>7. DOMAIN after.heads = DOMAIN repo.heads
    BY <2>1, <2>3, HeadMoves
  <2>. QED
    BY <1>1, <2>3, <2>4, <2>5, <2>6, <2>7, WorkSomewhere DEF AllWork
<1>4. CASE r.action = "push"
  <2>. PICK w : after = [repo EXCEPT !.remote = w] /\ w \in SUBSET Work
                /\ (~MoreThanAName(r) => w = Source(r))
    <3>1. after \in Pushed(r)
      BY <1>4 DEF GitEffects
    <3>2. CASE MoreThanAName(r)
      <4>. PICK w \in {{}} \cup {repo.heads[b] : b \in DOMAIN repo.heads} :
             after = [repo EXCEPT !.remote = w]
        BY <3>1, <3>2 DEF Pushed
      <4>. QED
        BY <3>2, HeadsAre
    <3>3. CASE ~MoreThanAName(r)
      <4>1. after = [repo EXCEPT !.remote = Source(r)]
        BY <3>1, <3>3 DEF Pushed
      <4>2. Source(r) \in SUBSET Work
        BY HeadsAre DEF Source
      <4>. QED
        BY <4>1, <4>2
    <3>. QED
      BY <3>2, <3>3
  <2>1. /\ after \in Repository /\ after.at = repo.at /\ after.heads = repo.heads
        /\ after.index = repo.index /\ after.worktree = repo.worktree /\ after.remote = w
    BY <1>1 DEF Repository
  <2>2. CASE MoreThanAName(r)
    BY <1>1, <1>4, <2>1, <2>2 DEF Discards, MoreThanAName
  <2>3. CASE ~MoreThanAName(r)
    <3>1. ~GitConfirms(r) => repo.remote \subseteq w
      BY <1>4, <2>3 DEF GitConfirms, GitRefuses
    <3>. QED
      BY <1>1, <2>1, <3>1, WorkSomewhere DEF AllWork
  <2>. QED
    BY <2>2, <2>3
<1>5. CASE r.action = "pull" /\ ~MoreThanAName(r)
  <2>. DEFINE w == Tip \cup repo.remote
  <2>1. w \in SUBSET Work
    BY <1>1, HeadMoves DEF Repository
  <2>2. after = [repo EXCEPT !.heads = NewHead(w)]
    BY <1>5 DEF GitEffects, Pulled
  <2>3. after \in Repository /\ after.heads = NewHead(w) /\ after.at = repo.at
    BY <1>1, <2>1, <2>2, HeadMoves DEF Repository
  <2>4. after.worktree = repo.worktree /\ after.remote = repo.remote /\ after.index = repo.index
    BY <1>1, <2>2 DEF Repository
  <2>5. \A b \in DOMAIN repo.heads : b \in DOMAIN after.heads /\ repo.heads[b] \subseteq after.heads[b]
    <3>1. Tip \ w = {}
      OBVIOUS
    <3>. HIDE DEF w
    <3>. QED
      BY <2>1, <2>3, <3>1, HeadsHave
  <2>6. DOMAIN after.heads = DOMAIN repo.heads
    BY <2>1, <2>3, HeadMoves
  <2>. QED
    BY <1>1, <2>3, <2>4, <2>5, <2>6, WorkSomewhere DEF AllWork
<1>10. CASE r.action = "pull" /\ MoreThanAName(r)
  <2>. PICK b \in DOMAIN repo.heads : after = [repo EXCEPT !.heads[b] = repo.remote]
    BY <1>10 DEF GitEffects, Pulled
  <2>. DEFINE heads == [repo.heads EXCEPT ![b] = repo.remote]
  <2>1. heads \in Heads /\ DOMAIN heads = DOMAIN repo.heads
    BY <1>1 DEF Repository, Heads
  <2>2. after = [repo EXCEPT !.heads = heads]
    BY <1>1 DEF Repository
  <2>. HIDE DEF heads
  <2>3. after \in Repository /\ after.at = repo.at /\ after.heads = heads
    BY <1>1, <2>1, <2>2 DEF Repository
  <2>. QED
    BY <1>1, <1>10, <2>1, <2>3 DEF Discards, MoreThanAName
<1>6. CASE r.action = "branch_create"
  <2>1. r.target \in Branches /\ r.target \notin DOMAIN repo.heads /\ r.target # "HEAD"
    BY <1>6, RequestsAssumption, GitAssumption DEF GitRefuses
  <2>2. Tip \in SUBSET Work
    BY HeadMoves
  <2>3. CASE r.flag
    <3>1. after = Switched(r.target, Tip)
      BY <1>6, <2>3 DEF GitEffects, BranchCreated
    <3>2. HasSwitched(after, r.target, Tip)
      BY <2>1, <2>2, <3>1, Switches
    <3>3. \A b \in DOMAIN repo.heads : \E h \in DOMAIN after.heads : after.heads[h] = repo.heads[b]
      <4>1. TAKE b \in DOMAIN repo.heads
      <4>2. CASE b = "HEAD"
        BY <1>1, <3>2, <4>2 DEF Tip, HasSwitched
      <4>3. CASE b # "HEAD"
        BY <2>1, <3>2, <4>3 DEF HasSwitched
      <4>. QED
        BY <4>2, <4>3
    <3>4. AllWork \subseteq WorkIn(after)
      BY <3>2, <3>3, WorkSomewhere DEF AllWork, HasSwitched
    <3>. QED
      BY <2>1, <3>2, <3>4 DEF HasSwitched
  <2>4. CASE ~r.flag
    <3>. DEFINE heads == [b \in DOMAIN repo.heads \cup {r.target} |->
                            IF b = r.target THEN Tip ELSE repo.heads[b]]
    <3>1. after = [repo EXCEPT !.heads = heads]
      BY <1>1, <1>6, <2>4 DEF GitEffects, BranchCreated, Repository
    <3>2. heads \in Heads
      <4>. PICK B \in SUBSET (Branches \cup {"HEAD"}) : repo.heads \in [B -> SUBSET Work]
        BY <1>1 DEF Repository, Heads
      <4>1. heads \in [B \cup {r.target} -> SUBSET Work]
        BY <2>2
      <4>2. B \cup {r.target} \in SUBSET (Branches \cup {"HEAD"})
        BY <2>1
      <4>. HIDE DEF heads
      <4>. QED
        BY <4>1, <4>2 DEF Heads
    <3>3. /\ \A b \in DOMAIN repo.heads : b \in DOMAIN heads /\ heads[b] = repo.heads[b]
          /\ "HEAD" \in DOMAIN heads => "HEAD" \in DOMAIN repo.heads
      BY <2>1
    <3>. HIDE DEF heads
    <3>4. /\ after \in Repository /\ after.at = repo.at /\ after.heads = heads
          /\ after.index = repo.index /\ after.worktree = repo.worktree
          /\ after.remote = repo.remote
      BY <1>1, <3>1, <3>2 DEF Repository
    <3>. QED
      BY <1>1, <3>3, <3>4, WorkSomewhere DEF AllWork
  <2>. QED
    BY <2>3, <2>4
<1>7. CASE r.action = "branch_checkout" /\ ~MoreThanAName(r)
  <2>. PICK b, w : /\ after = Switched(b, w) /\ w \in SUBSET Work
                   /\ b \in Branches \cup {"HEAD"}
                   /\ \/ b \in DOMAIN repo.heads /\ w = repo.heads[b]
                      \/ b = "HEAD"
    <3>1. CASE r.target = "commit"
      <4>1. \E w \in SUBSET Tip : after = Switched("HEAD", w)
        BY <1>7, <3>1 DEF GitEffects, CheckedOut
      <4>. QED
        BY <4>1, HeadMoves
    <3>2. CASE r.target # "commit"
      <4>1. r.target \in DOMAIN repo.heads
        BY <1>7, <3>2 DEF GitRefuses
      <4>2. after \in CheckedOut(r)
        BY <1>7 DEF GitEffects
      <4>3. after = Switched(r.target, repo.heads[r.target])
        BY <1>7, <3>2, <4>2 DEF CheckedOut
      <4>. QED
        BY <4>1, <4>3, HeadsAre
    <3>. QED
      BY <3>1, <3>2
  <2>1. ~Discards(r) => "HEAD" \notin DOMAIN repo.heads
    BY <1>1, <1>7 DEF Discards
  <2>2. HasSwitched(after, b, w)
    BY Switches
  <2>3. ~Discards(r) =>
          \A h \in DOMAIN repo.heads : h \in DOMAIN after.heads /\ after.heads[h] = repo.heads[h]
    BY <2>1, <2>2 DEF HasSwitched
  <2>. QED
    BY <2>2, <2>3, WorkSomewhere DEF AllWork, HasSwitched
<1>11. CASE r.action = "branch_checkout" /\ MoreThanAName(r)
  <2>1. after \in CheckedOut(r)
    BY <1>11 DEF GitEffects
  <2>. DEFINE Less == {[repo EXCEPT !.worktree = w] : w \in SUBSET repo.worktree}
  <2>2. after \in Less \cup {[less EXCEPT !.index = {}] : less \in Less}
    BY <1>11, <2>1 DEF CheckedOut
  <2>3. \A less \in Less : less \in Repository /\ less.at = repo.at /\ less.heads = repo.heads
    BY <1>1 DEF Repository
  <2>. HIDE DEF Less
  <2>4. PICK less \in Less : after = less \/ after = [less EXCEPT !.index = {}]
    BY <2>2
  <2>5. after \in Repository /\ after.at = repo.at /\ after.heads = repo.heads
    BY <2>3, <2>4 DEF Repository
  <2>. QED
    BY <1>1, <1>11, <2>5 DEF Discards, MoreThanAName
<1>8. CASE r.action = "reset"
  <2>. PICK w \in SUBSET Tip :
         after = IF r.flag \/ MoreThanAName(r)
                 THEN [repo EXCEPT !.heads = NewHead(w), !.index = {}, !.worktree = {}]
                 ELSE [repo EXCEPT !.heads = NewHead(w), !.index = @ \cup (Tip \ w)]
    BY <1>8 DEF GitEffects, WasReset
  <2>1. w \in SUBSET Work /\ Tip \in SUBSET Work
    BY HeadMoves
  <2>2. CASE r.flag \/ MoreThanAName(r)
    <3>1. GitConfirms(r) \/ Discards(r)
      BY <1>8, <2>2 DEF GitConfirms, Discards, MoreThanAName
    <3>2. after \in Repository /\ after.heads = NewHead(w) /\ after.at = repo.at
      BY <1>1, <2>1, <2>2, HeadMoves DEF Repository
    <3>. QED
      BY <1>1, <2>1, <3>1, <3>2, HeadMoves
  <2>3. CASE ~(r.flag \/ MoreThanAName(r))
    <3>1. /\ after \in Repository /\ after.heads = NewHead(w) /\ after.at = repo.at
          /\ after.index = repo.index \cup (Tip \ w) /\ after.worktree = repo.worktree
          /\ after.remote = repo.remote
      BY <1>1, <2>1, <2>3, HeadMoves DEF Repository
    <3>2. \A b \in DOMAIN repo.heads :
            /\ b \in DOMAIN after.heads
            /\ repo.heads[b] \subseteq after.heads[b] \cup after.index
      BY <2>1, <3>1, HeadsHave
    <3>3. DOMAIN after.heads = DOMAIN repo.heads
      BY <2>1, <3>1, HeadMoves
    <3>. QED
      BY <1>1, <3>1, <3>2, <3>3, WorkSomewhere DEF AllWork
  <2>. QED
    BY <2>2, <2>3
<1>9. CASE r.action \notin {"add", "commit", "push", "pull", "branch_create",
                           "branch_checkout", "reset"}
  <2>1. after = repo
    BY <1>9 DEF GitEffects
  <2>. QED
    BY <1>1, <2>1 DEF AllWork
<1>. QED
  BY <1>2, <1>3, <1>4, <1>5, <1>6, <1>7, <1>8, <1>9, <1>10, <1>11

\* The end of a run of git gives its lock back.
LEMMA LockGivenBack ==
  ASSUME NEW c \in Calls, NEW after \in Repository
  PROVE  /\ Unlocked(c, after) \in Repository
         /\ WorkIn(Unlocked(c, after)) = WorkIn(after)
         /\ Unlocked(c, after).heads = after.heads /\ Unlocked(c, after).at = after.at
<1>1. Unlocked(c, after) = [after EXCEPT !.lock = IF after.lock = c THEN 0 ELSE after.lock]
  BY DEF Unlocked, Repository
<1>2. (IF after.lock = c THEN 0 ELSE after.lock) \in 0..MaxCalls
  BY CallAssumption DEF Repository
<1>. QED
  BY <1>1, <1>2 DEF Repository, WorkIn

LEMMA GitSteps ==
  ASSUME CallTypeOK, CallInv, CheckedInv, GitTypeOK, NEW c \in Calls,
         GitStep(c) \/ GitEnds(c) \/ GitLetsGo(c)
  PROVE  /\ CallStep(c) /\ ~Asks(c) /\ call[c].req.agent = "git"
         /\ GitTypeOK'
         /\ ~GitConfirms(call[c].req) /\ ~Discards(call[c].req) => AllWork \subseteq AllWork'
<1>. DEFINE r == call[c].req
            Kept == ~GitConfirms(r) /\ ~Discards(r) => AllWork \subseteq AllWork'
<1>1. CallStep(c) /\ ~Asks(c) /\ r.agent = "git" /\ r \in Requests /\ r.target # ""
  <2>1. /\ At(c, "git", "working", GitActions) \/ At(c, "git", "midway", GitActions)
        /\ Answers(c) \/ GoesOn(c)
    BY DEF GitStep, GitStarts, GitExits, GitTimesOut, GitEnds, GitLetsGo, At, Answers, GoesOn,
           Statuses
  <2>. QED
    BY <2>1 DEF At, CallStep, Asks, CallInv, CheckedInv
<1>. HIDE DEF r
<1>2. /\ repo \in Repository /\ repo.at \in DOMAIN repo.heads
      /\ "HEAD" \in DOMAIN repo.heads => repo.at = "HEAD"
  BY DEF GitTypeOK
<1>3. CASE GitStarts(c)
  <2>1. repo' = repo \/ repo' = [repo EXCEPT !.lock = c]
    BY <1>3 DEF GitStarts
  <2>2. c \in 0..MaxCalls
    BY CallAssumption DEF Calls
  <2>3. repo' \in Repository /\ repo'.heads = repo.heads /\ repo'.at = repo.at
    BY <1>2, <2>1, <2>2 DEF Repository
  <2>4. AllWork' = AllWork
    BY <1>2, <2>1 DEF AllWork, WorkIn, Repository
  <2>. QED
    BY <1>1, <1>2, <2>3, <2>4 DEF GitTypeOK, r
<1>4. CASE GitExits(c)
  BY <1>1, <1>2, <1>4 DEF GitExits, GitTypeOK, AllWork, r
<1>5. ASSUME NEW after \in Repository, GitKeepsWork(r, after), repo' \in Repository,
             repo'.heads = after.heads, repo'.at = after.at, WorkIn(repo') = WorkIn(after)
      PROVE  GitTypeOK' /\ Kept
  BY <1>5 DEF GitKeepsWork, GitTypeOK, AllWork
<1>6. GitKeepsWork(r, repo)
  BY <1>2 DEF GitKeepsWork, AllWork
<1>7. ASSUME ~GitRefuses(r), NEW after \in GitEffects(r)
      PROVE  GitKeepsWork(r, after)
  BY <1>1, <1>7, GitKeeps
<1>8. CASE GitEnds(c)
  <2>1. PICK after : repo' = Unlocked(c, after) /\ GitKeepsWork(r, after)
    BY <1>6, <1>7, <1>8 DEF GitEnds, r
  <2>. QED
    BY <1>1, <1>5, <2>1, LockGivenBack DEF GitKeepsWork, r
<1>9. CASE GitTimesOut(c)
  <2>. PICK after \in {repo} \cup (IF GitRefuses(r) THEN {} ELSE GitEffects(r)),
            left \in {FALSE, repo.lock = c}, helped \in {{}, {c}} :
         repo' = [Unlocked(c, after) EXCEPT !.stale = @ \/ left, !.helpers = @ \cup helped]
    BY <1>9 DEF GitTimesOut, r
  <2>0. left \in BOOLEAN /\ helped \in SUBSET Calls
    OBVIOUS
  <2>1. GitKeepsWork(r, after)
    BY <1>6, <1>7
  <2>. DEFINE u == Unlocked(c, after)
  <2>2. /\ after \in Repository /\ u \in Repository /\ WorkIn(u) = WorkIn(after)
        /\ u.heads = after.heads /\ u.at = after.at
    BY <2>1, LockGivenBack DEF GitKeepsWork
  <2>. HIDE DEF u
  <2>3. repo' = [u EXCEPT !.stale = u.stale \/ left, !.helpers = u.helpers \cup helped]
    BY <2>2 DEF u, Repository
  <2>3a. /\ (u.stale \/ left) \in BOOLEAN /\ u.helpers \cup helped \in SUBSET Calls
    BY <2>0, <2>2 DEF Repository
  <2>. DEFINE stale == u.stale \/ left
              helpers == u.helpers \cup helped
  <2>3b. repo' = [u EXCEPT !.stale = stale, !.helpers = helpers]
    BY <2>3
  <2>. HIDE DEF stale, helpers
  <2>3c. stale \in BOOLEAN /\ helpers \in SUBSET Calls
    BY <2>3a DEF stale, helpers
  <2>4. /\ repo' \in Repository /\ repo'.heads = u.heads /\ repo'.at = u.at
        /\ repo'.worktree = u.worktree /\ repo'.index = u.index /\ repo'.remote = u.remote
    BY <2>2, <2>3b, <2>3c DEF Repository
  <2>5. WorkIn(repo') = WorkIn(u)
    BY <2>4 DEF WorkIn
  <2>. QED
    BY <1>1, <1>5, <2>1, <2>2, <2>4, <2>5 DEF r
<1>10. CASE GitLetsGo(c)
  <2>1. /\ repo' \in Repository /\ repo'.heads = repo.heads /\ repo'.at = repo.at
        /\ WorkIn(repo') = WorkIn(repo)
    BY <1>2, <1>10 DEF GitLetsGo, Repository, WorkIn
  <2>. QED
    BY <1>1, <1>2, <1>5, <1>6, <2>1 DEF r
<1>. QED
  BY <1>3, <1>4, <1>8, <1>9, <1>10 DEF GitStep

\* A call that has no child of its own keeps the children of the others.
LEMMA ChildrenKept ==
  ASSUME CallTypeOK, ChildInv, NEW c \in Calls, CallStep(c), UNCHANGED os,
         call[c].req.agent # "process" \/ call[c].pc # "midway"
  PROVE  ChildInv'
BY OneCall DEF ChildInv

LEMMA ProcessSteps ==
  ASSUME CallTypeOK, CallInv, ProcessTypeOK, ChildInv, NEW c \in Calls,
         ProcessStep(c) \/ ChildEnds(c) \/ LingerEnds(c)
  PROVE  /\ CallStep(c) \/ UNCHANGED call
         /\ ~Asks(c) /\ call[c].req.agent = "process"
         /\ ProcessTypeOK' /\ ChildInv'
<1>1. /\ call[c].req.agent = "process" /\ call[c].pc \in {"working", "midway"}
      /\ Answers(c) \/ GoesOn(c) \/ UNCHANGED call
  <2>1. CASE LingerEnds(c)
    BY <2>1 DEF LingerEnds, ChildInv, Answers, Statuses
  <2>2. CASE ChildEnds(c) \/ ChildTimesOut(c)
    BY <2>2 DEF ChildEnds, ChildTimesOut, At, Answers, Statuses
  <2>3. CASE StartChild(c) \/ CannotStart(c)
    BY <2>3 DEF StartChild, CannotStart, At, Answers, GoesOn, Statuses
  <2>4. CASE Tasklist(c)
    BY <2>4 DEF Tasklist, At, Answers, GoesOn, Statuses
  <2>5. CASE KillPid(c)
    BY <2>5 DEF KillPid, At, Answers, Statuses
  <2>. QED
    BY <2>1, <2>2, <2>3, <2>4, <2>5 DEF ProcessStep
<1>2. ~Asks(c) /\ (CallStep(c) \/ UNCHANGED call)
  BY <1>1 DEF Asks, CallStep
<1>3. \A d \in Calls : d # c => call'[d] = call[d]
  BY <1>2, OneCall
<1>4. os \in [child : [Calls -> {"none", "running", "lingering", "gone"}], alive : BOOLEAN]
  BY DEF ProcessTypeOK
<1>5. CASE StartChild(c)
  <2>1. os' = [os EXCEPT !.child[c] = "running"] /\ call'[c].pc = "midway"
          /\ call'[c].req = call[c].req
    BY <1>5 DEF StartChild, GoOn, CallTypeOK
  <2>. QED
    BY <1>1, <1>2, <1>3, <1>4, <2>1 DEF ProcessTypeOK, ChildInv
<1>6. CASE UNCHANGED os /\ call[c].pc = "working"
  <2>1. os.child[c] \notin {"running", "lingering"}
    BY <1>6 DEF ChildInv
  <2>. QED
    BY <1>1, <1>2, <1>3, <1>4, <1>6, <2>1 DEF ProcessTypeOK, ChildInv
<1>7. CASE os' = [os EXCEPT !.child[c] = "gone"]
  BY <1>1, <1>2, <1>3, <1>4, <1>7 DEF ProcessTypeOK, ChildInv
<1>8. CASE UNCHANGED call /\ call[c].pc = "midway" /\ os' = [os EXCEPT !.child[c] = "lingering"]
  BY <1>1, <1>2, <1>4, <1>8 DEF ProcessTypeOK, ChildInv
<1>9. CASE os' = [os EXCEPT !.alive = FALSE] /\ call[c].pc = "working"
  <2>1. os.child[c] \notin {"running", "lingering"}
    BY <1>9 DEF ChildInv
  <2>. QED
    BY <1>1, <1>2, <1>3, <1>4, <1>9, <2>1 DEF ProcessTypeOK, ChildInv
<1>. QED
  BY <1>5, <1>6, <1>7, <1>8, <1>9
     DEF ProcessStep, ChildEnds, LingerEnds, ChildTimesOut, CannotStart, Tasklist, KillPid, At

----------------------------------------------------------------------------
(* A call comes. *)

\* What a new call keeps, whatever its agent.
Came(c) ==
  /\ Asks(c) /\ CheckedInv'
  /\ call'[c].req.agent = "database" => call'[c].status # "SUCCESS"

LEMMA ArrivesAnswered ==
  ASSUME CallTypeOK, CheckedInv, NEW c \in Calls, Next_(c), NEW r \in Requests,
         NEW s \in Statuses, AnswerAtOnce(c, r, s), r.agent = "database" => s # "SUCCESS"
  PROVE  Came(c) /\ call'[c].req = r
<1>1. Asks(c)
  BY DEF Next_, Asks, Kinds
<1>2. \A d \in Calls : d # c => call'[d] = call[d]
  BY <1>1, OneCall DEF CallStep
<1>3. /\ call'[c].pc = "answered" /\ call'[c].req = r /\ call'[c].status = s
  BY DEF AnswerAtOnce, CallTypeOK, NewCall
<1>4. CheckedInv'
  BY <1>2, <1>3 DEF CheckedInv
<1>. QED
  BY <1>1, <1>3, <1>4 DEF Came

LEMMA ArrivesQueued ==
  ASSUME CallTypeOK, CheckedInv, NEW c \in Calls, Next_(c), NEW r \in Requests,
         NEW seen \in Kinds, ToThread(c, r, seen),
         r.agent = "filesystem" =>
           /\ r.target \in InRoot
           /\ r.action = "create_file" /\ ~r.flag => seen = "none",
         r.agent = "git" => r.target # ""
  PROVE  Came(c) /\ call'[c].req = r
<1>1. Asks(c)
  BY DEF Next_, Asks
<1>2. \A d \in Calls : d # c => call'[d] = call[d]
  BY <1>1, OneCall DEF CallStep
<1>3. /\ call'[c].pc = "queued" /\ call'[c].req = r /\ call'[c].seen = seen
      /\ call'[c].status = "none"
  BY DEF ToThread, CallTypeOK, NewCall
<1>4. CheckedInv'
  BY <1>2, <1>3 DEF CheckedInv
<1>. QED
  BY <1>1, <1>3, <1>4 DEF Came

LEMMA FsArrives ==
  ASSUME CallTypeOK, CheckedInv, FsTypeOK, NEW c \in Calls, Next_(c), NEW r \in Requests,
         ExecuteFs(c, r)
  PROVE  Came(c) /\ call'[c].req = r /\ FsTypeOK'
<1>1. r.agent = "filesystem"
  BY DEF ExecuteFs
<1>2. CASE FsRefuses(r)
  BY <1>1, <1>2, ArrivesAnswered DEF ExecuteFs, FsTypeOK, Statuses
<1>3. CASE ~FsRefuses(r) /\ r.action \in ReadActions \cup WriteActions
  <2>1. r.target \in InRoot /\ files[r.target].kind \in Kinds
    BY <1>3, PathsAssumption DEF FsRefuses, FsTypeOK
  <2>2. r.action = "create_file" /\ ~r.flag => files[r.target].kind = "none"
    BY <1>3 DEF FsRefuses
  <2>3. ToThread(c, r, files[r.target].kind) /\ UNCHANGED files
    BY <1>3 DEF ExecuteFs
  <2>. QED
    BY <1>1, <2>1, <2>2, <2>3, ArrivesQueued DEF FsTypeOK
<1>4. CASE ~FsRefuses(r) /\ r.action \notin ReadActions \cup WriteActions
  <2>1. AnswerAtOnce(c, r, "SUCCESS")
    BY <1>4 DEF ExecuteFs
  <2>2. UNCHANGED files \/ Becomes(r.target, "dir", 0) \/ Becomes(r.target, "none", 0)
    BY <1>4 DEF ExecuteFs
  <2>3. FsTypeOK'
    BY <2>2, CallAssumption DEF FsTypeOK, Becomes, Kinds
  <2>. QED
    BY <1>1, <2>1, <2>3, ArrivesAnswered DEF Statuses
<1>. QED
  BY <1>2, <1>3, <1>4

LEMMA DbArrives ==
  ASSUME CallTypeOK, CheckedInv, NEW c \in Calls, Next_(c), NEW r \in Requests, ExecuteDb(c, r)
  PROVE  Came(c) /\ UNCHANGED db
BY ArrivesAnswered, ArrivesQueued DEF ExecuteDb, Statuses, Kinds

LEMMA GitArrives ==
  ASSUME CallTypeOK, CheckedInv, NEW c \in Calls, Next_(c), NEW r \in Requests, ExecuteGit(c, r)
  PROVE  Came(c) /\ UNCHANGED repo
BY ArrivesAnswered, ArrivesQueued DEF ExecuteGit, Statuses, Kinds

LEMMA ProcessArrives ==
  ASSUME CallTypeOK, CheckedInv, NEW c \in Calls, Next_(c), NEW r \in Requests,
         ExecuteProcess(c, r)
  PROVE  Came(c) /\ UNCHANGED os
BY ArrivesAnswered, ArrivesQueued DEF ExecuteProcess, Statuses, Kinds

LEMMA MemoryArrives ==
  ASSUME CallTypeOK, CheckedInv, MemoryTypeOK, NEW c \in Calls, Next_(c), NEW r \in Requests,
         ExecuteMemory(c, r)
  PROVE  Came(c) /\ call'[c].req = r /\ MemoryTypeOK'
<1>1. Came(c) /\ call'[c].req = r
  BY ArrivesAnswered, ArrivesQueued DEF ExecuteMemory, Statuses, Kinds
<1>2. MemoryTypeOK'
  BY DEF ExecuteMemory, MemoryEffects, MemoryTypeOK
<1>. QED
  BY <1>1, <1>2

----------------------------------------------------------------------------
(* The invariant. *)

LEMMA InvInit == Init => IInv
<1>. SUFFICES ASSUME Init PROVE IInv
  OBVIOUS
<1>. USE CallAssumption DEF Init
<1>1. CallTypeOK /\ CallInv /\ CheckedInv
  BY DEF CallInit, CallTypeOK, CallInv, CheckedInv, NewCall, NoRequest, Kinds
<1>2. PoolInv
  <2>1. Busy = {}
    BY DEF CallInit, NewCall, Busy
  <2>. QED
    BY <2>1, FS_EmptySet DEF PoolInv
<1>3. FsTypeOK /\ ProcessTypeOK /\ MemoryTypeOK /\ ChildInv
  BY DEF FsInit, FsTypeOK, Kinds, ProcessInit, ProcessTypeOK, ChildInv, MemoryInit, MemoryTypeOK
<1>4. GitTypeOK
  BY DEF GitInit
<1>5. DbInv
  <2>1. db.lock = 0 /\ db.log = <<>> /\ db.tx = <<>> /\ DbTypeOK
    BY EmptySeq DEF DbInit, DbTypeOK
  <2>2. TxInv /\ LogInv
    BY <2>1 DEF TxInv, LogInv
  <2>3. \A c \in Calls : ~AtWork(c) /\ call[c].status = "none" /\ Logged(c) = {}
    BY <2>1 DEF CallInit, NewCall, AtWork, Logged
  <2>. QED
    BY <2>1, <2>2, <2>3 DEF DbInv, ProgressInv, DatabaseAtomic
<1>. QED
  BY <1>1, <1>2, <1>3, <1>4, <1>5 DEF IInv

\* A step of a call, other than of the database.
LEMMA AsideKept ==
  ASSUME IInv, NEW c \in Calls, CallStep(c), UNCHANGED db, ~AtWork(c),
         Asks(c) => Came(c)
  PROVE  CallTypeOK' /\ CallInv' /\ PoolInv' /\ CheckedInv' /\ DbInv'
BY CallsKept, PoolKept, CheckedKept, DbAside DEF IInv, Came

\* A step that is of no call, and not the database's.
LEMMA CallsUntouched ==
  ASSUME IInv, UNCHANGED <<call, db>>
  PROVE  CallTypeOK' /\ CallInv' /\ PoolInv' /\ CheckedInv' /\ DbInv'
<1>1. CallTypeOK' /\ CallInv' /\ PoolInv' /\ CheckedInv'
  BY DEF IInv, CallTypeOK, CallInv, PoolInv, Busy, CheckedInv
<1>2. \A c \in Calls :
        /\ AtWork(c)' <=> AtWork(c)
        /\ \A i : Transacted(c, i)' <=> Transacted(c, i)
        /\ ToLog(c)' = ToLog(c) /\ Logged(c)' = Logged(c)
        /\ LoggedAsAWhole(c)' <=> LoggedAsAWhole(c)
  BY SameRequest DEF AtWork
<1>3. DbTypeOK' /\ LogInv'
  BY DEF IInv, DbInv, DbTypeOK, LogInv
<1>4. TxInv'
  BY <1>2 DEF IInv, DbInv, DbTypeOK, TxInv, ToLogSoFar, Calls
<1>5. ProgressInv' /\ DatabaseAtomic'
  BY <1>2 DEF IInv, DbInv, ProgressInv, DatabaseAtomic
<1>. QED
  BY <1>1, <1>3, <1>4, <1>5 DEF DbInv

LEMMA AskKeeps ==
  ASSUME IInv, Ask
  PROVE  IInv'
<1>. PICK c \in Calls, r \in Requests :
       /\ Next_(c)
       /\ \/ ExecuteFs(c, r) /\ UNCHANGED <<db, repo, os, memory>>
          \/ ExecuteDb(c, r) /\ UNCHANGED <<files, repo, os, memory>>
          \/ ExecuteGit(c, r) /\ UNCHANGED <<files, db, os, memory>>
          \/ ExecuteProcess(c, r) /\ UNCHANGED <<files, db, repo, memory>>
          \/ ExecuteMemory(c, r) /\ UNCHANGED <<files, db, repo, os>>
  BY DEF Ask
<1>1. Came(c) /\ UNCHANGED <<db, repo, os>> /\ FsTypeOK' /\ MemoryTypeOK'
  <2>1. CASE ExecuteFs(c, r) /\ UNCHANGED <<db, repo, os, memory>>
    BY <2>1, FsArrives DEF IInv, MemoryTypeOK
  <2>2. CASE ExecuteDb(c, r) /\ UNCHANGED <<files, repo, os, memory>>
    BY <2>2, DbArrives DEF IInv, MemoryTypeOK, FsTypeOK
  <2>3. CASE ExecuteGit(c, r) /\ UNCHANGED <<files, db, os, memory>>
    BY <2>3, GitArrives DEF IInv, MemoryTypeOK, FsTypeOK
  <2>4. CASE ExecuteProcess(c, r) /\ UNCHANGED <<files, db, repo, memory>>
    BY <2>4, ProcessArrives DEF IInv, MemoryTypeOK, FsTypeOK
  <2>5. CASE ExecuteMemory(c, r) /\ UNCHANGED <<files, db, repo, os>>
    BY <2>5, MemoryArrives DEF IInv, FsTypeOK
  <2>. QED
    BY <2>1, <2>2, <2>3, <2>4, <2>5
<1>2. Asks(c) /\ CallStep(c) /\ call[c].pc = "none"
  BY <1>1 DEF Came, Asks, CallStep
<1>3. ~AtWork(c)
  BY <1>2 DEF AtWork
<1>4. CallTypeOK' /\ CallInv' /\ PoolInv' /\ CheckedInv' /\ DbInv'
  BY <1>1, <1>2, <1>3, AsideKept
<1>5. ChildInv'
  BY <1>1, <1>2, ChildrenKept DEF IInv
<1>6. GitTypeOK' /\ ProcessTypeOK'
  BY <1>1 DEF IInv, GitTypeOK, ProcessTypeOK
<1>. QED
  BY <1>1, <1>4, <1>5, <1>6 DEF IInv

LEMMA TakeKeeps ==
  ASSUME IInv, NEW c \in Calls, Take(c)
  PROVE  IInv'
<1>1. CallStep(c) /\ ~Asks(c) /\ ~AtWork(c) /\ call[c].pc = "queued"
  BY DEF Take, TakeThread, CallStep, Asks, AtWork
<1>2. UNCHANGED <<files, db, repo, os, memory>>
  BY DEF Take
<1>3. CallTypeOK' /\ CallInv' /\ PoolInv' /\ CheckedInv' /\ DbInv'
  BY <1>1, <1>2, AsideKept
<1>4. ChildInv'
  BY <1>1, <1>2, ChildrenKept DEF IInv
<1>. QED
  BY <1>2, <1>3, <1>4 DEF IInv, FsTypeOK, GitTypeOK, ProcessTypeOK, MemoryTypeOK

\* A step of an agent other than the database's.
LEMMA AgentKeeps ==
  ASSUME IInv, NEW c \in Calls,
         \/ FsStep(c) /\ UNCHANGED <<db, repo, os, memory>>
         \/ (GitStep(c) \/ GitEnds(c) \/ GitLetsGo(c)) /\ UNCHANGED <<files, db, os, memory>>
         \/ MemoryStep(c) /\ UNCHANGED <<files, db, repo, os>>
  PROVE  IInv'
<1>1. /\ CallStep(c) /\ ~Asks(c) /\ call[c].req.agent \in {"filesystem", "git", "memory"}
      /\ FsTypeOK' /\ GitTypeOK' /\ MemoryTypeOK' /\ UNCHANGED <<db, os>>
  <2>1. CASE FsStep(c) /\ UNCHANGED <<db, repo, os, memory>>
    BY <2>1, FilesStep DEF IInv, GitTypeOK, MemoryTypeOK
  <2>2. CASE (GitStep(c) \/ GitEnds(c) \/ GitLetsGo(c)) /\ UNCHANGED <<files, db, os, memory>>
    BY <2>2, GitSteps DEF IInv, FsTypeOK, MemoryTypeOK
  <2>3. CASE MemoryStep(c) /\ UNCHANGED <<files, db, repo, os>>
    BY <2>3, MemorySteps DEF IInv, FsTypeOK, GitTypeOK
  <2>. QED
    BY <2>1, <2>2, <2>3
<1>2. CallTypeOK' /\ CallInv' /\ PoolInv' /\ CheckedInv' /\ DbInv'
  BY <1>1, AsideKept DEF AtWork
<1>3. ChildInv' /\ ProcessTypeOK'
  BY <1>1, ChildrenKept DEF IInv, ProcessTypeOK
<1>. QED
  BY <1>1, <1>2, <1>3 DEF IInv

LEMMA ProcessKeeps ==
  ASSUME IInv, NEW c \in Calls, ProcessStep(c) \/ ChildEnds(c) \/ LingerEnds(c),
         UNCHANGED <<files, db, repo, memory>>
  PROVE  IInv'
<1>1. /\ CallStep(c) \/ UNCHANGED call
      /\ ~Asks(c) /\ ~AtWork(c) /\ ProcessTypeOK' /\ ChildInv'
  BY ProcessSteps DEF IInv, AtWork
<1>2. CallTypeOK' /\ CallInv' /\ PoolInv' /\ CheckedInv' /\ DbInv'
  <2>1. CASE CallStep(c)
    BY <1>1, <2>1, AsideKept
  <2>2. CASE UNCHANGED call
    BY <2>2, CallsUntouched
  <2>. QED
    BY <1>1, <2>1, <2>2
<1>. QED
  BY <1>1, <1>2 DEF IInv, FsTypeOK, GitTypeOK, MemoryTypeOK

LEMMA DbKeeps ==
  ASSUME IInv, NEW c \in Calls, DbStep(c), UNCHANGED <<files, repo, os, memory>>
  PROVE  IInv'
<1>1. CallStep(c) /\ DbInv'
  BY Writing, Reading, Defining, Failing, Committing DEF DbStep, IInv
<1>2. At(c, "database", "working", DbActions)
  BY DEF DbStep, DbWrite, DbRead, DbDefine, DbFails, DbCommit, More
<1>3. ~Asks(c) /\ call[c].req.agent = "database"
  BY <1>2 DEF At, Asks
<1>4. CallTypeOK' /\ CallInv' /\ PoolInv' /\ CheckedInv' /\ ChildInv'
  BY <1>1, <1>3, CallsKept, PoolKept, CheckedKept, ChildrenKept DEF IInv
<1>. QED
  BY <1>1, <1>4 DEF IInv, FsTypeOK, GitTypeOK, ProcessTypeOK, MemoryTypeOK

\* What happens outside, to no call.
LEMMA OutsideKeeps ==
  ASSUME IInv, UNCHANGED <<call, files, db>>,
         \/ (NewWork \/ RemoveLock) /\ UNCHANGED <<os, memory>>
         \/ PidChanges /\ UNCHANGED <<repo, memory>>
         \/ Expire /\ UNCHANGED <<repo, os>>
         \/ UNCHANGED <<repo, os, memory>>
  PROVE  IInv'
<1>1. GitTypeOK'
  <2>1. CASE NewWork
    <3>. PICK w \in Work : \/ repo' = [repo EXCEPT !.worktree = @ \cup {w}]
                           \/ repo' = [repo EXCEPT !.remote = @ \cup {w}]
      BY <2>1 DEF NewWork
    <3>. QED
      BY DEF IInv, GitTypeOK, Repository
  <2>2. CASE RemoveLock \/ UNCHANGED repo
    BY <2>2 DEF IInv, GitTypeOK, Repository, RemoveLock
  <2>. QED
    BY <2>1, <2>2
<1>2. ProcessTypeOK' /\ ChildInv' /\ MemoryTypeOK'
  BY DEF IInv, ProcessTypeOK, ChildInv, MemoryTypeOK, PidChanges, Expire
<1>3. CallTypeOK' /\ CallInv' /\ PoolInv' /\ CheckedInv' /\ FsTypeOK' /\ DbInv'
  BY CallsUntouched DEF IInv, FsTypeOK
<1>. QED
  BY <1>1, <1>2, <1>3 DEF IInv

LEMMA InvNext == IInv /\ [Next]_vars => IInv'
<1>. SUFFICES ASSUME IInv, [Next]_vars PROVE IInv'
  OBVIOUS
<1>1. CASE Ask
  BY <1>1, AskKeeps
<1>2. ASSUME NEW c \in Calls, Take(c) PROVE IInv'
  BY <1>2, TakeKeeps
<1>3. ASSUME NEW c \in Calls, Work_(c) PROVE IInv'
  BY <1>3, AgentKeeps, DbKeeps, ProcessKeeps DEF Work_
<1>4. ASSUME NEW c \in Calls, Ends(c) PROVE IInv'
  BY <1>4, AgentKeeps, ProcessKeeps DEF Ends
<1>5. CASE Outside
  <2>1. CASE \E c \in Calls : LingerEnds(c) /\ UNCHANGED <<files, db, repo, memory>>
    BY <2>1, ProcessKeeps
  <2>2. CASE (NewWork \/ RemoveLock) /\ UNCHANGED <<files, db, os, memory>>
    BY <2>2, OutsideKeeps DEF NewWork, RemoveLock
  <2>3. CASE PidChanges /\ UNCHANGED <<files, db, repo, memory>>
    BY <2>3, OutsideKeeps DEF PidChanges
  <2>4. CASE Expire /\ UNCHANGED <<files, db, repo, os>>
    BY <2>4, OutsideKeeps DEF Expire
  <2>5. CASE \E c \in Calls : GitLetsGo(c) /\ UNCHANGED <<files, db, os, memory>>
    BY <2>5, AgentKeeps
  <2>. QED
    BY <1>5, <2>1, <2>2, <2>3, <2>4, <2>5 DEF Outside
<1>6. CASE UNCHANGED vars
  BY <1>6, OutsideKeeps DEF vars
<1>. QED
  BY <1>1, <1>2, <1>3, <1>4, <1>5, <1>6 DEF Next

\* The inductive invariant of the calls of the native agents.
THEOREM Invariance == Spec => []IInv
<1>. QED
  BY InvInit, InvNext, PTL DEF Spec

\* The variables keep their types, and no more calls have a thread than there are
\* threads in the executor that all agents share.
THEOREM TypeCorrect == Spec => []TypeOK
<1>1. IInv => TypeOK
  BY DEF IInv, DbInv, PoolInv, Busy, TypeOK
<1>. QED
  BY <1>1, Invariance, PTL

\* From its first write on, which is where the driver opens its transaction, a call
\* of the database agent is in the log as a whole once it has succeeded, and not at
\* all before that or when it failed.  DDL in front of its first write commits by
\* itself and is not spoken of.
THEOREM Atomic == Spec => []DatabaseAtomic
<1>1. IInv => DatabaseAtomic
  BY DEF IInv, DbInv
<1>. QED
  BY <1>1, Invariance, PTL

----------------------------------------------------------------------------
(* What a step takes away. *)

Safely(c) ==
  call'[c] # call[c] /\ ~Confirms(call'[c].req)
    => /\ ~LosesFile(c) /\ ~LosesMemory(c)
       /\ LosesWork => call[c].req.agent = "git" /\ Discards(call[c].req)

LEMMA NoFile ==
  ASSUME FsTypeOK, NEW c \in Calls, UNCHANGED files
  PROVE  ~LosesFile(c)
BY DEF LosesFile

LEMMA NoWork ==
  ASSUME UNCHANGED repo
  PROVE  ~LosesWork
BY DEF LosesWork, AllWork, WorkIn

LEMMA NoMemory ==
  ASSUME UNCHANGED memory, NEW c \in Calls
  PROVE  ~LosesMemory(c)
BY DEF LosesMemory

\* A step of one call is safe for the others, that it leaves alone.
LEMMA OneIsEnough ==
  ASSUME IInv, NEW c \in Calls, CallStep(c), Safely(c), NEW d \in Calls
  PROVE  Safely(d)
BY OneCall DEF IInv, Safely

LEMMA AskSafely ==
  ASSUME IInv, Ask, NEW d \in Calls
  PROVE  Safely(d)
<1>. PICK c \in Calls, r \in Requests :
       /\ Next_(c)
       /\ \/ ExecuteFs(c, r) /\ UNCHANGED <<db, repo, os, memory>>
          \/ ExecuteDb(c, r) /\ UNCHANGED <<files, repo, os, memory>>
          \/ ExecuteGit(c, r) /\ UNCHANGED <<files, db, os, memory>>
          \/ ExecuteProcess(c, r) /\ UNCHANGED <<files, db, repo, memory>>
          \/ ExecuteMemory(c, r) /\ UNCHANGED <<files, db, repo, os>>
  BY DEF Ask
<1>1. CASE ExecuteFs(c, r) /\ UNCHANGED <<db, repo, os, memory>>
  <2>1. Came(c) /\ call'[c].req = r /\ r.agent = "filesystem"
    BY <1>1, FsArrives DEF IInv, ExecuteFs
  <2>2. r.action # "delete_file" => ~LosesFile(c)
    <3>1. CASE UNCHANGED files
      BY <3>1, NoFile DEF IInv
    <3>2. CASE r.action = "create_directory" /\ ~FsRefuses(r)
      <4>1. Becomes(r.target, "dir", 0) /\ files[r.target].kind \in {"none", "dir"}
        BY <1>1, <3>2 DEF ExecuteFs, FsRefuses, ReadActions, WriteActions
      <4>. QED
        BY <4>1 DEF LosesFile, Becomes, IInv, FsTypeOK
    <3>. QED
      BY <1>1, <3>1, <3>2 DEF ExecuteFs
  <2>3. Safely(c)
    BY <1>1, <2>1, <2>2, NoWork, NoMemory DEF Safely, Confirms, FsConfirms
  <2>. QED
    BY <2>1, <2>3, OneIsEnough DEF Came, CallStep
<1>2. CASE /\ ExecuteDb(c, r) \/ ExecuteGit(c, r) \/ ExecuteProcess(c, r)
           /\ UNCHANGED <<files, repo, memory>>
  <2>1. Came(c)
    BY <1>2, DbArrives, GitArrives, ProcessArrives DEF IInv
  <2>2. Safely(c)
    BY <1>2, NoFile, NoWork, NoMemory DEF Safely, IInv
  <2>. QED
    BY <2>1, <2>2, OneIsEnough DEF Came, CallStep
<1>3. CASE ExecuteMemory(c, r) /\ UNCHANGED <<files, db, repo, os>>
  <2>1. Came(c) /\ call'[c].req = r
    BY <1>3, MemoryArrives DEF IInv
  <2>2. ~LosesMemory(c)
    BY <1>3, <2>1 DEF ExecuteMemory, MemoryEffects, LosesMemory, IInv, MemoryTypeOK
  <2>3. Safely(c)
    BY <1>3, <2>2, NoFile, NoWork DEF Safely, IInv
  <2>. QED
    BY <2>1, <2>3, OneIsEnough DEF Came, CallStep
<1>. QED
  BY <1>1, <1>2, <1>3 DEF ExecuteDb, ExecuteGit, ExecuteProcess

LEMMA FsSafely ==
  ASSUME IInv, NEW c \in Calls, FsStep(c), UNCHANGED <<repo, memory>>, NEW d \in Calls
  PROVE  Safely(d)
<1>1. CallStep(c)
  BY FilesStep DEF IInv
<1>2. ~LosesFile(c)
  <2>1. CASE UNCHANGED files
    BY <2>1, NoFile DEF IInv
  <2>2. CASE TruncateFile(c) /\ Becomes(call[c].req.target, "empty", c)
    <3>1. call[c].req.action \in WriteActions
      BY <2>2 DEF TruncateFile, At
    <3>2. \A p \in Paths : p # call[c].req.target => files'[p] = files[p]
      BY <2>2 DEF Becomes, IInv, FsTypeOK
    <3>. QED
      BY <3>1, <3>2 DEF LosesFile, IInv, FsTypeOK
  <2>3. CASE WriteFile(c)
    BY <2>3 DEF WriteFile, Becomes, LosesFile, IInv, FsTypeOK
  <2>. QED
    BY <2>1, <2>2, <2>3 DEF FsStep, ReadFile, TruncateFile, WriteFails
<1>3. Safely(c)
  BY <1>2, NoWork, NoMemory DEF Safely
<1>. QED
  BY <1>1, <1>3, OneIsEnough

LEMMA GitSafely ==
  ASSUME IInv, NEW c \in Calls, GitStep(c) \/ GitEnds(c) \/ GitLetsGo(c),
         UNCHANGED <<files, memory>>, NEW d \in Calls
  PROVE  Safely(d)
<1>1. /\ CallStep(c) /\ ~Asks(c) /\ call[c].req.agent = "git"
      /\ ~GitConfirms(call[c].req) /\ ~Discards(call[c].req) => AllWork \subseteq AllWork'
  BY GitSteps DEF IInv
<1>2. call'[c].req = call[c].req
  BY <1>1, RequestKept DEF IInv
<1>3. ~Confirms(call'[c].req) /\ LosesWork => Discards(call[c].req)
  BY <1>1, <1>2 DEF Confirms, LosesWork
<1>4. Safely(c)
  BY <1>1, <1>3, NoFile, NoMemory DEF Safely, IInv
<1>. QED
  BY <1>1, <1>4, OneIsEnough

LEMMA MemorySafely ==
  ASSUME IInv, NEW c \in Calls, MemoryStep(c), UNCHANGED <<files, repo>>, NEW d \in Calls
  PROVE  Safely(d)
<1>1. CallStep(c) /\ ~Asks(c)
  BY MemorySteps DEF IInv
<1>2. call'[c].req = call[c].req
  BY <1>1, RequestKept DEF IInv
<1>3. ~LosesMemory(c)
  BY <1>2 DEF MemoryStep, MemoryDone, MemoryRaises, MemoryEffects, LosesMemory, IInv, MemoryTypeOK
<1>4. Safely(c)
  BY <1>3, NoFile, NoWork DEF Safely, IInv
<1>. QED
  BY <1>1, <1>4, OneIsEnough

\* A step that changes no file, no work and no memory is safe.
LEMMA NothingTouched ==
  ASSUME IInv, UNCHANGED <<files, repo, memory>> \/ UNCHANGED call, NEW d \in Calls
  PROVE  Safely(d)
BY NoFile, NoWork, NoMemory DEF Safely, IInv

LEMMA StepSafely ==
  ASSUME IInv, [Next]_vars, NEW d \in Calls
  PROVE  Safely(d)
<1>1. CASE Ask
  BY <1>1, AskSafely
<1>2. ASSUME NEW c \in Calls, Take(c)
      PROVE  Safely(d)
  BY <1>2, NothingTouched DEF Take
<1>3. ASSUME NEW c \in Calls, Work_(c)
      PROVE  Safely(d)
  BY <1>3, FsSafely, GitSafely, MemorySafely, NothingTouched DEF Work_
<1>4. ASSUME NEW c \in Calls, Ends(c)
      PROVE  Safely(d)
  BY <1>4, GitSafely, NothingTouched DEF Ends
<1>5. CASE Outside
  BY <1>5, GitSafely, NothingTouched DEF Outside, NewWork, RemoveLock, Expire
<1>6. CASE UNCHANGED vars
  BY <1>6, NothingTouched DEF vars
<1>. QED
  BY <1>1, <1>2, <1>3, <1>4, <1>5, <1>6 DEF Next

\* No step of a call of which no confirmation is asked makes a file lose its
\* content, a piece of work leave the repository or a memory entry that is not over
\* disappear: whatever runs beside it, and however it ends.  Excepted are the file
\* that a write was given, and the calls of git that discard by what their target
\* says or that leave a detached HEAD.  Of tables nothing is said.
THEOREM NothingLost == Spec => NothingLostUnasked
<1>. DEFINE Safe == \A c \in Calls : Safely(c)
<1>1. IInv /\ [Next]_vars => [Safe]_vars
  BY StepSafely
<1>2. Spec => [][Safe]_vars
  BY <1>1, Invariance, PTL DEF Spec
<1>. QED
  BY <1>2 DEF NothingLostUnasked, Safely

=============================================================================

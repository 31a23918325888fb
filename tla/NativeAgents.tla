---------------------------- MODULE NativeAgents ----------------------------
(***************************************************************************)
(* The four native agents and the memory store under concurrent calls:     *)
(* their handlers interleave in the event loop and in the threads of the   *)
(* executor they share, with others at work on the same disk.              *)
(***************************************************************************)
EXTENDS FileSystemAgent, DatabaseAgent, GitAgent, ProcessAgent, MemoryStore

\* What AgentManager lets through: an action that the agent has, with arguments of
\* the types its handler takes.
ActionsOf(agent) ==
  CASE agent = "filesystem" -> FsActions
    [] agent = "database" -> DbActions
    [] agent = "git" -> GitActions
    [] agent = "process" -> RunActions \cup ListActions
    [] agent = "memory" -> MemoryActions

ASSUME RequestsAssumption ==
  /\ Requests \subseteq
       [agent : {"filesystem", "database", "git", "process", "memory"}, action : STRING,
        target : STRING, flag : BOOLEAN, ops : Seq({"write", "read", "ddl"})]
  /\ \A r \in Requests :
       /\ r.action \in ActionsOf(r.agent)
       /\ r.agent = "git" =>
            r.target \in Branches \cup (IF r.action = "branch_create" THEN {""}
                                      ELSE {"", "commit", "forced"})

vars == <<call, files, db, repo, os, memory>>

Init ==
  /\ CallInit /\ FsInit /\ DbInit /\ GitInit /\ ProcessInit /\ MemoryInit

\* The next call comes.  Arguments that a handler does not have are a TypeError,
\* in the event loop, whatever the agent.
Ask ==
  \E c \in Calls, r \in Requests :
    /\ Next_(c)
    /\ \/ ExecuteFs(c, r) /\ UNCHANGED <<db, repo, os, memory>>
       \/ ExecuteDb(c, r) /\ UNCHANGED <<files, repo, os, memory>>
       \/ ExecuteGit(c, r) /\ UNCHANGED <<files, db, os, memory>>
       \/ ExecuteProcess(c, r) /\ UNCHANGED <<files, db, repo, memory>>
       \/ ExecuteMemory(c, r) /\ UNCHANGED <<files, db, repo, os>>

Take(c) == TakeThread(c) /\ UNCHANGED <<files, db, repo, os, memory>>

Work_(c) ==
  \/ FsStep(c) /\ UNCHANGED <<db, repo, os, memory>>
  \/ DbStep(c) /\ UNCHANGED <<files, repo, os, memory>>
  \/ GitStep(c) /\ UNCHANGED <<files, db, os, memory>>
  \/ ProcessStep(c) /\ UNCHANGED <<files, db, repo, memory>>
  \/ MemoryStep(c) /\ UNCHANGED <<files, db, repo, os>>

\* What git or a command does by itself, if it ever does.
Ends(c) ==
  \/ GitEnds(c) /\ UNCHANGED <<files, db, os, memory>>
  \/ ChildEnds(c) /\ UNCHANGED <<files, db, repo, memory>>

Outside ==
  \/ (NewWork \/ RemoveLock) /\ UNCHANGED <<files, db, os, memory>>
  \/ \E c \in Calls : GitLetsGo(c) /\ UNCHANGED <<files, db, os, memory>>
  \/ (PidChanges \/ \E c \in Calls : LingerEnds(c)) /\ UNCHANGED <<files, db, repo, memory>>
  \/ Expire /\ UNCHANGED <<files, db, repo, os>>

Next == Ask \/ (\E c \in Calls : Take(c) \/ Work_(c) \/ Ends(c)) \/ Outside

Spec == Init /\ [][Next]_vars

\* A free thread takes a call that waits, and a thread goes on: SQLite waits five
\* seconds for its lock, git and a command have a timeout.  They need not end by
\* themselves, nor need what holds the pipes of a dead child.
FairSpec == Spec /\ \A c \in Calls : WF_vars(Take(c)) /\ WF_vars(Work_(c))

----------------------------------------------------------------------------
(* Properties *)

TypeOK ==
  /\ CallTypeOK /\ FsTypeOK /\ DbTypeOK /\ GitTypeOK /\ ProcessTypeOK /\ MemoryTypeOK
  /\ Cardinality({c \in Calls : call[c].pc \in {"working", "midway"}}) <= PoolSize

\* The operations that call c has in the log from its first write on, which is
\* where the driver begins its transaction, and those it should have.
Transacted(c, i) == \E j \in 1..i : call[c].req.ops[j] = "write"
Logged(c) ==
  {k \in DOMAIN db.log : db.log[k][1] = c /\ Transacted(c, db.log[k][2])}
ToLog(c) ==
  LET ops == call[c].req.ops
  IN  {i \in DOMAIN ops : ops[i] \in {"write", "ddl"} /\ Transacted(c, i)}

\* They are all there, in their order and with nothing of another call among them.
LoggedAsAWhole(c) ==
  /\ {db.log[k][2] : k \in Logged(c)} = ToLog(c)
  /\ \A j, k \in Logged(c) : j < k => db.log[j][2] < db.log[k][2]
  /\ \A j, k \in Logged(c) : \A i \in j..k : i \in Logged(c)

\* From the first write of a call on, all its operations are in the database, as a
\* whole, once it is answered with SUCCESS; before that, and when it fails, none
\* of them is.
DatabaseAtomic ==
  \A c \in Calls :
    IF call[c].status = "SUCCESS" /\ call[c].req.agent = "database"
    THEN LoggedAsAWhole(c) ELSE Logged(c) = {}

Confirms(r) ==
  \/ r.agent = "filesystem" /\ FsConfirms(r)
  \/ r.agent = "database" /\ DbConfirms(r)
  \/ r.agent = "git" /\ GitConfirms(r)
  \/ r.agent = "process" /\ ProcessConfirms(r)

\* What a step takes away: the content of a file that its call was not given to
\* write; a piece of work that is nowhere in the repository afterwards; a memory
\* entry that had not expired, but for the one a delete names.
LosesFile(c) ==
  \E p \in Paths :
    /\ files[p].kind \in {"file", "mixed"} /\ files'[p].kind \in {"none", "empty", "dir"}
    /\ ~(call[c].req.action \in WriteActions /\ call[c].req.target = p)
LosesWork == ~(AllWork \subseteq AllWork')
LosesMemory(c) ==
  \E i \in Calls :
    /\ memory[i] \in {"never", "fresh"} /\ memory'[i] = "absent"
    /\ call'[c].req.action # "delete"

\* The calls of git that discard work without being asked about, whatever their flag:
\* the target says it, or a detached HEAD is left.
Discards(r) ==
  \/ r.target = "forced" /\ r.action \in {"push", "pull", "branch_checkout", "reset"}
  \/ r.action = "branch_checkout" /\ repo.at = "HEAD"

\* No file, piece of work or memory entry is lost by an action that its agent would
\* not have had confirmed (requires_confirmation), whatever runs beside it and
\* however it ends; but for the file that a write was given, by whichever of its
\* aliases (CreateNeverOverwrites), and for the calls of git above.
NothingLostUnasked ==
  [][\A c \in Calls :
       call'[c] # call[c] /\ ~Confirms(call'[c].req)
         => /\ ~LosesFile(c) /\ ~LosesMemory(c)
            /\ LosesWork => call[c].req.agent = "git" /\ Discards(call[c].req)]_vars

\* filesystem/agent.py:31-34: create_file does not truncate what already exists,
\* without overwrite; neither what is there when it is called nor what another
\* call creates before its thread comes to it.
CreateNeverOverwrites ==
  [][\A c \in Calls, p \in Paths :
       /\ call'[c] # call[c] /\ call'[c].req.action = "create_file" /\ ~call'[c].req.flag
       /\ files[p].kind # "none" /\ files[p].by # c
       => files'[p] = files[p]]_vars

\* The threads that wait for the pipes of a dead child, of a command or of git.
Blocked == {c \in Calls : os.child[c] = "lingering"} \cup repo.helpers

\* Every call is answered, unless it waits for pipes that somebody holds, or
\* every thread of the executor does.
EveryCallAnswered ==
  \A c \in Calls :
    call[c].pc # "none" ~> \/ call[c].pc = "answered" \/ c \in Blocked
                           \/ Cardinality(Blocked) = PoolSize

=============================================================================

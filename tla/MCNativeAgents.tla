--------------------------- MODULE MCNativeAgents ---------------------------
(***************************************************************************)
(* Three calls on two threads.  The agents share no state but the threads, *)
(* so the calls of a behaviour are to one agent, or are calls of a command *)
(* that leaves its pipes to others beside calls of a second agent.  Two    *)
(* at most are to git, and one whose target is more than a branch's name   *)
(* is alone.  What happens outside happens while a call that can tell      *)
(* waits.                                                                  *)
(***************************************************************************)
EXTENDS NativeAgents

Of(agent, actions, target, flags) ==
  {[agent |-> agent, action |-> a, target |-> target, flag |-> f, ops |-> <<>>] :
     a \in actions, f \in flags}

DbCall(action, ops) ==
  [agent |-> "database", action |-> action, target |-> "db", flag |-> FALSE, ops |-> ops]

FsRequests ==
  Of("filesystem", {"write_file", "create_file", "read_file", "delete_file"}, "in", {FALSE})
    \cup Of("filesystem", {"create_directory", "list_directory"}, "in", {TRUE})
    \cup Of("filesystem", {"read_file"}, "out", {FALSE})

DbRequests ==
  {DbCall("execute_transaction", <<"read", "write", "write">>),
   DbCall("execute_transaction", <<"ddl", "write">>),
   DbCall("execute_transaction", <<>>),
   DbCall("insert", <<"write">>)}

GitRequests ==
  Of("git", {"reset", "push"}, "main", BOOLEAN)
    \cup Of("git", {"status", "add", "commit", "pull", "branch_checkout"}, "main", {FALSE})
    \cup Of("git", {"branch_create"}, "topic", {TRUE})
    \cup Of("git", {"commit"}, "", {FALSE})

\* Those that NothingLostUnasked has to exempt, one way or another.
OddGitRequests ==
  Of("git", {"push", "pull", "branch_checkout", "reset"}, "forced", {FALSE})
    \cup Of("git", {"branch_checkout"}, "commit", {FALSE})
    \cup Of("git", {"branch_checkout"}, "main", {FALSE})

Lingers == Of("process", {"run_command"}, "p", {TRUE})
ProcessRequests ==
  Lingers
    \cup Of("process", {"run_command", "list_processes", "kill_process"}, "p", {FALSE})

MemoryRequests ==
  Of("memory", {"store"}, "m", BOOLEAN)
    \cup Of("memory", {"retrieve", "delete", "clear_expired"}, "m", {FALSE})
    \cup Of("memory", {"store"}, "", {FALSE})

MCRequests ==
  FsRequests \cup DbRequests \cup GitRequests \cup OddGitRequests \cup ProcessRequests
    \cup MemoryRequests

Together ==
  \E S \in {FsRequests, DbRequests, GitRequests, OddGitRequests, ProcessRequests,
            MemoryRequests, Lingers \cup Of("memory", {"store"}, "m", {FALSE})} :
    LET asked == {c \in Calls : call[c].pc # "none"}
    IN  /\ \A c \in asked : call[c].req \in S
        /\ S = GitRequests => Cardinality(asked) <= 2
        /\ S = OddGitRequests => Cardinality(asked) <= 1
        /\ S # OddGitRequests => repo.at = "main"

Waits(A) == \E c \in Calls : call[c].pc # "answered" /\ call[c].req.action \in A
Alone ==
  /\ repo' # repo => Waits(GitActions)
  /\ os'.alive # os.alive => Waits({"kill_process"})
  /\ Expire => Waits({"clear_expired"})

\* The repository is new, or has a commit on a detached HEAD that no branch has.
MCRepositories ==
  {r \in Repository :
     /\ r.worktree \cup r.index \cup r.remote = {}
     /\ \/ r.at = "main" /\ r.heads = [b \in {"main"} |-> {}]
        \/ r.at = "HEAD" /\ r.heads = [b \in {"main", "HEAD"} |-> IF b = "HEAD" THEN {1} ELSE {}]}

MCInit == repo \in MCRepositories /\ Init
MCNext == Next /\ Together' /\ Alone
MCSpec ==
  MCInit /\ [][MCNext]_vars /\ \A c \in Calls : WF_vars(Take(c)) /\ WF_vars(Work_(c))

=============================================================================

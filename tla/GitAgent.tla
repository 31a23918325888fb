------------------------------ MODULE GitAgent ------------------------------
(***************************************************************************)
(* GitAgent on one repository: each action is one run of git in a thread,  *)
(* killed after its timeout.  A repository is where each piece of work is: *)
(* in the working tree, the index, the commits of a branch, the remote.    *)
(* What an action is given goes to git as it is.  A target is the name of  *)
(* a branch, or "commit", a commit that is the tip of none, or "forced":   *)
(* what git takes for more than a name, a refspec that forces or deletes,  *)
(* an option, a path.                                                      *)
(***************************************************************************)
EXTENDS AgentCall

CONSTANTS
  Branches,   \* branch names, "main" among them
  MaxWork     \* bound: pieces of work in a behaviour

ASSUME GitAssumption ==
  /\ "main" \in Branches /\ Branches \cap {"", "HEAD", "commit", "forced"} = {}
  /\ MaxWork \in Nat

\* "HEAD" is among the heads while it is detached.  `lock` is the call whose git has
\* index.lock, `stale` an index.lock that a killed git left behind; `helpers` are
\* the calls whose killed git left a child with its pipes.
VARIABLE repo

Work == 1..MaxWork

Heads == UNION {[B -> SUBSET Work] : B \in SUBSET (Branches \cup {"HEAD"})}

Repository ==
  [worktree : SUBSET Work, index : SUBSET Work, remote : SUBSET Work, heads : Heads,
   at : Branches \cup {"HEAD"}, lock : 0..MaxCalls, stale : BOOLEAN, helpers : SUBSET Calls]

GitTypeOK ==
  /\ repo \in Repository /\ repo.at \in DOMAIN repo.heads
  /\ "HEAD" \in DOMAIN repo.heads => repo.at = "HEAD"

\* A repository as somebody left it, with no git at work in it.
GitInit == GitTypeOK /\ repo.lock = 0 /\ ~repo.stale /\ repo.helpers = {}

\* The work that a repository has, somewhere.
WorkIn(r) ==
  r.worktree \cup r.index \cup r.remote \cup UNION {r.heads[b] : b \in DOMAIN r.heads}
AllWork == WorkIn(repo)

GitReads == {"status", "log", "diff", "branch_list"}
IndexActions == {"add", "commit", "pull", "branch_checkout", "reset"}
GitActions == GitReads \cup IndexActions \cup {"push", "branch_create"}

\* Mutated: only what leaves the machine is asked for.
Mut_GitConfirms(r) == r.flag /\ r.action = "push"

\* push with force, reset with mode hard.
GitConfirms(r) == r.flag /\ r.action \in {"push", "reset"}

\* An empty message or name, an unknown mode, n < 1: target "".
ExecuteGit(c, r) ==
  /\ r.agent = "git"
  /\ IF r.target = "" THEN AnswerAtOnce(c, r, "FAILED") ELSE ToThread(c, r, "none")
  /\ UNCHANGED repo

\* git starts; without its index.lock it exits at once, and so it does where
\* there is no repository, or no git.
GitStarts(c) ==
  /\ At(c, "git", "working", GitActions)
  /\ IF call[c].req.action \in IndexActions
     THEN /\ repo.lock = 0 /\ ~repo.stale
          /\ repo' = [repo EXCEPT !.lock = c]
     ELSE UNCHANGED repo
  /\ GoOn(c, "midway")

GitExits(c) ==
  /\ At(c, "git", "working", GitActions)
  /\ Answer(c, "FAILED")
  /\ UNCHANGED repo

Tip == repo.heads[repo.at]
NewHead(w) == [repo.heads EXCEPT ![repo.at] = w]

MoreThanAName(r) == r.target = "forced"

\* What push sends: the branch of that name.
Source(r) == IF r.target \in DOMAIN repo.heads THEN repo.heads[r.target] ELSE {}

\* What git does not do.
GitRefuses(r) ==
  \/ r.action = "commit" /\ repo.index = {}
  \/ /\ r.action = "push" /\ ~MoreThanAName(r)
     /\ r.target \notin DOMAIN repo.heads \/ (~r.flag /\ ~(repo.remote \subseteq Source(r)))
  \/ r.action = "branch_create" /\ r.target \in DOMAIN repo.heads
  \/ /\ r.action = "branch_checkout" /\ ~MoreThanAName(r)
     /\ r.target \notin DOMAIN repo.heads \cup {"commit"}

\* What is left by the handlers that change something, one or more outcomes each.
Added == {[repo EXCEPT !.index = @ \cup w, !.worktree = @ \ w] : w \in SUBSET repo.worktree}

Committed == {[repo EXCEPT !.heads = NewHead(Tip \cup repo.index), !.index = {}]}

\* "+main" sends a branch whatever the remote has, ":main" deletes it there.
Pushed(r) ==
  IF MoreThanAName(r)
  THEN {[repo EXCEPT !.remote = w] : w \in {{}} \cup {repo.heads[b] : b \in DOMAIN repo.heads}}
  ELSE {[repo EXCEPT !.remote = Source(r)]}

\* A merge; "+main:topic" makes a branch what the remote has, also the current one.
Pulled(r) ==
  IF MoreThanAName(r)
  THEN {[repo EXCEPT !.heads[b] = repo.remote] : b \in DOMAIN repo.heads}
  ELSE {[repo EXCEPT !.heads = NewHead(Tip \cup repo.remote)]}

\* HEAD becomes b, that has the commits w; a detached HEAD is not kept.
Switched(b, w) ==
  [repo EXCEPT !.heads = [h \in (DOMAIN @ \ {"HEAD"}) \cup {b} |-> IF h = b THEN w ELSE @[h]],
               !.at = b]

\* `flag` is checkout.
BranchCreated(r) ==
  {IF r.flag THEN Switched(r.target, Tip)
   ELSE [repo EXCEPT !.heads = [b \in DOMAIN @ \cup {r.target} |->
                                  IF b = r.target THEN Tip ELSE @[b]]]}

\* What is not committed is taken along; but a path, or -f, makes files what the
\* index or the branch has.
CheckedOut(r) ==
  IF MoreThanAName(r)
  THEN LET Less == {[repo EXCEPT !.worktree = w] : w \in SUBSET repo.worktree}
       IN  Less \cup {[less EXCEPT !.index = {}] : less \in Less}
  ELSE IF r.target = "commit" THEN {Switched("HEAD", w) : w \in SUBSET Tip}
  ELSE {Switched(r.target, repo.heads[r.target])}

\* To a commit of the branch; a soft reset keeps in the index what the branch had.  Of two modes
\* git takes the last, which is the one in the target.
WasReset(r) ==
  {IF r.flag \/ MoreThanAName(r)
   THEN [repo EXCEPT !.heads = NewHead(w), !.index = {}, !.worktree = {}]
   ELSE [repo EXCEPT !.heads = NewHead(w), !.index = @ \cup (Tip \ w)] : w \in SUBSET Tip}

GitEffects(r) ==
  CASE r.action = "add" -> Added
    [] r.action = "commit" -> Committed
    [] r.action = "push" -> Pushed(r)
    [] r.action = "pull" -> Pulled(r)
    [] r.action = "branch_create" -> BranchCreated(r)
    [] r.action = "branch_checkout" -> CheckedOut(r)
    [] r.action = "reset" -> WasReset(r)
    [] OTHER -> {repo}

Unlocked(c, repository) ==
  [repository EXCEPT !.lock = IF @ = c THEN 0 ELSE @]

\* The exit code is the status: nothing done is FAILED.
GitEnds(c) ==
  /\ At(c, "git", "midway", GitActions) /\ c \notin repo.helpers
  /\ IF GitRefuses(call[c].req)
     THEN repo' = Unlocked(c, repo) /\ Answer(c, "FAILED")
     ELSE /\ \E after \in GitEffects(call[c].req) : repo' = Unlocked(c, after)
          /\ Answer(c, "SUCCESS")

\* The timeout kills git, before or after it did its work.  A child of git (ssh, a
\* credential helper, a hook) may have its pipes, which subprocess.run reads on
\* without a limit on Windows: the call goes on holding its thread.
GitTimesOut(c) ==
  /\ At(c, "git", "midway", GitActions) /\ c \notin repo.helpers
  /\ \E after \in {repo} \cup (IF GitRefuses(call[c].req) THEN {} ELSE GitEffects(call[c].req)),
        left \in {FALSE, repo.lock = c}, helped \in {{}, {c}} :
       /\ repo' = [Unlocked(c, after) EXCEPT !.stale = @ \/ left, !.helpers = @ \cup helped]
       /\ IF helped = {} THEN Answer(c, "FAILED") ELSE GoOn(c, "midway")

\* That child ends, if it ever does.
GitLetsGo(c) ==
  /\ At(c, "git", "midway", GitActions) /\ c \in repo.helpers
  /\ repo' = [repo EXCEPT !.helpers = @ \ {c}]
  /\ Answer(c, "FAILED")

GitStep(c) == GitStarts(c) \/ GitExits(c) \/ GitTimesOut(c)

----------------------------------------------------------------------------
(* Who else works there. *)

\* Somebody changes a file, or pushes to the remote.
NewWork ==
  /\ \E w \in Work \ AllWork :
       /\ \A v \in Work \ AllWork : w <= v
       /\ \/ repo' = [repo EXCEPT !.worktree = @ \cup {w}]
          \/ repo' = [repo EXCEPT !.remote = @ \cup {w}]
  /\ UNCHANGED call

\* The index.lock left behind is removed by hand: no action does.
RemoveLock ==
  /\ repo.stale
  /\ repo' = [repo EXCEPT !.stale = FALSE]
  /\ UNCHANGED call

=============================================================================

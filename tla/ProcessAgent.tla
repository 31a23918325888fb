---------------------------- MODULE ProcessAgent ----------------------------
(***************************************************************************)
(* ProcessAgent on Windows: commands and scripts run as a child of the     *)
(* thread, which waits for its end or kills it after the timeout and then  *)
(* waits for its pipes; processes are listed, and killed by their pid.     *)
(***************************************************************************)
EXTENDS AgentCall

\* `child` is the child of each call, "lingering" when it is dead and one it
\* started still holds its pipes; `alive`, whether some process has the pid that
\* is asked about: the pid of a process that ended is given to another.
VARIABLE os

ProcessTypeOK ==
  os \in [child : [Calls -> {"none", "running", "lingering", "gone"}], alive : BOOLEAN]

ProcessInit == os = [child |-> [c \in Calls |-> "none"], alive |-> TRUE]

RunActions == {"run_command", "run_script"}
ListActions == {"list_processes", "get_process_info", "kill_process"}

ProcessConfirms(r) == r.action \in RunActions \cup {"kill_process"}

\* An empty command, a script that is not there, a pid that is no integer: target "".
ExecuteProcess(c, r) ==
  /\ r.agent = "process"
  /\ IF r.target = "" THEN AnswerAtOnce(c, r, "FAILED") ELSE ToThread(c, r, "none")
  /\ UNCHANGED os

StartChild(c) ==
  /\ At(c, "process", "working", RunActions)
  /\ os' = [os EXCEPT !.child[c] = "running"]
  /\ GoOn(c, "midway")

\* No such executable, no permission; for a list, tasklist fails or takes long.
CannotStart(c) ==
  /\ At(c, "process", "working", RunActions \cup ListActions)
  /\ Answer(c, "FAILED")
  /\ UNCHANGED os

\* SUCCESS, whatever the exit code.
ChildEnds(c) ==
  /\ At(c, "process", "midway", RunActions) /\ os.child[c] = "running"
  /\ os' = [os EXCEPT !.child[c] = "gone"]
  /\ Answer(c, "SUCCESS")

\* Mutated: subprocess.run is not given the timeout.
Mut_ChildTimesOut(c) == FALSE /\ UNCHANGED <<call, os>>

\* The child is killed.  One that started others (`flag`) leaves them with its
\* pipes, and the thread reads on without a limit.
ChildTimesOut(c) ==
  /\ At(c, "process", "midway", RunActions) /\ os.child[c] = "running"
  /\ IF call[c].req.flag
     THEN os' = [os EXCEPT !.child[c] = "lingering"] /\ UNCHANGED call
     ELSE os' = [os EXCEPT !.child[c] = "gone"] /\ Answer(c, "FAILED")

LingerEnds(c) ==
  /\ os.child[c] = "lingering"
  /\ os' = [os EXCEPT !.child[c] = "gone"]
  /\ Answer(c, "FAILED")

\* tasklist ends.  kill_process goes back for a second thread with what it read.
Tasklist(c) ==
  /\ At(c, "process", "working", ListActions) /\ call[c].at = 0
  /\ IF call[c].req.action # "list_processes" /\ ~os.alive THEN Answer(c, "FAILED")
     ELSE IF call[c].req.action = "kill_process" THEN GoOn(c, "queued")
     ELSE Answer(c, "SUCCESS")
  /\ UNCHANGED os

\* os.kill ends whichever process has the pid by then.
KillPid(c) ==
  /\ At(c, "process", "working", {"kill_process"}) /\ call[c].at = 1
  /\ Answer(c, IF os.alive THEN "SUCCESS" ELSE "FAILED")
  /\ os' = [os EXCEPT !.alive = FALSE]

ProcessStep(c) ==
  StartChild(c) \/ CannotStart(c) \/ ChildTimesOut(c) \/ Tasklist(c) \/ KillPid(c)

\* A process ends, or one gets the pid.
PidChanges == os' = [os EXCEPT !.alive = ~@] /\ UNCHANGED call

=============================================================================

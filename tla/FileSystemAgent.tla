-------------------------- MODULE FileSystemAgent --------------------------
(***************************************************************************)
(* FileSystemAgent.  Checks, directories and deletions are made in the     *)
(* event loop, at once; reads and writes in a thread, after the checks.    *)
(* write_text truncates the file and then writes: another thread may see   *)
(* it empty.  An open file cannot be deleted (Windows).                    *)
(***************************************************************************)
EXTENDS AgentCall

CONSTANTS
  Paths,    \* what a path resolves to
  InRoot,   \* those below allowed_root: none, when there is no root
  Binary    \* those whose first content is not UTF-8

ASSUME PathsAssumption == InRoot \subseteq Paths /\ Binary \subseteq Paths

\* What each path is: a file with the number of the call that wrote it, 0 for
\* what was there before; "mixed", when two calls wrote it at a time, each from
\* its start.
VARIABLE files

FsTypeOK == files \in [Paths -> [kind : Kinds, by : 0..MaxCalls]]
FsInit == \E k \in {"none", "file"} : files = [p \in Paths |-> [kind |-> k, by |-> 0]]

ReadActions == {"read_file", "open_file"}
WriteActions == {"write_file", "create_file"}
FsActions ==
  ReadActions \cup WriteActions \cup {"create_directory", "list_directory", "delete_file"}

FsConfirms(r) == r.action = "delete_file"

Becomes(p, kind, c) == files' = [files EXCEPT ![p] = [kind |-> kind, by |-> c]]
Opened(p) == \E d \in Calls : At(d, "filesystem", "midway", WriteActions) /\ call[d].req.target = p

\* The checks before the thread, each with its exception.
FsRefuses(r) ==
  LET k == files[r.target].kind
  IN  \/ r.target \notin InRoot
      \/ r.action = "list_directory" /\ k # "dir"
      \/ r.action = "create_directory" /\ k # "none" /\ ~(r.flag /\ k = "dir")
      \/ r.action = "delete_file" /\ (k \in {"none", "dir"} \/ Opened(r.target))
      \/ r.action \in WriteActions /\ k = "dir"
      \/ r.action = "create_file" /\ ~r.flag /\ k # "none"

\* execute, up to the thread.
ExecuteFs(c, r) ==
  /\ r.agent = "filesystem"
  /\ IF FsRefuses(r) THEN AnswerAtOnce(c, r, "FAILED") /\ UNCHANGED files
     ELSE IF r.action \in ReadActions \cup WriteActions
     THEN ToThread(c, r, files[r.target].kind) /\ UNCHANGED files
     ELSE /\ AnswerAtOnce(c, r, "SUCCESS")
          /\ CASE r.action = "create_directory" -> Becomes(r.target, "dir", 0)
               [] r.action = "delete_file" -> Becomes(r.target, "none", 0)
               [] OTHER -> UNCHANGED files

\* read_text: bytes that are no UTF-8 raise what execute does not catch.
ReadFile(c) ==
  /\ At(c, "filesystem", "working", ReadActions)
  /\ LET f == files[call[c].req.target]
     IN  Answer(c, IF f.kind \in {"none", "dir"} THEN "FAILED"
                   ELSE IF f = [kind |-> "file", by |-> 0] /\ call[c].req.target \in Binary
                   THEN "RAISED" ELSE "SUCCESS")
  /\ UNCHANGED files

\* write_text opens the file, whoever wrote it since the checks.
TruncateFile(c) ==
  /\ At(c, "filesystem", "working", WriteActions)
  /\ IF files[call[c].req.target].kind = "dir" THEN Answer(c, "FAILED") /\ UNCHANGED files
     ELSE GoOn(c, "midway") /\ Becomes(call[c].req.target, "empty", c)

WriteFile(c) ==
  /\ At(c, "filesystem", "midway", WriteActions)
  /\ LET p == call[c].req.target
     IN  Becomes(p, IF files[p] = [kind |-> "empty", by |-> c] THEN "file" ELSE "mixed", c)
  /\ Answer(c, "SUCCESS")

\* OSError: the disk is full, the file is in use; or, with the file open, a
\* content that UTF-8 cannot encode, which execute does not catch.
WriteFails(c) ==
  /\ \/ At(c, "filesystem", "working", WriteActions) /\ Answer(c, "FAILED")
     \/ At(c, "filesystem", "midway", WriteActions) /\ \E s \in {"FAILED", "RAISED"} : Answer(c, s)
  /\ UNCHANGED files

FsStep(c) == ReadFile(c) \/ TruncateFile(c) \/ WriteFile(c) \/ WriteFails(c)

=============================================================================

----------------------------- MODULE MCRoutines -----------------------------
(* Three routines for TLC: a greeting at start up, a chain that dispatches and *)
(* then speaks, due twice, and one whose action asks for a confirmation.  They *)
(* are loaded from files, of which a fourth is skipped; a unit of time is a    *)
(* day, from Monday on.                                                        *)
EXTENDS Routines

Files == INSTANCE RoutineFile

File(keys, days) ==
  [content |-> "text", id |-> TRUE, rest |-> TRUE, keys |-> keys, cron |-> Files!NoCron,
   schedule |-> [odd |-> FALSE, hour |-> 8, minute |-> 0, days |-> days]]

MCFiles ==
  << File({"on_startup"}, {}), File({"schedule"}, {1, 2}), File({"schedule"}, {2}),
     File({"schedule", "on_startup"}, {3}) >>

ASSUME ThreeLoaded == Files!Loaded(MCFiles) = 1..3

MCOnStartup == [r \in 1..3 |-> MCFiles[r].keys = {"on_startup"}]
MCDue ==
  [r \in 1..3 |->
    {t \in 1..5 : Files!DueAt(MCFiles[r], [minute |-> 0, hour |-> 8, day |-> t - 1])}]
MCSteps == << <<"speak">>, <<"agent", "speak">>, <<"guarded">> >>
=============================================================================

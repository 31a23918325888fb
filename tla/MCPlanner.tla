----------------------------- MODULE MCPlanner -----------------------------
(* A small AgentManager for TLC: the native git agent, which asks before a   *)
(* push, a plugin that took the same name, and a plugin of another name.     *)
EXTENDS PlannerLedger, TLC

CONSTANTS git, gitPlugin, notes

MCNatives == {git}
MCPluginAgents == {gitPlugin, notes}
MCNames == {"git", "notes"}
MCAgentName == [a \in Agents |-> IF a = notes THEN "notes" ELSE "git"]
MCActions == {"status", "push"}
MCCapabilities ==
  [a \in Agents |-> CASE a = git -> {"status", "push"}
                     [] a = gitPlugin -> {"push"}
                     [] a = notes -> {"status"}]
MCAsks == {<<git, "push">>}
MCSteps == {[agent |-> "git", action |-> "push"], [agent |-> "git", action |-> "status"]}
MCStepsAll == MCSteps \cup {[agent |-> "notes", action |-> "status"]}
MCStepsPush == {[agent |-> "git", action |-> "push"]}
MCPluginSameName == {gitPlugin}

Symmetric == Permutations(Requests)
============================================================================

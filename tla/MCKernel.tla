------------------------------ MODULE MCKernel ------------------------------
(* Four plugins for TLC: a base and one that requires it and a package, a     *)
(* second base with the same name, and one with a hook that cannot be         *)
(* connected; the second one gives its agent another name.                    *)
EXTENDS Kernel

MCEvents == {"KERNEL_READY", "KERNEL_STARTING", "KERNEL_SHUTDOWN",
             "PLUGIN_LOADED", "PLUGIN_UNLOADED"}
MCName == <<"base", "calendar", "base", "music">>
MCAgentName == <<"base", "agenda", "base", "music">>
MCRequires == <<{}, {"base", "httpx"}, {}, {}>>
MCHooks == << <<"KERNEL_STARTING", "PLUGIN_UNLOADED">>, <<"MEMORY_DELETED", "PLUGIN_LOADED">>,
              <<"KERNEL_STARTING">>, <<"KERNEL_SHUTDOWN", "PLUGIN_LOADED">> >>
MCFault == <<"none", "none", "none", "half hooks">>

MCReadyHooks == << <<"KERNEL_READY">>, <<>>, <<>>, <<>> >>
MCOnePlugin == <<"none", "no manifest", "no class", "not UTF-8">>
=============================================================================

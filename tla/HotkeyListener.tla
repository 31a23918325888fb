--------------------------- MODULE HotkeyListener ---------------------------
(***************************************************************************)
(* HotkeyListener: a thread that registers a global hotkey and pumps its   *)
(* window's messages, and the two calls by which it is started and         *)
(* stopped.  on_press runs in this thread, so that no message is handled   *)
(* before it returns.  Its steps are used by VoicePipeline.                *)
(***************************************************************************)
EXTENDS Naturals, Sequences

CONSTANTS
  Combo,       \* the tokens of the combination, in lower case; <<>> for none
  Modifiers,   \* the names of _MODIFIER_NAMES
  Keys         \* single letters and digits

\* parse_hotkey_combo raises for any other: the pipeline would not be built.
Parses(combo) ==
  /\ Len(combo) >= 2
  /\ \A i \in 1..(Len(combo) - 1) : combo[i] \in Modifiers
  /\ combo[Len(combo)] \in Keys

ASSUME ComboAssumption == Combo = <<>> \/ Parses(Combo)

\* pc is where the thread is; `ready`, `error` and `hwnd` are what it tells;
\* `close` is a WM_CLOSE in its queue.  In "seen" on_press has found the
\* pipeline idle, and has not told it yet.
VARIABLE hotkey

HotkeyTypeOK ==
  hotkey \in [pc : {"none", "registering", "pumping", "pressed", "seen", "ended"},
              ready : BOOLEAN, error : BOOLEAN, hwnd : BOOLEAN, close : BOOLEAN]

HotkeyInit ==
  hotkey = [pc |-> "none", ready |-> FALSE, error |-> FALSE, hwnd |-> FALSE, close |-> FALSE]

\* start, up to the wait for _ready.
StartThread ==
  /\ hotkey.pc = "none"
  /\ hotkey' = [hotkey EXCEPT !.pc = "registering"]

\* Mutated: ready is set when the thread begins, before the hotkey is taken.
Mut_Registers ==
  /\ hotkey.pc = "registering"
  /\ hotkey' = IF hotkey.ready THEN [hotkey EXCEPT !.pc = "pumping", !.hwnd = TRUE]
               ELSE [hotkey EXCEPT !.ready = TRUE]

\* RegisterClass, CreateWindow and RegisterHotKey worked.
Registers ==
  /\ hotkey.pc = "registering"
  /\ hotkey' = [hotkey EXCEPT !.pc = "pumping", !.hwnd = TRUE, !.ready = TRUE]

\* One of them did not: the window, if there was one, is destroyed, and the
\* error is kept for start.
RegistrationFails ==
  /\ hotkey.pc = "registering"
  /\ hotkey' = [hotkey EXCEPT !.pc = "ended", !.error = TRUE, !.ready = TRUE]

\* start returns, or raises: the error of the thread, or after five seconds.
StartReturns == hotkey.ready /\ ~hotkey.error
StartRaises == (hotkey.ready /\ hotkey.error) \/ (~hotkey.ready /\ hotkey.pc = "registering")

\* WM_HOTKEY is dispatched: on_press begins.
WmHotkey ==
  /\ hotkey.pc = "pumping"
  /\ hotkey' = [hotkey EXCEPT !.pc = "pressed"]

PressReturns == hotkey' = [hotkey EXCEPT !.pc = "pumping"]

\* stop, up to the join: WM_CLOSE is posted to the window, if there is one.
PostClose == hotkey' = [hotkey EXCEPT !.close = hotkey.hwnd]

\* WM_CLOSE, WM_DESTROY and WM_QUIT: the pump ends, the hotkey is given back.
Closes ==
  /\ hotkey.pc = "pumping" /\ hotkey.close
  /\ hotkey' = [hotkey EXCEPT !.pc = "ended"]

=============================================================================

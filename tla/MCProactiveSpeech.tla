------------------------- MODULE MCProactiveSpeech -------------------------
(* One routine that dispatches and then speaks twice, published and spoken;   *)
(* an entry is trimmed as soon as there is a later one.                       *)
EXTENDS ProactiveSpeech

MCOnStartup == <<FALSE>>
MCDue == << {2} >>
MCSteps == << <<"agent", "speak", "speak">> >>
============================================================================

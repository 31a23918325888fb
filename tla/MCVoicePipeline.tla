-------------------------- MODULE MCVoicePipeline --------------------------
(* The default combination of the settings, recordings of up to four frames. *)
EXTENDS VoicePipeline

MCCombo == <<"ctrl", "alt", "shift", "v">>
=============================================================================

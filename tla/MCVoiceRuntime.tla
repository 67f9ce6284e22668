---- MODULE MCVoiceRuntime ----
(* Instances of VoiceRuntime for TLC: one stream, two texts, three disturb- *)
(* ances.                                                                    *)
EXTENDS VoiceRuntime
====

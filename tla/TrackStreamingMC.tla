--------------------------- MODULE TrackStreamingMC ---------------------------
(* TLC instance of TrackStreaming.                                          *)
EXTENDS TrackStreaming

\* The answer is only looked at by action properties.
View == <<vars, stream>>
================================================================================

-------------------------- MODULE MCAisMonitoring --------------------------
(* Instances of AisMonitoring for TLC, with the reader's sentences.          *)
EXTENDS AisMonitoring, MCAisMessageReader
=============================================================================

---------------------------- MODULE MCSseSender ----------------------------
(* The SSE sender for TLC.                                                   *)
EXTENDS SseSender
=============================================================================

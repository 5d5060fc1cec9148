--------------------------- MODULE MCSseTransport ---------------------------
(* Instances of SseTransport for TLC take their values from the .cfg files. *)
EXTENDS SseTransport
=============================================================================

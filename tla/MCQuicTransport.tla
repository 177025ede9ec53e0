--------------------------- MODULE MCQuicTransport ---------------------------
(* Two callers, and enough connections for one that is dead but in use,   *)
(* the current one and one more.                                           *)
EXTENDS QuicTransport
=============================================================================

--------------------------- MODULE MCStatusPusher ---------------------------
(* StatusPusher with two stores, the delays in the order they have.        *)
EXTENDS StatusPusher
=============================================================================

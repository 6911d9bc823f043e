------------------------- MODULE MCDeliveryOutbox -------------------------
(* Small instances of DeliveryOutbox for TLC. *)
EXTENDS DeliveryOutbox
=============================================================================

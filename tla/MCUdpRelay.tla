----------------------------- MODULE MCUdpRelay -----------------------------
(* The relay on a few slots, for TLC.                                      *)
EXTENDS UdpRelay

MCReq == {"receive", "send"} \X Slot

=============================================================================

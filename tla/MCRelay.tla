------------------------------- MODULE MCRelay -------------------------------
(* Relay with a reply code of each class, in and out of the sendable range. *)
EXTENDS Relay

MCCodes == {Garbled, 250, 354, 450, 550, 999}
=============================================================================

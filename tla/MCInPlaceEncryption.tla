------------------------ MODULE MCInPlaceEncryption -------------------------
(* Values of Modes for TLC. *)
EXTENDS InPlaceEncryption

BothModes == {"detached", "inline"}

DetachedOnly == {"detached"}
=============================================================================

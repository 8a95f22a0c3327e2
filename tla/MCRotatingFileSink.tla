------------------------- MODULE MCRotatingFileSink -------------------------
(***************************************************************************)
(* Instances of RotatingFileSink for TLC: a limit that two short records   *)
(* fill and one long record passes by itself.                              *)
(***************************************************************************)
EXTENDS RotatingFileSink

AllModes == {"never", "file_size_exceeds", "new_day_begins", "size_or_day"}
MCSizes == {1, 3}
=============================================================================

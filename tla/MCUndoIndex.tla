---------------------------- MODULE MCUndoIndex ----------------------------
(* Small instances of UndoIndex for TLC.                                   *)
EXTENDS UndoIndex

=============================================================================

--------------------------- MODULE MCFileTransfer ---------------------------
(* A receiver that records its video and the sender it works with. *)
EXTENDS FileTransfer
CONSTANTS recv, send

Both    == {recv, send}
OneFile == {recv}
=============================================================================

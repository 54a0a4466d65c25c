------------------------------- MODULE MCCopyIn -------------------------------
(* A window of three frames and four bytes, chunks of nought to three bytes:   *)
(* frames and bytes run out separately.                                        *)
EXTENDS CopyIn
=============================================================================

-------------------------- MODULE MCThumbnailSlots --------------------------
(* ThumbnailSlots with the code's limit of two.                            *)
EXTENDS ThumbnailSlots
=============================================================================

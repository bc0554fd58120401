---------------------------- MODULE MCGuestFiles ----------------------------
(* Small instances of GuestFiles for TLC. *)
EXTENDS GuestFiles

CONSTANTS save, asset, byte

MCBundled == [name \in {save, asset} |-> IF name = asset THEN <<byte>> ELSE Missing]

=============================================================================

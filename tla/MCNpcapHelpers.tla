--------------------------- MODULE MCNpcapHelpers ---------------------------
(***************************************************************************)
(* One UUID of a legacy Npcap beside the modern one that has none.         *)
(***************************************************************************)
EXTENDS NpcapHelpers
=============================================================================

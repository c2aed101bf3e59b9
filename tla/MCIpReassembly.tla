--------------------------- MODULE MCIpReassembly ---------------------------
(***************************************************************************)
(* Three packets of two fragments each, room for two of them, and a clock  *)
(* that runs long enough for two packets to grow old together.             *)
(***************************************************************************)
EXTENDS IpReassembly
=============================================================================

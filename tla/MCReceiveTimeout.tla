-------------------------- MODULE MCReceiveTimeout --------------------------
(***************************************************************************)
(* Small instances of ReceiveTimeout, with an unsigned long of two bits.   *)
(***************************************************************************)
EXTENDS ReceiveTimeout, MCUdpcapSocket

\* Two milliseconds are the longest wait two bits can express.
ShortTimeouts == {-1, 0, 1, 2}
LongTimeout == {5}
=============================================================================

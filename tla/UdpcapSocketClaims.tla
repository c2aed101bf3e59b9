------------------------- MODULE UdpcapSocketClaims -------------------------
(***************************************************************************)
(* Statements of the repository's own documentation that the code does not *)
(* keep.  Each is checked by a run of its own, which ends in a behaviour   *)
(* of the code that contradicts it.                                        *)
(***************************************************************************)
EXTENDS UdpcapSocketProperties

\* README.md:20 "Handle fragmented IPv4 traffic": a fragment does not end the
\* process.
FragmentsAreHandled == ~aborted

\* udpcap_socket.h:101 "When bound successfully, the Socket is ready to receive
\* data": an unfragmented datagram for the bound port that the receiver takes from
\* Npcap is handed to the application.
DatagramsReachTheApplication ==
  [][ReceiverStep =>
       \A h \in Handles :
         /\ queue'[h] # queue[h]
         /\ IsForBoundPort(Head(queue[h])) /\ ~Head(queue[h]).fragment
         => error'.code = "OK" /\ datagram' = Head(queue[h])]_vars

\* udpcap_socket.h:101-103 "If the address is HostAddress::Any(), any traffic for
\* the given port will be received": the filters let through every datagram for
\* the port that other machines send, groups not joined apart.
AnyTrafficIsCaptured ==
  Settled /\ bound_address_ = Any =>
    \A h \in Listed : \A p \in Traffic[device[h]] :
      p.dport = bound_port_ /\ ~isMulticast(p.dst) /\ p.from # Mac[device[h]]
        => Captures(filter[h], p)
=============================================================================

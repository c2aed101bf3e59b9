-------------------------- MODULE UdpSocketPromise --------------------------
(***************************************************************************)
(* What udpcap_socket.h promises the user of a socket, without devices     *)
(* lists, mutexes, events or polling.                                      *)
(*                                                                         *)
(* The socket is unbound, bound or closed.  Each source it captures from   *)
(* has an inbox.  At most one receive is pending, and its outcome is fixed *)
(* by the phase the socket is in at the moment it ends: a datagram, taken  *)
(* from the head of an inbox and sent to the bound port, comes out of a    *)
(* bound socket only, and so does each error code only of the phase it     *)
(* speaks of.  TIMEOUT may end a call although an inbox holds a datagram,  *)
(* as one can come in after the inboxes were looked at; how much time has  *)
(* passed by then is the subject of ReceiveTimeout.                        *)
(***************************************************************************)
EXTENDS Sequences

CONSTANTS Sources, Datagrams, Ports, NoDatagram

VARIABLES
  valid,     \* Npcap was initialized when the socket was created
  phase,     \* "unbound", "bound" or "closed"
  port,      \* the port a bound socket receives from
  inbox,     \* [Sources -> Seq(Datagrams)]
  pending,   \* "none", or how long the pending receive may take
  code,      \* how the last receive ended
  datagram   \* what it delivered

vars == <<valid, phase, port, inbox, pending, code, datagram>>

Init ==
  /\ valid \in BOOLEAN
  /\ phase = "unbound"
  /\ port = 0
  /\ inbox = [s \in Sources |-> <<>>]
  /\ pending = "none"
  /\ code = "OK"
  /\ datagram = NoDatagram

\* No receive may be pending while a socket is bound.
Bind(p) ==
  /\ valid /\ phase # "bound" /\ pending = "none"
  /\ phase' = "bound"
  /\ port' = p
  /\ UNCHANGED <<valid, inbox, pending, code, datagram>>

Close ==
  /\ phase' = "closed"
  /\ UNCHANGED <<valid, port, inbox, pending, code, datagram>>

ForgetPort ==
  /\ phase = "closed"
  /\ port' = 0
  /\ UNCHANGED <<valid, phase, inbox, pending, code, datagram>>

Capture(s, d) ==
  /\ inbox' = [inbox EXCEPT ![s] = Append(@, d)]
  /\ UNCHANGED <<valid, phase, port, pending, code, datagram>>

\* A new filter, or the end of a source, throws away what it had captured.
Discard(s) ==
  /\ inbox' = [inbox EXCEPT ![s] = <<>>]
  /\ UNCHANGED <<valid, phase, port, pending, code, datagram>>

\* A pending receive on a bound socket passes over a packet that is none of its.
Skip(s) ==
  /\ phase = "bound" /\ pending # "none"
  /\ inbox[s] # <<>>
  /\ inbox' = [inbox EXCEPT ![s] = Tail(@)]
  /\ UNCHANGED <<valid, phase, port, pending, code, datagram>>

Receive(timeout) ==
  /\ valid /\ pending = "none"
  /\ pending' = timeout
  /\ datagram' = NoDatagram
  /\ UNCHANGED <<valid, phase, port, inbox, code>>

ReceiveOnInvalid ==
  /\ ~valid
  /\ code' = "NPCAP_NOT_INITIALIZED"
  /\ datagram' = NoDatagram
  /\ UNCHANGED <<valid, phase, port, inbox, pending>>

ReturnDatagram(s) ==
  /\ phase = "bound" /\ pending # "none"
  /\ inbox[s] # <<>>
  /\ Head(inbox[s]).dport = port
  /\ datagram' = Head(inbox[s])
  /\ inbox' = [inbox EXCEPT ![s] = Tail(@)]
  /\ code' = "OK"
  /\ pending' = "none"
  /\ UNCHANGED <<valid, phase, port>>

MayEndWith(c) ==
  \/ c = "SOCKET_CLOSED" /\ phase = "closed"
  \/ c = "NOT_BOUND" /\ phase = "unbound"
  \/ c = "TIMEOUT" /\ phase # "unbound" /\ pending # "forever"
  \/ c = "GENERIC_ERROR" /\ phase = "bound"

ReturnError(c) ==
  /\ pending # "none"
  /\ MayEndWith(c)
  /\ code' = c
  /\ pending' = "none"
  /\ UNCHANGED <<valid, phase, port, inbox, datagram>>

Next ==
  \/ \E p \in Ports : Bind(p)
  \/ Close \/ ForgetPort
  \/ \E s \in Sources : Discard(s) \/ Skip(s) \/ ReturnDatagram(s)
  \/ \E s \in Sources, d \in Datagrams : Capture(s, d)
  \/ \E timeout \in {"forever", "zero", "finite"} : Receive(timeout)
  \/ ReceiveOnInvalid
  \/ \E c \in {"SOCKET_CLOSED", "NOT_BOUND", "TIMEOUT", "GENERIC_ERROR"} : ReturnError(c)

Spec == Init /\ [][Next]_vars
=============================================================================

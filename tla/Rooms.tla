------------------------------- MODULE Rooms --------------------------------
(***************************************************************************)
(* What the session registry promises the forwarder, without its maps: a   *)
(* client is in one room or none, a room has at most two clients, a client *)
(* in a room may bind one UDP address of its own host, and a datagram goes *)
(* to the address bound by the other client of the sender's room.          *)
(***************************************************************************)

CONSTANTS SessionIds, Tcp, Udp, IpOf, None

VARIABLES
  room,  \* [Tcp -> SessionIds \cup {None}]
  port   \* [Tcp -> Udp \cup {None}]

vars == <<room, port>>

Init ==
  /\ room = [t \in Tcp |-> None]
  /\ port = [t \in Tcp |-> None]

Join(t, id) ==
  /\ room[t] = None
  /\ \A p, q \in Tcp : room[p] = id /\ room[q] = id => p = q
  /\ room' = [room EXCEPT ![t] = id]
  /\ UNCHANGED port

Bind(t, u) ==
  /\ room[t] # None
  /\ port[t] = None
  /\ IpOf[t] = IpOf[u]
  /\ \A p \in Tcp : port[p] # u
  /\ port' = [port EXCEPT ![t] = u]
  /\ UNCHANGED room

Leave(t) ==
  /\ room[t] # None
  /\ room' = [room EXCEPT ![t] = None]
  /\ port' = [port EXCEPT ![t] = None]

Next ==
  \/ \E t \in Tcp, id \in SessionIds : Join(t, id)
  \/ \E t \in Tcp, u \in Udp : Bind(t, u)
  \/ \E t \in Tcp : Leave(t)

Spec == Init /\ [][Next]_vars

\* Where a datagram from u goes: nowhere, or to one address.
Routes(u) ==
  {port[q] : q \in {q \in Tcp :
     /\ port[q] # None
     /\ \E p \in Tcp : p # q /\ port[p] = u /\ room[p] = room[q]}}

=============================================================================

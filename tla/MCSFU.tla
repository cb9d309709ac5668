------------------------------- MODULE MCSFU --------------------------------
(* Instances of SFU for TLC: clients t1, t2, t3 with sockets u1, u2, u3. *)
EXTENDS SFU, TLC

CONSTANTS t1, t2, t3, u1, u2, u3, s1, s2

Sockets == [t \in Tcp |-> IF t = t1 THEN u1 ELSE IF t = t2 THEN u2 ELSE u3]

\* Every client on a host of its own, named by its TCP address.
HostPerClient ==
  [a \in {t1, t2, t3, u1, u2, u3} |->
     IF a \in {t1, u1} THEN t1 ELSE IF a \in {t2, u2} THEN t2 ELSE t3]

\* All clients behind one address: one machine, or one NAT.
SharedHost == [a \in {t1, t2, t3, u1, u2, u3} |-> "h1"]

\* As client.rs: one JOIN, and the LEAVE after the end reaches nobody.
OneCommand == [t \in Tcp |-> 1]

\* JOIN, LEAVE and another JOIN on one connection, one JOIN on the others.
OneRejoins == [t \in Tcp |-> IF t = t1 THEN 3 ELSE 1]

\* Clients are interchangeable, each with its socket and host; so are the
\* session ids.  Sound for HostPerClient and for SharedHost, without liveness.
Symmetry ==
  {[a \in Tcp \cup Udp |-> IF a \in Tcp THEN p[a] ELSE SocketOf[p[Owner(a)]]]
     @@ q : p \in Permutations(Tcp), q \in Permutations(SessionIds)}

\* Only the session ids, where the connections do not do the same.
SessionSymmetry == Permutations(SessionIds)

=============================================================================

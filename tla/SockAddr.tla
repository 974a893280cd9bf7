------------------------------ MODULE SockAddr ------------------------------
(***************************************************************************)
(* The conversion between socket addresses and the structures the system   *)
(* calls take (raw/mod.rs).  addr_to_sockaddr computes integers whose      *)
(* bytes, in the order the host stores them, must be the address in        *)
(* network order; sockaddr_to_addr reads such integers back.               *)
(*                                                                         *)
(* Nothing depends on a byte having 256 values, so a byte is a digit of a  *)
(* small base: an address then has few enough values to try all.           *)
(***************************************************************************)
EXTENDS Naturals, Sequences

CONSTANTS Base,        \* the values of a byte are 0..Base-1; 256 in the code
          Addrs        \* the addresses that are converted

BaseAssumption == Base \in Nat \ {0, 1}

VARIABLES bigEndian, \* whether the host stores the high byte first
          addr,      \* ip::SocketAddr: family, parts and port
          storage,   \* sockaddr_storage: family, address words and port
          back       \* what sockaddr_to_addr makes of it, or none

vars == <<bigEndian, addr, storage, back>>

\* IpAddr has four bytes or eight 16-bit segments.
Families == {"AF_INET", "AF_INET6"}
NoAddr == [family |-> "none", ip |-> <<>>, port |-> 0]

(* What byte i of an integer counts, from the low end. *)
Weight(i) == CASE i = 0 -> 1
               [] i = 1 -> Base
               [] i = 2 -> Base * Base
               [] i = 3 -> Base * Base * Base

(* Byte i of w. *)
Byte(w, i) == (w \div Weight(i)) % Base

\* to_be and from_be of an integer of n bytes.
ToBe(w, n) ==
  IF bigEndian THEN w
  ELSE CASE n = 2 -> Byte(w, 0) * Base + Byte(w, 1)
         [] n = 4 -> ((Byte(w, 0) * Base + Byte(w, 1)) * Base + Byte(w, 2)) * Base + Byte(w, 3)

(* How an integer of n bytes lies in memory. *)
Memory(w, n) == [i \in 1..n |-> IF bigEndian THEN Byte(w, n - i) ELSE Byte(w, i - 1)]

\* htons and ntohs.
HtoNs(u) == ToBe(u, 2)

\* Mutant: the words of the address are left as they are.
AddrToSockaddrHost ==
  /\ storage = NoAddr
  /\ storage' = [family |-> addr.family, port |-> HtoNs(addr.port),
                 ip |-> IF addr.family = "AF_INET"
                        THEN <<addr.ip[1] * Weight(3) + addr.ip[2] * Weight(2)
                                 + addr.ip[3] * Weight(1) + addr.ip[4]>>
                        ELSE addr.ip]
  /\ UNCHANGED <<bigEndian, addr, back>>

AddrToSockaddr ==
  /\ storage = NoAddr
  /\ storage' = [family |-> addr.family, port |-> HtoNs(addr.port),
                 ip |-> IF addr.family = "AF_INET"
                        THEN <<ToBe(addr.ip[1] * Weight(3) + addr.ip[2] * Weight(2)
                                      + addr.ip[3] * Weight(1) + addr.ip[4], 4)>>
                        ELSE [i \in 1..8 |-> HtoNs(addr.ip[i])]]
  /\ UNCHANGED <<bigEndian, addr, back>>

\* Mutant: the bytes are taken from the low end.
SockaddrToAddrReversed ==
  /\ storage # NoAddr /\ back = NoAddr
  /\ back' = [family |-> storage.family, port |-> HtoNs(storage.port),
              ip |-> IF storage.family = "AF_INET"
                     THEN LET ip == ToBe(storage.ip[1], 4) IN [i \in 1..4 |-> Byte(ip, i - 1)]
                     ELSE [i \in 1..8 |-> HtoNs(storage.ip[i])]]
  /\ UNCHANGED <<bigEndian, addr, storage>>

SockaddrToAddr ==
  /\ storage # NoAddr /\ back = NoAddr
  /\ back' = [family |-> storage.family, port |-> HtoNs(storage.port),
              ip |-> IF storage.family = "AF_INET"
                     THEN LET ip == ToBe(storage.ip[1], 4) IN [i \in 1..4 |-> Byte(ip, 4 - i)]
                     ELSE [i \in 1..8 |-> HtoNs(storage.ip[i])]]
  /\ UNCHANGED <<bigEndian, addr, storage>>

Init == bigEndian \in BOOLEAN /\ addr \in Addrs /\ storage = NoAddr /\ back = NoAddr

Over == back # NoAddr /\ UNCHANGED vars

Next == AddrToSockaddr \/ SockaddrToAddr \/ Over

Spec == Init /\ [][Next]_vars

-----------------------------------------------------------------------------
(* Properties *)

\* An address survives the way through addr_to_sockaddr and sockaddr_to_addr.
RoundTrip == back # NoAddr => back = addr

\* The two bytes of w in network order.
HighFirst(w) == [i \in 1..2 |-> Byte(w, 2 - i)]

\* The peer sees the address the caller meant: on either kind of host the bytes
\* that addr_to_sockaddr leaves in memory are the port and the address in
\* network order, high byte first.
NetworkOrder ==
  storage # NoAddr =>
    /\ Memory(storage.port, 2) = HighFirst(addr.port)
    /\ IF addr.family = "AF_INET"
       THEN Memory(storage.ip[1], 4) = addr.ip
       ELSE \A i \in 1..8 : Memory(storage.ip[i], 2) = HighFirst(addr.ip[i])
=============================================================================

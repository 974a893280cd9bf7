------------------------------ MODULE MCUvNet -------------------------------
(***************************************************************************)
(* Sockets of librustuv, for TLC: writing, UDP, accepting, connecting, and *)
(* the addresses they are given. Each is a small model of its own, and no  *)
(* step of one depends on another, so one run takes them in turn: `part'   *)
(* names the one a behaviour is about, the others stay as they are.        *)
(***************************************************************************)
EXTENDS Naturals, Sequences

CONSTANTS
  Writers,           \* the clones of a stream that is written to
  Receivers,         \* the clones of a UDP socket
  Acceptors,         \* the clones of an acceptor
  Conns,             \* calls of connect
  None,              \* no handle and no call: the event loop, or nobody
  MaxDatagrams,      \* bound: datagrams that arrive
  MaxArrivals,       \* bound: connections that arrive
  Base,              \* the values of a byte
  Segments, Ports    \* the values of a segment of an IPv6 address and of a port

\* SockAddr: every IPv4 address, and the IPv6 addresses of these segments.
Addrs ==
  [family : {"AF_INET"}, ip : [1..4 -> 0..(Base - 1)], port : Ports]
  \cup [family : {"AF_INET6"}, ip : [1..8 -> Segments], port : Ports]

VARIABLES
  part,    \* the part a behaviour is about
  \* UvWrite
  w_cur, w_pc, w_held, w_queue, w_req, w_allocs, w_sending, w_shut, w_shutter,
  w_order, w_failed,
  \* UvUdp
  u_patient, u_cur, u_op, u_stage, u_held, u_queue, u_state, u_timer, u_data, u_buf,
  u_active, u_socket, u_arrived, u_got, u_sends, u_failed,
  \* UvAccept
  a_patient, a_cur, a_pc, a_state, a_timer, a_held, a_queue, a_closed, a_blocked,
  a_pending, a_arrived, a_taken, a_result, a_failed,
  \* UvConnect
  c_pc, c_req, c_data, c_task, c_timer, c_status, c_obj, c_cur, c_cb, c_bad,
  \* SockAddr
  n_bigEndian, n_addr, n_storage, n_back

Write == INSTANCE UvWrite WITH
  Handles <- Writers, Loop <- None, cur <- w_cur, pc <- w_pc, held <- w_held,
  queue <- w_queue, req <- w_req, allocs <- w_allocs, sending <- w_sending,
  shut <- w_shut, shutter <- w_shutter, order <- w_order, failed <- w_failed

Udp == INSTANCE UvUdp WITH
  Handles <- Receivers, Loop <- None, patient <- u_patient, cur <- u_cur, op <- u_op,
  stage <- u_stage, held <- u_held, queue <- u_queue, state <- u_state,
  timer <- u_timer, data <- u_data, buf <- u_buf, active <- u_active,
  socket <- u_socket, arrived <- u_arrived, got <- u_got, sends <- u_sends,
  failed <- u_failed

Accept == INSTANCE UvAccept WITH
  Handles <- Acceptors, patient <- a_patient, cur <- a_cur, pc <- a_pc,
  state <- a_state, timer <- a_timer, held <- a_held, queue <- a_queue,
  closed <- a_closed, blocked <- a_blocked, pending <- a_pending,
  arrived <- a_arrived, taken <- a_taken, result <- a_result, failed <- a_failed

Connect == INSTANCE UvConnect WITH
  CloseStatus <- {"ECANCELED"},
  pc <- c_pc, req <- c_req, data <- c_data,
  task <- c_task, timer <- c_timer, status <- c_status, obj <- c_obj,
  cur <- c_cur, cb <- c_cb, bad <- c_bad

Win == INSTANCE UvConnect WITH
  CloseStatus <- {"ECANCELED", "other"},
  pc <- c_pc, req <- c_req, data <- c_data,
  task <- c_task, timer <- c_timer, status <- c_status, obj <- c_obj,
  cur <- c_cur, cb <- c_cb, bad <- c_bad

Addr == INSTANCE SockAddr WITH
  bigEndian <- n_bigEndian, addr <- n_addr,
  storage <- n_storage, back <- n_back

writeVars == <<w_cur, w_pc, w_held, w_queue, w_req, w_allocs, w_sending, w_shut,
               w_shutter, w_order, w_failed>>
udpVars == <<u_patient, u_cur, u_op, u_stage, u_held, u_queue, u_state, u_timer, u_data,
             u_buf, u_active, u_socket, u_arrived, u_got, u_sends, u_failed>>
acceptVars == <<a_patient, a_cur, a_pc, a_state, a_timer, a_held, a_queue, a_closed,
                a_blocked, a_pending, a_arrived, a_taken, a_result, a_failed>>
connectVars == <<c_pc, c_req, c_data, c_task, c_timer, c_status, c_obj, c_cur,
                 c_cb, c_bad>>
addrVars == <<n_bigEndian, n_addr, n_storage, n_back>>

vars == <<part, writeVars, udpVars, acceptVars, connectVars, addrVars>>

Parts == {"UvWrite", "UvUdp", "UvAccept", "UvConnect", "UvConnect win", "SockAddr"}

ASSUME UvNetAssumptions ==
  /\ Write!HandlesAssumption
  /\ Udp!UdpAssumption
  /\ Accept!AcceptAssumption
  /\ Connect!ConnectAssumption /\ Win!ConnectAssumption
  /\ Addr!BaseAssumption
  /\ Segments \subseteq 0..(Base * Base - 1) /\ Ports \subseteq 0..(Base * Base - 1)

Init ==
  /\ part \in Parts
  /\ Write!Init /\ Udp!Init /\ Accept!Init /\ Connect!Init /\ Addr!Init
  /\ part # "UvUdp" => u_patient
  /\ part # "UvAccept" => a_patient
  /\ part # "SockAddr" => n_addr = (CHOOSE a \in Addrs : TRUE) /\ ~n_bigEndian

Next ==
  \/ /\ part = "UvWrite" /\ Write!Next
     /\ UNCHANGED <<part, udpVars, acceptVars, connectVars, addrVars>>
  \/ /\ part = "UvUdp" /\ Udp!Next
     /\ UNCHANGED <<part, writeVars, acceptVars, connectVars, addrVars>>
  \/ /\ part = "UvAccept" /\ Accept!Next
     /\ UNCHANGED <<part, writeVars, udpVars, connectVars, addrVars>>
  \/ /\ part = "UvConnect" /\ Connect!Next
     /\ UNCHANGED <<part, writeVars, udpVars, acceptVars, addrVars>>
  \/ /\ part = "UvConnect win" /\ Win!Next
     /\ UNCHANGED <<part, writeVars, udpVars, acceptVars, addrVars>>
  \/ /\ part = "SockAddr" /\ Addr!Next
     /\ UNCHANGED <<part, writeVars, udpVars, acceptVars, connectVars>>

Fairness ==
  /\ Write!Fairness /\ Udp!Fairness /\ Accept!Fairness /\ Connect!Fairness

Spec == Init /\ [][Next]_vars /\ Fairness

-----------------------------------------------------------------------------
(* Properties.  Those of a part hold of its initial state too, in which it *)
(* stays while another part moves.                                         *)

\* libuv has one write of a stream at a time, although clones write at once;
\* writes go out in the order in which they were called; no write or shutdown
\* request is leaked or freed twice; and no assertion of access.rs or stream.rs
\* fails.
WritesExclusive ==
  /\ Write!TypeOK
  /\ Write!ExclusiveWriters
  /\ Write!InOrder
  /\ Write!RequestsOwned
  /\ Write!NoPanic

\* Datagrams with data are returned once and in order or are still in the socket.
\* When no timeout elapses during a wait for access (timeout.rs:92), the data of a
\* UDP handle points to the receive that waits, and to no other stack, and no
\* expect or unreachable!() is reached (udp.rs).
DatagramsKept ==
  /\ Udp!TypeOK
  /\ Udp!NoneLost
  /\ u_patient => Udp!ContextLive /\ Udp!NoPanic

\* Connections are accepted once each and in the order of their arrival. When no
\* timeout elapses during a wait for access (timeout.rs:92), no acceptor sleeps
\* while one is pending or the acceptor is closed, and no unreachable!() is
\* reached, whichever of listen_cb, timer_cb and close comes first (timeout.rs).
ConnectionsKept ==
  /\ Accept!TypeOK
  /\ Accept!InOrder
  /\ a_patient => Accept!NoIdleConnection /\ Accept!NoUnreachable

\* A connect reports what libuv told it, whichever of connect_cb and timer_cb comes
\* first. Where libuv reports ECANCELED for a closed handle, they and the task
\* never touch a context or a request that is gone; where it may report another
\* status, they do so only if the timeout of a call was zero (timeout.rs:249).
ConnectSafe ==
  /\ Connect!TypeOK
  /\ Connect!ResultTrue
  /\ part # "UvConnect win" => Connect!NoUseAfterFree
  /\ Connect!OnlyZeroDangles

\* No datagram leaves a socket without being handed to a receive, also when its
\* timeout or an empty callback comes first (udp.rs). Every write returns, and
\* every close_write once writes pause; a receive, an accept and a connect with
\* a timeout return, whatever the peer does; a send returns whatever a receive
\* on a clone waits for; closing an acceptor releases everybody who waits in
\* accept (a receive and an accept when no timeout elapses during a wait for
\* access, timeout.rs:92); and the request of every connect is freed in the end.
SocketsServe ==
  /\ Udp!NoneDropped
  /\ Write!WritesReturn
  /\ Write!CloseReturns
  /\ Udp!TimeoutReturns
  /\ Udp!SendsReturn
  /\ Accept!TimeoutReturns
  /\ Accept!CloseReleases
  /\ Connect!TimeoutReturns
  /\ Connect!RequestFreed

\* An address survives addr_to_sockaddr and sockaddr_to_addr, and the peer sees
\* the address the caller meant, on hosts of both byte orders (raw/mod.rs).
AddressesConvert ==
  /\ Addr!RoundTrip
  /\ Addr!NetworkOrder
=============================================================================

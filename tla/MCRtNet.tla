------------------------------- MODULE MCRtNet -------------------------------
(* Seven programs: one that reuses a descriptor, one whose tasks receive    *)
(* for the first time at the same time, one with more sockets than slots,   *)
(* one whose tasks share a socket, a server and a client, one that waits    *)
(* longer than an int holds, and one with a task that uses a descriptor     *)
(* that was closed while the other opens one.  Times count in units of      *)
(* which an int holds 3.                                                    *)
EXTENDS RtNet

Bind(r)          == [op |-> "bind", to |-> r]
Listen(r)        == [op |-> "listen", to |-> r]
Connect(r, ms)   == [op |-> "connect", to |-> r, ms |-> ms]
AcceptOn(r, c, ms) == [op |-> "accept", on |-> r, to |-> c, ms |-> ms]
ReadByte(r, ms)  == [op |-> "read", on |-> r, ms |-> ms]
Recv(r, ms)      == [op |-> "recv", on |-> r, ms |-> ms]
ByteAt(r, i)     == [op |-> "byte_at", on |-> r, index |-> i]
PeerPort(r)      == [op |-> "peer_port", on |-> r]
CloseFd(r)       == [op |-> "close", on |-> r]

Program(main, tasks) == [main |-> main, tasks |-> tasks]

Reusing == Program(<<Bind("a"), Recv("a", 1), ByteAt("a", 0), CloseFd("a"),
                     Recv("a", 0), ReadByte("a", 0), Bind("b"), ByteAt("b", 0), PeerPort("b"), Recv("b", 1), ByteAt("b", 1)>>, <<>>)

TwoSockets == Program(<<Bind("a"), Bind("b")>>,
                      << <<Recv("a", 1), ByteAt("a", 0)>>,
                         <<Recv("b", 2), PeerPort("b")>> >>)

ThreeSockets == Program(<<Bind("a"), Bind("b"), Bind("c"), Recv("a", 1),
                          Recv("b", 1), Recv("c", 0), Recv("a", 0), ByteAt("a", 0)>>, <<>>)

OneSocket == Program(<<Bind("a"), Recv("a", 1)>>,
                     << <<Recv("a", 1), ByteAt("a", 0)>>, <<Recv("a", 1)>> >>)

ServerAndClient == Program(<<Listen("l")>>,
                           << <<AcceptOn("l", "x", 1), ReadByte("x", 1)>>,
                              <<Connect("y", 2), CloseFd("y"), CloseFd("y")>> >>)

Patient == Program(<<Bind("a"), Recv("a", 5), Recv("a", 9), Recv("a", -1),
                     Connect("b", -1), Listen("l"), Bind("c"), AcceptOn("l", "x", 1)>>, <<>>)

Stale == Program(<<Bind("a"), Recv("a", 0), CloseFd("a")>>,
                 << <<Recv("a", 1), ByteAt("a", -1)>>, <<Connect("b", 0), Bind("c")>> >>)

MCPrograms == {Stale, Reusing, TwoSockets, ThreeSockets, OneSocket, ServerAndClient, Patient}

(* A datagram that fits the staged bytes and one that does not.            *)
MCDatagrams == <<1, 2>>
===============================================================================

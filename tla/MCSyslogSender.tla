--------------------------- MODULE MCSyslogSender ---------------------------
(* Instances of SyslogSender for TLC. *)
EXTENDS SyslogSenderInv

TcpAndUdp == {"tcp", "udp"}
=============================================================================

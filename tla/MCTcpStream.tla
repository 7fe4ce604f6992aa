---------------------------- MODULE MCTcpStream -----------------------------
(* Three messages, the second of which is longer than a read may be.       *)
EXTENDS TcpStream
ShortLongShort == <<1, 2, 1>>
=============================================================================

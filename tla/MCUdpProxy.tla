----------------------------- MODULE MCUdpProxy -----------------------------
(* Units that ask for any ports or for ports of their own choice.            *)
EXTENDS UdpProxy

CONSTANT u1

MCAsks == {AnyPort, <<1, 2>>}
=============================================================================

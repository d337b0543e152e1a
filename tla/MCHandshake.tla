---------------------------- MODULE MCHandshake ----------------------------
(* Instances of Handshake for TLC.                                         *)
EXTENDS Handshake
CONSTANTS k1, k2, ks, psk, other

Good == [psk |-> psk, priv |-> k1, pub |-> k1, peer |-> ks, ver |-> "v2", udp |-> TRUE, plain |-> TRUE]
V1 == [Good EXCEPT !.ver = "v1", !.plain = FALSE]
\* Both clients, both versions, and mistakes; a pre-shared key is wrong when
\* the server has another.
MCClientCfgs ==
  {Good, V1, [V1 EXCEPT !.plain = TRUE],
   [V1 EXCEPT !.peer = k2], [Good EXCEPT !.pub = k2], [Good EXCEPT !.priv = None]}
=============================================================================

---------------------------- MODULE MCUpstream ----------------------------
(* Two queries at a time on one upstream, over each transport in turn.     *)
EXTENDS Upstream

AllTransports == {"udp", "tcp", "doh", "doq", "recursive"}
=============================================================================

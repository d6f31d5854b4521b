------------------------------ MODULE MCNetif ------------------------------
(***************************************************************************)
(* A gateway, a far address behind it and a local peer, either of which    *)
(* may not answer; one cache entry, so that one answer displaces another.  *)
(***************************************************************************)
EXTENDS Netif

CONSTANTS gw, far, near, all

MCVia == [ip \in {far, near, all} |-> IF ip = far THEN gw ELSE ip]
MCPackets == {[dst |-> far, room |-> TRUE, held |-> TRUE],
              [dst |-> near, room |-> TRUE, held |-> FALSE],
              [dst |-> far, room |-> FALSE, held |-> FALSE],
              [dst |-> all, room |-> TRUE, held |-> FALSE]}
=============================================================================

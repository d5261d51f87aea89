---------------------------- MODULE MCGfsCluster ----------------------------
(* The file system for TLC, where files are put, deleted and read. Three   *)
(* servers do not divide the values of rr_cursor, so that a cursor which   *)
(* wrapped between the two picks of a chunk would pick one server twice.   *)
(* Addresses are interchangeable.                                          *)
EXTENDS GfsCluster, TLC

CONSTANTS MaxWritten,   \* bound: chunks that are sent to a server
          MaxBeats      \* bound: heartbeats under way at a time

Beating == {s \in ServerIds : nodes[s].hb.stage # "idle"}
Begun(w) == puts[w].write.leg # "none"

(* All servers have started before the first put, and only that one may    *)
(* have more than one chunk.                                               *)
Bounds ==
  /\ puts # <<>> => Len(nodes) = MaxServers
  /\ \A w \in DOMAIN puts \ {1} : Len(puts[w].chunks) < 2
  /\ \A w \in DOMAIN puts : Begun(w) => Chunk(w).id < MaxWritten
  /\ Cardinality(Beating) <= MaxBeats

Symmetry == Permutations(Addrs)
=============================================================================

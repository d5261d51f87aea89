----------------------------- MODULE GfsMaster -----------------------------
(***************************************************************************)
(* The master of src/gfs/src/master.rs: the namespace, the placement and   *)
(* lazy deletion of chunks, and the table of chunk servers. Every handler  *)
(* and every tick of detect_timeouts runs under the one mutex, so each is  *)
(* one action. Time is left out: any online server may turn out to have    *)
(* missed its heartbeats.                                                  *)
(***************************************************************************)
EXTENDS Integers, Sequences, SequencesExt, FiniteSets

CONSTANTS Paths,        \* the names of files
          Addrs,        \* the addresses of data planes
          NoAddr,       \* Option::None for an address
          MaxChunks,    \* bound: the chunks of one file
          WordSize      \* the number of values of rr_cursor, a usize

ASSUME AddrAssumption == NoAddr \notin Addrs
ASSUME ChunksAssumption == MaxChunks \in Nat
ASSUME WordAssumption == WordSize \in Nat /\ WordSize > 0 /\ WordSize % 2 = 0

VARIABLES files,        \* path -> the ids of its chunks, in order
          chunks,       \* chunk id -> ChunkInfo
          servers,      \* the registered servers; a ServerId is a position here
          nextChunk,    \* next_chunk_id
          cursor        \* rr_cursor

masterVars == <<files, chunks, servers, nextChunk, cursor>>

ReplicationFactor == 2

ServerIds == 1 .. Len(servers)
ChunkIds == 0 .. nextChunk - 1
Online == {s \in ServerIds : servers[s].online}

(* replicas is a vector that only loses elements: it is given by its first *)
(* value, <<primary, secondary>>, and the servers still in it.             *)
ChunkInfo == [primary : ServerIds, secondary : ServerIds,
              holders : SUBSET ServerIds, deleted : BOOLEAN]

MasterInit ==
  /\ files = <<>>
  /\ chunks = <<>>
  /\ servers = <<>>
  /\ nextChunk = 0
  /\ cursor = 0

-----------------------------------------------------------------------------
(* The element of S with k smaller ones: online_server_ids()[k].           *)
Nth(S, k) == CHOOSE s \in S : Cardinality({t \in S : t < s}) = k

(* The server picked k picks from now.                                     *)
Pick(k) == Nth(Online, ((cursor + k) % WordSize) % Cardinality(Online))

(* The chunk after k others of the same file.                              *)
Placed(k) ==
  LET p == Pick(2 * k)
      q == Pick(2 * k + 1)
  IN  [primary |-> p, secondary |-> q, holders |-> {p, q}, deleted |-> FALSE]

(* Mutant: rr_cursor is not wrapped.                                       *)
AllocateUnwrapped(p, n) ==
  LET ids == nextChunk .. nextChunk + n - 1 IN
  /\ p \notin DOMAIN files /\ Cardinality(Online) >= ReplicationFactor
  /\ files' = [q \in DOMAIN files \cup {p} |->
                 IF q = p THEN [i \in 1 .. n |-> nextChunk + i - 1] ELSE files[q]]
  /\ chunks' = [c \in DOMAIN chunks \cup ids |->
                  IF c \in ids THEN Placed(c - nextChunk) ELSE chunks[c]]
  /\ nextChunk' = nextChunk + n
  /\ cursor' = cursor + ReplicationFactor * n
  /\ UNCHANGED servers

(* Mutant: rr_cursor moves once more when a file is placed.                *)
AllocateExtra(p, n) ==
  LET ids == nextChunk .. nextChunk + n - 1 IN
  /\ p \notin DOMAIN files /\ Cardinality(Online) >= ReplicationFactor
  /\ files' = [q \in DOMAIN files \cup {p} |->
                 IF q = p THEN [i \in 1 .. n |-> nextChunk + i - 1] ELSE files[q]]
  /\ chunks' = [c \in DOMAIN chunks \cup ids |->
                  IF c \in ids THEN Placed(c - nextChunk) ELSE chunks[c]]
  /\ nextChunk' = nextChunk + n
  /\ cursor' = (cursor + ReplicationFactor * n + 1) % WordSize
  /\ UNCHANGED servers

(* A file of n chunks. An existing path and a lack of servers are errors   *)
(* that leave the state as it is.                                          *)
Allocate(p, n) ==
  LET ids == nextChunk .. nextChunk + n - 1 IN
  /\ p \notin DOMAIN files
  /\ Cardinality(Online) >= ReplicationFactor
  /\ files' = [q \in DOMAIN files \cup {p} |->
                 IF q = p THEN [i \in 1 .. n |-> nextChunk + i - 1] ELSE files[q]]
  /\ chunks' = [c \in DOMAIN chunks \cup ids |->
                  IF c \in ids THEN Placed(c - nextChunk) ELSE chunks[c]]
  /\ nextChunk' = nextChunk + n
  /\ cursor' = (cursor + ReplicationFactor * n) % WordSize
  /\ UNCHANGED servers

(* The replies: the addresses that allocate and lookup hand out. Lookup    *)
(* leaves out the replicas that are offline, and fails without any.        *)
AddrOf(s) == servers[s].addr

Allocated(n) ==
  [i \in 1 .. n |-> [id |-> nextChunk + i - 1,
                     primary |-> AddrOf(Placed(i - 1).primary),
                     secondary |-> AddrOf(Placed(i - 1).secondary)]]

Survivors(c) == {chunks[c].primary, chunks[c].secondary} \cap Online

(* Mutant: the secondary does not take the place of a lost primary.        *)
LocatedInOrder(c) ==
  [id |-> c,
   primary |-> AddrOf(chunks[c].primary),
   secondary |-> IF Cardinality(Survivors(c)) < 2 THEN NoAddr ELSE AddrOf(chunks[c].secondary)]

Located(c) ==
  LET first == IF chunks[c].primary \in Online THEN chunks[c].primary ELSE chunks[c].secondary
  IN  [id |-> c,
       primary |-> AddrOf(first),
       secondary |-> IF Survivors(c) = {first} THEN NoAddr ELSE AddrOf(chunks[c].secondary)]

CanLookup(p) ==
  /\ p \in DOMAIN files
  /\ \A c \in Range(files[p]) : c \in DOMAIN chunks /\ Survivors(c) # {}

Lookup(p) == [i \in DOMAIN files[p] |-> Located(files[p][i])]

Delete(p) ==
  /\ p \in DOMAIN files
  /\ files' = [q \in DOMAIN files \ {p} |-> files[q]]
  /\ chunks' = [c \in DOMAIN chunks |->
                  IF c \in Range(files[p]) THEN [chunks[c] EXCEPT !.deleted = TRUE]
                                           ELSE chunks[c]]
  /\ UNCHANGED <<servers, nextChunk, cursor>>

-----------------------------------------------------------------------------
Register(a) ==
  /\ servers' = Append(servers, [addr |-> a, online |-> TRUE])
  /\ UNCHANGED <<files, chunks, nextChunk, cursor>>

(* A chunk that the master wants on s; what s reports besides is dropped.  *)
Wanted(s, c) == c \in DOMAIN chunks /\ ~chunks[c].deleted /\ s \in chunks[c].holders

(* Mutants: only the primary may keep a chunk; unknown chunks are left.    *)
DropsSecondary(s, held) == {c \in held : c \in DOMAIN chunks => chunks[c].primary # s}
DropsKnown(s, held) == {c \in held \cap DOMAIN chunks : chunks[c].deleted}

Drops(s, held) == {c \in held : ~Wanted(s, c)}

(* Mutants: an unreported chunk leaves although it is not deleted; only    *)
(* the primary ever leaves.                                                *)
LeftAlways(s, held) == {c \in DOMAIN chunks \ held : s \in chunks[c].holders}
LeftPrimary(s, held) ==
  {c \in DOMAIN chunks \ held : chunks[c].deleted /\ s \in chunks[c].holders /\ s = chunks[c].primary}

(* A deleted chunk that s no longer reports has left s. Without a holder   *)
(* it is forgotten.                                                        *)
Left(s, held) == {c \in DOMAIN chunks \ held : chunks[c].deleted /\ s \in chunks[c].holders}

(* Mutants: a server that was marked offline does not rejoin; a report     *)
(* makes its server a holder.                                              *)
HeartbeatOffline(s, held) ==
  LET left == Left(s, held) IN
  /\ chunks' = [c \in DOMAIN chunks \ {c \in left : chunks[c].holders = {s}} |->
                  IF c \in left THEN [chunks[c] EXCEPT !.holders = @ \ {s}] ELSE chunks[c]]
  /\ UNCHANGED <<files, servers, nextChunk, cursor>>
HeartbeatConfirms(s, held) ==
  /\ servers' = [servers EXCEPT ![s].online = TRUE]
  /\ chunks' = [c \in DOMAIN chunks |->
                  IF c \in held THEN [chunks[c] EXCEPT !.holders = @ \cup {s}] ELSE chunks[c]]
  /\ UNCHANGED <<files, nextChunk, cursor>>

Heartbeat(s, held) ==
  LET left == Left(s, held)
      forget == {c \in left : chunks[c].holders \ {s} = {}}
  IN
  /\ servers' = [servers EXCEPT ![s].online = TRUE]
  /\ chunks' = [c \in DOMAIN chunks \ forget |->
                  IF c \in left THEN [chunks[c] EXCEPT !.holders = @ \ {s}] ELSE chunks[c]]
  /\ UNCHANGED <<files, nextChunk, cursor>>

TimeOut(s) ==
  /\ s \in Online
  /\ servers' = [servers EXCEPT ![s].online = FALSE]
  /\ UNCHANGED <<files, chunks, nextChunk, cursor>>

-----------------------------------------------------------------------------
(* The master among servers that report whatever they like.                *)
MasterNext ==
  \/ \E p \in Paths : Delete(p) \/ \E n \in 0 .. MaxChunks : Allocate(p, n)
  \/ \E a \in Addrs : Register(a)
  \/ \E s \in ServerIds : TimeOut(s) \/ \E held \in SUBSET ChunkIds : Heartbeat(s, held)

MasterSpec == MasterInit /\ [][MasterNext]_masterVars

-----------------------------------------------------------------------------
MasterTypeOK ==
  /\ DOMAIN files \subseteq Paths
  /\ \A p \in DOMAIN files : files[p] \in Seq(ChunkIds)
  /\ DOMAIN chunks \subseteq ChunkIds
  /\ \A c \in DOMAIN chunks : chunks[c] \in ChunkInfo
  /\ servers \in Seq([addr : Addrs, online : BOOLEAN])
  /\ nextChunk \in Nat
  /\ cursor \in 0 .. WordSize - 1

InFile(p, c) == p \in DOMAIN files /\ c \in Range(files[p])

(* The namespace and the chunk table agree, through every mixture of       *)
(* allocations, deletions and reports: a chunk that is not deleted is in   *)
(* exactly one file, once, and on both its replicas; every chunk of a file *)
(* is in the table, so that a lookup never misses one (lookup's ok_or and  *)
(* delete's if let). A deleted chunk in the table has a holder left.       *)
NamespaceSound ==
  /\ \A p \in DOMAIN files :
        /\ IsInjective(files[p])
        /\ \A c \in Range(files[p]) : c \in DOMAIN chunks /\ ~chunks[c].deleted
  /\ \A p, q \in DOMAIN files : p # q => Range(files[p]) \cap Range(files[q]) = {}
  /\ \A c \in DOMAIN chunks :
        IF chunks[c].deleted
        THEN chunks[c].holders # {}
        ELSE /\ \E p \in DOMAIN files : c \in Range(files[p])
             /\ chunks[c].holders = {chunks[c].primary, chunks[c].secondary}

(* The replicas of a chunk are different servers ("the picks are always    *)
(* distinct"), also when rr_cursor wraps: it moves by two and a word has   *)
(* an even number of values, so it never wraps between two picks.          *)
ReplicasDistinct ==
  \A c \in DOMAIN chunks : chunks[c].primary # chunks[c].secondary

(* The master never changes its mind about a chunk once it has left the    *)
(* namespace: what a late drop order or a late report is about stays so.   *)
UnwantedForGood ==
  [][\A c \in ChunkIds, s \in ServerIds : ~Wanted(s, c) => ~Wanted(s, c)']_masterVars
=============================================================================

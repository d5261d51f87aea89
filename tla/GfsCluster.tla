----------------------------- MODULE GfsCluster -----------------------------
(***************************************************************************)
(* The master with its chunk servers (src/gfs/src/chunk.rs, store.rs) and  *)
(* clients (src/gfs/src/main.rs): chain-replicated writes, reads with a    *)
(* second try, heartbeats whose report is taken before and whose answer is *)
(* applied after the call to the master, servers that stop at any step and *)
(* start again, perhaps at an address that was used before.                *)
(***************************************************************************)
EXTENDS GfsMaster, FiniteSetsExt

CONSTANTS MaxPuts,      \* bound: puts that the master accepts
          MaxIds,       \* bound: chunks of all of them together
          MaxGets,      \* bound: gets that begin
          MaxServers,   \* bound: chunk servers that start
          MaxFaults     \* bound: servers that stop, heartbeats that miss their
                        \* deadline, serving servers that are marked offline

ASSUME BoundsAssumption ==
  {MaxPuts, MaxIds, MaxGets, MaxServers, MaxFaults} \subseteq Nat

VARIABLES nodes,        \* by ServerId, the chunk server itself
          puts,         \* the puts so far, each with the write it has begun
          gets,         \* the gets so far
          late,         \* reports given up by their server, still on the way
          faults        \* how many faults there were

vars == <<masterVars, nodes, puts, gets, late, faults>>

(* A chunk's bytes are known by the put that sent them and their place in  *)
(* the file.                                                               *)
Bytes(w, i) == <<w, i>>
Contents(w) == [i \in 1 .. Len(puts[w].chunks) |-> Bytes(w, i)]

Serving(s) == nodes[s].up = "serving"
Running(s) == nodes[s].up # "crashed"
Stopped == {s \in ServerIds : ~Serving(s)}
Holds(s, c) == c \in DOMAIN nodes[s].store

(* The server that accepts connections at a; at most one can.              *)
At(a) == {s \in ServerIds : Serving(s) /\ AddrOf(s) = a}

Init ==
  /\ MasterInit
  /\ nodes = <<>> /\ puts = <<>> /\ gets = <<>>
  /\ late = {} /\ faults = 0

-----------------------------------------------------------------------------
(* Chunk servers: start, stop, heartbeat                                   *)

Idle == [stage |-> "idle", chunks |-> {}]

(* The listener is bound, which needs a free address, then registered.     *)
Start(a) ==
  /\ Len(nodes) < MaxServers
  /\ At(a) = {}
  /\ Register(a)
  /\ nodes' = Append(nodes, [up |-> "serving", store |-> <<>>, hb |-> Idle])
  /\ UNCHANGED <<puts, gets, late, faults>>

Fault == faults < MaxFaults /\ faults' = faults + 1

(* A report on its way may still get there without its server.             *)
Unanswered(s) ==
  IF nodes[s].hb.stage = "asked" THEN {[server |-> s, held |-> nodes[s].hb.chunks]} ELSE {}

(* A crash loses the store. An abort ends the two loops, not the           *)
(* connections that were accepted.                                         *)
Stop(s, how) ==
  /\ Serving(s)
  /\ Fault
  /\ nodes' = [nodes EXCEPT ![s] =
       [up |-> how, store |-> IF how = "crashed" THEN <<>> ELSE @.store, hb |-> Idle]]
  /\ late' = late \cup Unanswered(s)
  /\ UNCHANGED <<masterVars, puts, gets>>

Report(s) ==
  /\ Serving(s) /\ nodes[s].hb.stage = "idle"
  /\ nodes' = [nodes EXCEPT ![s].hb = [stage |-> "asked", chunks |-> DOMAIN nodes[s].store]]
  /\ UNCHANGED <<masterVars, puts, gets, late, faults>>

(* An answer without orders is applied at once.                            *)
MasterHears(s) ==
  LET held == nodes[s].hb.chunks
      drops == Drops(s, held)
  IN
  /\ nodes[s].hb.stage = "asked"
  /\ Heartbeat(s, held)
  /\ nodes' = [nodes EXCEPT
       ![s].hb = IF drops = {} THEN Idle ELSE [stage |-> "answered", chunks |-> drops]]
  /\ UNCHANGED <<puts, gets, late, faults>>

MasterHearsLate(r) ==
  /\ r \in late
  /\ Heartbeat(r.server, r.held)
  /\ late' = late \ {r}
  /\ UNCHANGED <<nodes, puts, gets, faults>>

ApplyDrops(s) ==
  /\ nodes[s].hb.stage = "answered"
  /\ nodes' = [nodes EXCEPT
       ![s].store = [c \in DOMAIN nodes[s].store \ nodes[s].hb.chunks |-> nodes[s].store[c]],
       ![s].hb = Idle]
  /\ UNCHANGED <<masterVars, puts, gets, late, faults>>

(* The call ends with an error: its deadline has passed.                   *)
GiveUp(s) ==
  /\ nodes[s].hb.stage # "idle"
  /\ Fault
  /\ nodes' = [nodes EXCEPT ![s].hb = Idle]
  /\ late' = late \cup Unanswered(s)
  /\ UNCHANGED <<masterVars, puts, gets>>

(* A server that serves may be marked offline when it is slow.             *)
DetectTimeouts(s) ==
  /\ TimeOut(s)
  /\ IF Serving(s) THEN Fault ELSE UNCHANGED faults
  /\ UNCHANGED <<nodes, puts, gets, late>>

-----------------------------------------------------------------------------
(* put: allocate, then one chunk after the other                           *)

NoWrite == [primary |-> 0, leg |-> "none", secondary |-> 0, copy |-> "none"]

(* The file is in the namespace from here on, whatever comes of the put.   *)
Put(p, n) ==
  /\ Len(puts) < MaxPuts /\ nextChunk + n <= MaxIds
  /\ Allocate(p, n)
  /\ puts' = Append(puts,
       [path |-> p, chunks |-> Allocated(n), at |-> 1, write |-> NoWrite,
        state |-> IF n = 0 THEN "acked" ELSE "writing"])
  /\ UNCHANGED <<nodes, gets, late, faults>>

Chunk(w) == puts[w].chunks[puts[w].at]

Writes(w, change) ==
  /\ puts' = [puts EXCEPT ![w].write = change]
  /\ UNCHANGED <<masterVars, gets, late, faults>>

Fails(w) ==
  /\ puts' = [puts EXCEPT ![w].state = "failed"]
  /\ UNCHANGED <<masterVars, nodes, gets, late, faults>>

(* The client connects to the primary and sends the chunk.                 *)
SendChunk(w) ==
  /\ puts[w].state = "writing" /\ puts[w].write.leg = "none"
  /\ \/ \E s \in At(Chunk(w).primary) :
           Writes(w, [NoWrite EXCEPT !.primary = s, !.leg = "queued"]) /\ UNCHANGED nodes
     \/ At(Chunk(w).primary) = {} /\ Fails(w)

Stores(s, w) ==
  nodes' = [nodes EXCEPT ![s].store =
    [c \in DOMAIN nodes[s].store \cup {Chunk(w).id} |->
       IF c = Chunk(w).id THEN Bytes(w, puts[w].at) ELSE nodes[s].store[c]]]

PrimaryStores(w) ==
  LET write == puts[w].write IN
  /\ write.leg = "queued" /\ Running(write.primary)
  /\ Stores(write.primary, w)
  /\ Writes(w, [write EXCEPT !.leg = "stored"])

Forward(w) ==
  LET write == puts[w].write IN
  /\ write.leg = "stored" /\ Running(write.primary)
  /\ \/ \E t \in At(Chunk(w).secondary) :
           Writes(w, [write EXCEPT !.leg = "forwarded", !.secondary = t, !.copy = "queued"])
     \/ At(Chunk(w).secondary) = {} /\ Writes(w, [write EXCEPT !.leg = "error"])
  /\ UNCHANGED nodes

SecondaryStores(w) ==
  LET write == puts[w].write IN
  /\ write.copy = "queued" /\ Running(write.secondary)
  /\ Stores(write.secondary, w)
  /\ Writes(w, [write EXCEPT !.copy = "stored"])

(* A connection breaks when its server crashes, or is aborted before it    *)
(* has accepted it.                                                        *)
Breaks(s, queued) == nodes[s].up = "crashed" \/ (nodes[s].up = "aborted" /\ queued)

(* Mutant: the primary acknowledges as soon as it has sent the copy.       *)
ForwardUnanswered(w) ==
  /\ puts[w].write.leg = "forwarded" /\ Running(puts[w].write.primary)
  /\ Writes(w, [puts[w].write EXCEPT !.leg = "written"])
  /\ UNCHANGED nodes

ForwardAnswered(w) ==
  LET write == puts[w].write IN
  /\ write.leg = "forwarded" /\ Running(write.primary)
  /\ \/ write.copy = "stored" /\ Writes(w, [write EXCEPT !.leg = "written"])
     \/ /\ Breaks(write.secondary, write.copy = "queued")
        /\ Writes(w, [write EXCEPT !.leg = "error", !.copy = "none"])
  /\ UNCHANGED nodes

ChunkWritten(w) ==
  LET last == puts[w].at = Len(puts[w].chunks) IN
  /\ puts[w].state = "writing" /\ puts[w].write.leg = "written"
  /\ puts' = [puts EXCEPT
       ![w].at = IF last THEN @ ELSE @ + 1,
       ![w].write = NoWrite,
       ![w].state = IF last THEN "acked" ELSE @]
  /\ UNCHANGED <<masterVars, nodes, gets, late, faults>>

(* The primary answers with an error, or its connection breaks; what it    *)
(* has begun goes on without the client.                                   *)
WriteFails(w) ==
  LET write == puts[w].write IN
  /\ puts[w].state = "writing" /\ write.leg # "none"
  /\ write.leg = "error" \/ Breaks(write.primary, write.leg = "queued")
  /\ puts' = [puts EXCEPT ![w].state = "failed",
                          ![w].write.leg = IF @ \in {"error", "queued"} THEN "none" ELSE @]
  /\ UNCHANGED <<masterVars, nodes, gets, late, faults>>

(* The client is gone, or has missed the reply of allocate; what it has    *)
(* sent goes on.                                                           *)
Quit(w) == puts[w].state = "writing" /\ Fails(w)

-----------------------------------------------------------------------------
(* get and delete                                                          *)

(* The file at a path is the one of the last put that the path accepted.   *)
Creator(p) == Max({w \in DOMAIN puts : puts[w].path = p})

Get(p) ==
  /\ Len(gets) < MaxGets
  /\ CanLookup(p)
  /\ gets' = Append(gets,
       [file |-> Creator(p), chunks |-> Lookup(p), got |-> <<>>, second |-> FALSE,
        state |-> IF Lookup(p) = <<>> THEN "done" ELSE "reading"])
  /\ UNCHANGED <<masterVars, nodes, puts, late, faults>>

(* Mutant: a chunk that is not found is taken to be empty.                 *)
ReadChunkOrSkip(g) ==
  LET get == gets[g]
      chunk == get.chunks[Len(get.got) + 1]
      found == {s \in At(chunk.primary) : Holds(s, chunk.id)}
  IN
  /\ get.state = "reading"
  /\ \/ \E s \in found : gets' = [gets EXCEPT ![g].got = Append(@, nodes[s].store[chunk.id]),
                                               ![g].state = IF Len(get.chunks) = 1 THEN "done" ELSE @]
     \/ found = {} /\ gets' = [gets EXCEPT ![g].state = "done"]
  /\ UNCHANGED <<masterVars, nodes, puts, late, faults>>

(* One request for the next chunk: a server that does not accept the       *)
(* connection or does not have the chunk sends the client to the other.    *)
ReadChunk(g) ==
  LET get == gets[g]
      chunk == get.chunks[Len(get.got) + 1]
      found == {s \in At(IF get.second THEN chunk.secondary ELSE chunk.primary) :
                  Holds(s, chunk.id)}
  IN
  /\ get.state = "reading"
  /\ \/ \E s \in found :
           gets' = [gets EXCEPT
             ![g].got = Append(@, nodes[s].store[chunk.id]),
             ![g].second = FALSE,
             ![g].state = IF Len(get.got) + 1 = Len(get.chunks) THEN "done" ELSE @]
     \/ /\ found = {}
        /\ gets' = IF ~get.second /\ chunk.secondary # NoAddr
                   THEN [gets EXCEPT ![g].second = TRUE]
                   ELSE [gets EXCEPT ![g].state = "failed"]
  /\ UNCHANGED <<masterVars, nodes, puts, late, faults>>

DeleteFile(p) == Delete(p) /\ UNCHANGED <<nodes, puts, gets, late, faults>>

-----------------------------------------------------------------------------
Server(s) ==
  Report(s) \/ MasterHears(s) \/ ApplyDrops(s)

Writer(w) ==
  \/ SendChunk(w) \/ PrimaryStores(w) \/ Forward(w) \/ SecondaryStores(w)
  \/ ForwardAnswered(w) \/ ChunkWritten(w) \/ WriteFails(w)

Next ==
  \/ \E a \in Addrs : Start(a)
  \/ \E s \in ServerIds :
        \/ Server(s) \/ GiveUp(s) \/ DetectTimeouts(s)
        \/ \E how \in {"crashed", "aborted"} : Stop(s, how)
  \/ \E r \in late : MasterHearsLate(r)
  \/ \E p \in Paths :
        \/ Get(p) \/ DeleteFile(p)
        \/ \E n \in 0 .. MaxChunks : Put(p, n)
  \/ \E w \in DOMAIN puts : Writer(w) \/ Quit(w)
  \/ \E g \in DOMAIN gets : ReadChunk(g)

Spec == Init /\ [][Next]_vars

(* The loops and connections of a server that runs make progress, the      *)
(* master's ticker finds the servers that have stopped, clients go on.     *)
FairSpec ==
  /\ Spec
  /\ \A s \in 1 .. MaxServers :
        WF_vars(s \in ServerIds /\ Server(s)) /\ WF_vars(s \in Stopped /\ DetectTimeouts(s))
  /\ \A w \in 1 .. MaxPuts : WF_vars(w \in DOMAIN puts /\ Writer(w))
  /\ \A g \in 1 .. MaxGets : WF_vars(g \in DOMAIN gets /\ ReadChunk(g))

-----------------------------------------------------------------------------
Write == [primary : 0 .. Len(nodes), secondary : 0 .. Len(nodes),
          leg : {"none", "queued", "stored", "forwarded", "written", "error"},
          copy : {"none", "queued", "stored"}]

TypeOK ==
  /\ MasterTypeOK
  /\ Len(nodes) = Len(servers)
  /\ \A s \in DOMAIN nodes :
        /\ nodes[s].up \in {"serving", "aborted", "crashed"}
        /\ DOMAIN nodes[s].store \subseteq ChunkIds
        /\ nodes[s].hb \in [stage : {"idle", "asked", "answered"}, chunks : SUBSET ChunkIds]
  /\ \A w \in DOMAIN puts :
        /\ puts[w].state \in {"writing", "acked", "failed"}
        /\ puts[w].chunks = <<>> \/ puts[w].at \in DOMAIN puts[w].chunks
        /\ puts[w].write \in Write
  /\ late \in SUBSET [server : ServerIds, held : SUBSET ChunkIds]
  /\ faults \in 0 .. MaxFaults

(* A server is only ever told to drop chunks that the master does not want *)
(* on it, also when the answer is applied long after the report was taken  *)
(* and other writes, deletions and late reports came in between            *)
(* (heartbeat_loop).                                                       *)
DropsUnwanted ==
  \A s \in DOMAIN nodes :
     nodes[s].hb.stage = "answered" => \A c \in nodes[s].hb.chunks : ~Wanted(s, c)

(* The chunks of puts[w] whose write was acknowledged, by position.        *)
Acked(w) ==
  IF puts[w].state = "acked" THEN DOMAIN puts[w].chunks
  ELSE {i \in DOMAIN puts[w].chunks :
          i < puts[w].at \/ (i = puts[w].at /\ puts[w].write.leg = "written")}

(* A chunk whose write was acknowledged is, with its bytes, on every       *)
(* replica that the master wants it on and that has not stopped            *)
(* (handle_request, heartbeat_loop).                                       *)
AckedKept ==
  \A w \in DOMAIN puts : \A i \in Acked(w) :
     LET c == puts[w].chunks[i].id IN
     \A s \in ServerIds : Wanted(s, c) /\ Serving(s) =>
        Holds(s, c) /\ nodes[s].store[c] = Bytes(w, i)

(* What the comment of handle_request says ("the ack means the data        *)
(* reached both replicas"), of the replicas that the master has of the     *)
(* chunk. The chain is made of addresses: a server that has started again  *)
(* at one of them stores the chunk, and is not a replica.                  *)
AckReachesReplicas ==
  \A w \in DOMAIN puts : puts[w].write.leg = "written" =>
     LET write == puts[w].write
         c == Chunk(w).id
     IN
     c \in DOMAIN chunks /\ ~chunks[c].deleted =>
        {write.primary, write.secondary} = {chunks[c].primary, chunks[c].secondary}

(* A file that was put to the end can be read while each of its chunks has *)
(* a replica that serves and is online: lookup succeeds and for each chunk *)
(* names an address at which the bytes are (lookup, read_chunk_full).      *)
AckedReadable ==
  \A p \in DOMAIN files :
     LET w == Creator(p)
         live(c) == {s \in Survivors(c) : Serving(s)}
         at(found) == At(found.primary) \cup At(found.secondary)
     IN
     puts[w].state = "acked" /\ (\A c \in Range(files[p]) : live(c) # {}) =>
       /\ CanLookup(p)
       /\ \A i \in DOMAIN files[p] : \E s \in at(Lookup(p)[i]) :
             Holds(s, files[p][i]) /\ nodes[s].store[files[p][i]] = Bytes(w, i)

(* The reads of the clients, however they interleave with puts, deletions, *)
(* drops and servers that stop and start, are those of FileService.        *)
Files == INSTANCE FileService WITH
  sizes <- [w \in DOMAIN puts |-> Len(puts[w].chunks)],
  file <- [p \in Paths |-> IF p \in DOMAIN files THEN Creator(p) ELSE 0],
  reads <- [g \in DOMAIN gets |->
              [file |-> gets[g].file,
               state |-> IF gets[g].state = "reading" THEN "open" ELSE gets[g].state,
               data |-> IF gets[g].state = "done" THEN gets[g].got ELSE <<>>]]

ImplementsFileService == Files!Spec

-----------------------------------------------------------------------------
AllIds == 0 .. MaxIds - 1
Unwanted(c) == c \in ChunkIds /\ \A s \in ServerIds : ~Wanted(s, c)

(* A chunk of a deleted file leaves every server at last and does not come *)
(* back, although its write may still be under way and heartbeats fail.    *)
DeletedVanish ==
  \A c \in AllIds : Unwanted(c) ~> [](\A s \in ServerIds : Serving(s) => ~Holds(s, c))

(* The master forgets a deleted chunk, unless a server that holds it has   *)
(* stopped and cannot report any more.                                     *)
DeletedForgotten ==
  \A c \in AllIds : Unwanted(c) ~>
     (c \in DOMAIN chunks => chunks[c].holders \cap Stopped # {})

(* The master's view of who is online becomes right, late reports or not.  *)
LivenessTracked ==
  \A s \in 1 .. MaxServers :
     /\ (s \in ServerIds /\ Serving(s)) ~> (s \in Online \/ s \in Stopped)
     /\ (s \in Stopped) ~> [](s \notin Online)
=============================================================================

-------------------------- MODULE GfsClusterProofs --------------------------
(***************************************************************************)
(* The cluster is right for every number of servers, files, chunks, puts,  *)
(* gets and faults: the chunk servers and clients only ever ask the master *)
(* for what GfsMaster lets it do, no drop order is about a wanted chunk,   *)
(* and what was acknowledged stays where the master wants it.              *)
(***************************************************************************)
EXTENDS GfsCluster, GfsMasterProofs

(* What a chunk server and a put are.                                      *)
Stored == UNION {[D -> Nat \X Nat] : D \in SUBSET ChunkIds}

Node == [up : {"serving", "aborted", "crashed"}, store : Stored,
         hb : [stage : {"idle", "asked", "answered"}, chunks : SUBSET ChunkIds]]

Upload == [path : Paths, chunks : Seq([id : ChunkIds, primary : Addrs, secondary : Addrs]),
           at : Nat, state : {"writing", "acked", "failed"},
           write : [primary : Nat, leg : {"none", "queued", "stored", "forwarded", "written", "error"},
                    secondary : Nat, copy : {"none", "queued", "stored"}]]

NodesTyped == Len(nodes) = Len(servers) /\ nodes \in Seq(Node)

(* A write that has begun is about a chunk, and on its way to servers.     *)
Underway(w) ==
  /\ \/ puts[w].at \in DOMAIN puts[w].chunks
     \/ /\ puts[w].chunks = <<>> /\ puts[w].state # "writing"
        /\ puts[w].write.leg = "none" /\ puts[w].write.copy = "none"
  /\ puts[w].write.primary \in 0 .. Len(nodes)
  /\ puts[w].write.secondary \in 0 .. Len(nodes)
  /\ puts[w].write.leg # "none" => puts[w].write.primary \in ServerIds
  /\ puts[w].write.copy # "none" => puts[w].write.secondary \in ServerIds

PutsTyped == puts \in Seq(Upload) /\ \A w \in DOMAIN puts : Underway(w)

RestTyped ==
  /\ late \in SUBSET [server : ServerIds, held : SUBSET ChunkIds]
  /\ faults \in 0 .. MaxFaults

Types == IInv /\ NodesTyped /\ PutsTyped /\ RestTyped

-----------------------------------------------------------------------------
(* Types *)

(* The parts of the types that the proofs need.                            *)
LEMMA TypeFacts ==
  ASSUME Types
  PROVE  /\ Len(servers) \in Nat /\ ServerIds = 1 .. Len(servers)
         /\ nodes \in Seq(Node) /\ Len(nodes) = Len(servers) /\ DOMAIN nodes = ServerIds
         /\ \A s \in ServerIds : nodes[s] \in Node
         /\ puts \in Seq(Upload) /\ DOMAIN puts = 1 .. Len(puts) /\ Len(puts) \in Nat
         /\ \A w \in DOMAIN puts : puts[w] \in Upload
<1>1. nodes \in Seq(Node) /\ Len(nodes) = Len(servers) /\ puts \in Seq(Upload)
  BY DEF Types, NodesTyped, PutsTyped
<1>2. Len(nodes) \in Nat /\ DOMAIN nodes = 1 .. Len(nodes)
      /\ Len(puts) \in Nat /\ DOMAIN puts = 1 .. Len(puts)
  BY <1>1, LenProperties
<1>3. /\ \A s \in 1 .. Len(nodes) : nodes[s] \in Node
      /\ \A w \in 1 .. Len(puts) : puts[w] \in Upload
  BY <1>1, ElementOfSeq
<1> QED
  BY <1>1, <1>2, <1>3 DEF ServerIds

(* Nodes and puts stay what they are while the master grows.               *)
LEMMA NodeGrows ==
  ASSUME ChunkIds \subseteq ChunkIds'
  PROVE  Node \subseteq Node' /\ Upload \subseteq Upload' /\ Stored \subseteq Stored'
<1>1. Stored \subseteq Stored'
  <2> SUFFICES ASSUME NEW f \in Stored PROVE f \in Stored'
    OBVIOUS
  <2>1. PICK D \in SUBSET ChunkIds : f \in [D -> Nat \X Nat]
    BY DEF Stored
  <2>2. D \in SUBSET ChunkIds'
    OBVIOUS
  <2> QED
    BY <2>1, <2>2 DEF Stored
<1>2. Seq([id : ChunkIds, primary : Addrs, secondary : Addrs])
        \subseteq Seq([id : ChunkIds', primary : Addrs, secondary : Addrs])
  BY SeqMonotonic
<1> HIDE DEF Stored
<1>3. Node \subseteq Node'
  BY <1>1 DEF Node
<1>4. Upload \subseteq Upload'
  BY <1>2 DEF Upload
<1> QED
  BY <1>1, <1>3, <1>4

(* A step that leaves the nodes alone.                                     *)
LEMMA NodesStay ==
  ASSUME NodesTyped, UNCHANGED nodes, ChunkIds \subseteq ChunkIds', Len(servers') = Len(servers)
  PROVE  NodesTyped'
<1>1. nodes \in Seq(Node) /\ Node \subseteq Node'
  BY NodeGrows DEF NodesTyped
<1>2. nodes \in Seq(Node')
  BY <1>1, SeqMonotonic
<1> QED
  BY <1>2 DEF NodesTyped

(* A step that changes one node.                                           *)
LEMMA NodeChanges ==
  ASSUME Types, NEW s \in ServerIds, NEW e \in Node, nodes' = [nodes EXCEPT ![s] = e],
         ChunkIds \subseteq ChunkIds', Len(servers') = Len(servers)
  PROVE  /\ NodesTyped' /\ nodes'[s] = e
         /\ \A t \in ServerIds : t # s => nodes'[t] = nodes[t]
<1>1. /\ nodes \in Seq(Node) /\ DOMAIN nodes = ServerIds /\ Len(nodes) = Len(servers)
      /\ ServerIds = 1 .. Len(servers)
  BY TypeFacts
<1>2. nodes' \in Seq(Node) /\ Len(nodes') = Len(nodes)
  BY <1>1, ExceptSeq
<1>3. nodes' \in Seq(Node')
  BY <1>2, NodeGrows, SeqMonotonic
<1> QED
  BY <1>1, <1>2, <1>3 DEF NodesTyped

(* A step that leaves the puts alone.                                      *)
LEMMA PutsStay ==
  ASSUME Types, UNCHANGED puts, ChunkIds \subseteq ChunkIds', ServerIds \subseteq ServerIds',
         Len(nodes') \in Nat, Len(nodes') >= Len(nodes)
  PROVE  PutsTyped'
<1>1. puts \in Seq(Upload) /\ Upload \subseteq Upload' /\ \A w \in DOMAIN puts : Underway(w)
  BY NodeGrows DEF Types, PutsTyped
<1>2. puts \in Seq(Upload')
  BY <1>1, SeqMonotonic
<1>3. Len(nodes) \in Nat
  BY TypeFacts
<1>4. \A w \in DOMAIN puts : Underway(w)'
  BY <1>1, <1>3 DEF Underway
<1> QED
  BY <1>2, <1>4 DEF PutsTyped

(* A step that changes one put and nothing but nodes besides.              *)
LEMMA PutChanges ==
  ASSUME Types, NEW w \in DOMAIN puts, NEW e \in Upload, puts' = [puts EXCEPT ![w] = e],
         UNCHANGED masterVars, Len(nodes') = Len(nodes),
         Underway(w)'
  PROVE  /\ PutsTyped' /\ puts'[w] = e /\ DOMAIN puts' = DOMAIN puts
         /\ \A v \in DOMAIN puts : v # w => puts'[v] = puts[v]
<1>1. puts \in Seq(Upload) /\ DOMAIN puts = 1 .. Len(puts)
  BY TypeFacts
<1>2. puts' \in Seq(Upload)
  BY <1>1, ExceptSeq
<1>3. puts'[w] = e /\ DOMAIN puts' = DOMAIN puts
      /\ \A v \in DOMAIN puts : v # w => puts'[v] = puts[v]
  OBVIOUS
<1>4. ServerIds' = ServerIds /\ ChunkIds' = ChunkIds
  BY DEF masterVars, ServerIds, ChunkIds
<1>5. Upload' = Upload
  BY <1>4 DEF Upload
<1>6. \A v \in DOMAIN puts : Underway(v)'
  <2> SUFFICES ASSUME NEW v \in DOMAIN puts, v # w PROVE Underway(v)'
    OBVIOUS
  <2>1. Underway(v)
    BY DEF Types, PutsTyped
  <2> QED
    BY <1>3, <1>4, <2>1 DEF Underway
<1> QED
  BY <1>2, <1>3, <1>5, <1>6 DEF PutsTyped

(* The master's part of a step in which the master does nothing.           *)
LEMMA MasterIdle ==
  ASSUME Types, UNCHANGED masterVars
  PROVE  /\ IInv' /\ ServerIds' = ServerIds /\ ChunkIds' = ChunkIds /\ servers' = servers
         /\ UNCHANGED <<files, chunks, nextChunk, cursor>>
         /\ [MasterNext]_masterVars
<1>1. IInv'
  BY StepKeeps DEF Types
<1> QED
  BY <1>1 DEF masterVars, ServerIds, ChunkIds

LEMMA InitTypes == Init => Types
<1> SUFFICES ASSUME Init PROVE Types
  OBVIOUS
<1>1. IInv
  BY InitIInv DEF Init
<1>2. servers = <<>> /\ nodes = <<>> /\ puts = <<>> /\ late = {} /\ faults = 0
  BY DEF Init, MasterInit
<1>3. DOMAIN puts = {}
  BY <1>2
<1>4. MaxFaults \in Nat
  BY BoundsAssumption
<1> QED
  BY <1>1, <1>2, <1>3, <1>4 DEF Types, NodesTyped, PutsTyped, RestTyped

-----------------------------------------------------------------------------
(* Steps of the chunk servers *)

(* What a chunk server does to itself: it does not serve again once it has *)
(* stopped, its store gains nothing and loses only what it was told to     *)
(* drop, and it is told to drop only what the master does not want on it.  *)
Becomes(s, e) ==
  /\ e \in Node /\ nodes' = [nodes EXCEPT ![s] = e] /\ UNCHANGED puts
  /\ e.up = "serving" => Serving(s)
  /\ e.up = "serving" => \A c \in DOMAIN nodes[s].store :
        ~(nodes[s].hb.stage = "answered" /\ c \in nodes[s].hb.chunks) =>
           c \in DOMAIN e.store /\ e.store[c] = nodes[s].store[c]
  /\ \A c \in DOMAIN e.store : c \in DOMAIN nodes[s].store /\ e.store[c] = nodes[s].store[c]
  /\ e.hb.stage = "answered" => \A c \in e.hb.chunks : ~Wanted(s, c)

(* Reports that are given up, and faults that are counted.                 *)
LEMMA RestStays ==
  ASSUME Types, NEW s \in ServerIds, ServerIds \subseteq ServerIds', ChunkIds \subseteq ChunkIds',
         late' \subseteq late \cup Unanswered(s), Fault \/ UNCHANGED faults
  PROVE  RestTyped'
<1>1. /\ late \subseteq [server : ServerIds, held : SUBSET ChunkIds] /\ faults \in 0 .. MaxFaults
      /\ MaxFaults \in Nat
  BY BoundsAssumption DEF Types, RestTyped
<1>2. nodes[s] \in Node
  BY TypeFacts
<1>3. Unanswered(s) \subseteq [server : ServerIds, held : SUBSET ChunkIds]
  <2>1. nodes[s].hb.chunks \in SUBSET ChunkIds
    BY <1>2 DEF Node
  <2> QED
    BY <2>1 DEF Unanswered
<1>4. [server : ServerIds, held : SUBSET ChunkIds] \subseteq [server : ServerIds', held : SUBSET ChunkIds']
  OBVIOUS
<1>5. faults' \in 0 .. MaxFaults
  BY <1>1 DEF Fault
<1> QED
  BY <1>1, <1>3, <1>4, <1>5 DEF RestTyped

LEMMA StopBecomes ==
  ASSUME Types, NEW s \in ServerIds, NEW how \in {"crashed", "aborted"}, Stop(s, how)
  PROVE  \E e : Becomes(s, e)
<1> DEFINE e == [up |-> how, store |-> IF how = "crashed" THEN <<>> ELSE nodes[s].store, hb |-> Idle]
<1>1. nodes[s] \in Node /\ DOMAIN nodes = ServerIds
  BY TypeFacts
<1>2. nodes' = [nodes EXCEPT ![s] = e] /\ UNCHANGED puts
  BY DEF Stop
<1>3. <<>> \in Stored
  <2>1. <<>> \in [{} -> Nat \X Nat]
    OBVIOUS
  <2> QED
    BY <2>1 DEF Stored
<1>4. e \in Node
  BY <1>1, <1>3 DEF Node, Idle
<1>5. e.up # "serving" /\ e.hb.stage = "idle"
  BY DEF Idle
<1>6. Becomes(s, e)
  BY <1>2, <1>4, <1>5 DEF Becomes
<1> QED
  BY <1>6

LEMMA ReportBecomes ==
  ASSUME Types, NEW s \in ServerIds, Report(s)
  PROVE  \E e : Becomes(s, e)
<1> DEFINE e == [nodes[s] EXCEPT !.hb = [stage |-> "asked", chunks |-> DOMAIN nodes[s].store]]
<1>1. nodes[s] \in Node /\ DOMAIN nodes = ServerIds
  BY TypeFacts
<1>2. nodes' = [nodes EXCEPT ![s] = e] /\ UNCHANGED puts
  BY DEF Report
<1>3. DOMAIN nodes[s].store \subseteq ChunkIds
  BY <1>1 DEF Node, Stored
<1>4. e \in Node
  BY <1>1, <1>3 DEF Node
<1>5. e.hb.stage = "asked" /\ e.up = nodes[s].up /\ e.store = nodes[s].store
  BY <1>1 DEF Node
<1> QED
  BY <1>2, <1>4, <1>5 DEF Becomes, Serving

LEMMA GiveUpBecomes ==
  ASSUME Types, NEW s \in ServerIds, GiveUp(s)
  PROVE  \E e : Becomes(s, e)
<1> DEFINE e == [nodes[s] EXCEPT !.hb = Idle]
<1>1. nodes[s] \in Node /\ DOMAIN nodes = ServerIds
  BY TypeFacts
<1>2. nodes' = [nodes EXCEPT ![s] = e] /\ UNCHANGED puts
  BY DEF GiveUp
<1>3. e \in Node /\ e.hb.stage = "idle" /\ e.up = nodes[s].up /\ e.store = nodes[s].store
  BY <1>1 DEF Node, Idle
<1> QED
  BY <1>2, <1>3 DEF Becomes, Serving

LEMMA MasterHearsBecomes ==
  ASSUME Types, NEW s \in ServerIds, MasterHears(s)
  PROVE  /\ \E e : Becomes(s, e)
         /\ Heartbeat(s, nodes[s].hb.chunks) /\ nodes[s].hb.chunks \in SUBSET ChunkIds
<1> DEFINE drops == Drops(s, nodes[s].hb.chunks)
           e == [nodes[s] EXCEPT
                   !.hb = IF drops = {} THEN Idle ELSE [stage |-> "answered", chunks |-> drops]]
<1>1. nodes[s] \in Node /\ DOMAIN nodes = ServerIds
  BY TypeFacts
<1>2. nodes' = [nodes EXCEPT ![s] = e] /\ UNCHANGED puts /\ Heartbeat(s, nodes[s].hb.chunks)
  BY DEF MasterHears
<1>3. nodes[s].hb.chunks \in SUBSET ChunkIds
  BY <1>1 DEF Node
<1>4. drops \subseteq ChunkIds /\ \A c \in drops : ~Wanted(s, c)
  BY <1>3 DEF Drops
<1> HIDE DEF drops
<1>5. e \in Node /\ e.up = nodes[s].up /\ e.store = nodes[s].store
  BY <1>1, <1>4 DEF Node, Idle
<1>6. e.hb.stage = "answered" => e.hb.chunks = drops
  BY <1>1 DEF Node, Idle
<1>7. Becomes(s, e)
  BY <1>2, <1>4, <1>5, <1>6 DEF Becomes, Serving
<1> QED
  BY <1>2, <1>3, <1>7

LEMMA ApplyDropsBecomes ==
  ASSUME Types, NEW s \in ServerIds, ApplyDrops(s)
  PROVE  \E e : Becomes(s, e)
<1> DEFINE D == DOMAIN nodes[s].store \ nodes[s].hb.chunks
           f == [c \in D |-> nodes[s].store[c]]
           e == [nodes[s] EXCEPT !.store = f, !.hb = Idle]
<1>1. nodes[s] \in Node /\ DOMAIN nodes = ServerIds
  BY TypeFacts
<1>2. nodes' = [nodes EXCEPT ![s] = e] /\ UNCHANGED puts /\ nodes[s].hb.stage = "answered"
  BY DEF ApplyDrops
<1>3. f \in Stored
  <2>1. PICK E \in SUBSET ChunkIds : nodes[s].store \in [E -> Nat \X Nat]
    BY <1>1 DEF Node, Stored
  <2>2. D \in SUBSET ChunkIds /\ f \in [D -> Nat \X Nat]
    BY <2>1
  <2> QED
    BY <2>2 DEF Stored
<1>4. DOMAIN f = D /\ \A c \in D : f[c] = nodes[s].store[c]
  OBVIOUS
<1> HIDE DEF f
<1>5. e \in Node /\ e.hb.stage = "idle" /\ e.up = nodes[s].up /\ e.store = f
  BY <1>1, <1>3 DEF Node, Idle
<1> QED
  BY <1>2, <1>4, <1>5 DEF Becomes, Serving

(* What every step does, seen from outside: a step of the master, and      *)
(* types that stay right.                                                  *)
Good == [MasterNext]_masterVars /\ Types'

(* A step of the master that is one of its actions.                        *)
LEMMA MasterMoves ==
  ASSUME Types, MasterNext
  PROVE  /\ IInv' /\ ServerIds \subseteq ServerIds' /\ ChunkIds \subseteq ChunkIds'
         /\ [MasterNext]_masterVars
<1>1. IInv' /\ IInv
  BY StepKeeps DEF Types
<1> QED
  BY <1>1, MasterGrows

(* A heartbeat changes neither the number of servers nor that of chunks.   *)
LEMMA HeartbeatMoves ==
  ASSUME Types, NEW s \in ServerIds, NEW held \in SUBSET ChunkIds, Heartbeat(s, held)
  PROVE  /\ MasterNext /\ IInv'
         /\ ServerIds' = ServerIds /\ ChunkIds' = ChunkIds /\ Len(servers') = Len(servers)
<1>1. MasterNext
  BY DEF MasterNext
<1>2. servers' = [servers EXCEPT ![s].online = TRUE] /\ nextChunk' = nextChunk
  BY DEF Heartbeat
<1>3. Len(servers') = Len(servers)
  BY <1>2, MarkServer DEF Types, IInv
<1> QED
  BY <1>1, <1>2, <1>3, MasterMoves DEF ServerIds, ChunkIds

LEMMA ServerGood ==
  ASSUME Types, NEW s \in ServerIds,
         \/ \E how \in {"crashed", "aborted"} : Stop(s, how)
         \/ Report(s) \/ MasterHears(s) \/ ApplyDrops(s) \/ GiveUp(s)
  PROVE  Good /\ \E e : Becomes(s, e)
<1>1. PICK e : Becomes(s, e)
  BY StopBecomes, ReportBecomes, MasterHearsBecomes, ApplyDropsBecomes, GiveUpBecomes
<1>2. /\ [MasterNext]_masterVars /\ IInv' /\ Len(servers') = Len(servers)
      /\ ServerIds' = ServerIds /\ ChunkIds' = ChunkIds
  <2>1. CASE MasterHears(s)
    BY <2>1, MasterHearsBecomes, HeartbeatMoves
  <2>2. CASE UNCHANGED masterVars
    BY <2>2, MasterIdle
  <2> QED
    BY <2>1, <2>2 DEF Stop, Report, ApplyDrops, GiveUp
<1>3. NodesTyped'
  BY <1>1, <1>2, NodeChanges DEF Becomes
<1>4. PutsTyped'
  <2>1. Len(nodes') = Len(servers') /\ Len(nodes) = Len(servers) /\ Len(servers) \in Nat
    BY <1>3, TypeFacts DEF NodesTyped
  <2> QED
    BY <1>1, <1>2, <2>1, PutsStay DEF Becomes
<1>5. RestTyped'
  <2>1. late' \subseteq late \cup Unanswered(s) /\ (Fault \/ UNCHANGED faults)
    BY DEF Stop, Report, MasterHears, ApplyDrops, GiveUp
  <2> QED
    BY <1>2, <2>1, RestStays
<1> QED
  BY <1>1, <1>2, <1>3, <1>4, <1>5 DEF Good, Types

(* A new server: an empty store at a free address.                         *)
LEMMA StartGood ==
  ASSUME Types, NEW a \in Addrs, Start(a)
  PROVE  /\ Good /\ puts' = puts
         /\ ServerIds' = ServerIds \cup {Len(nodes) + 1} /\ Len(nodes) + 1 \notin ServerIds
         /\ \A s \in ServerIds : nodes'[s] = nodes[s]
         /\ nodes'[Len(nodes) + 1].hb.stage = "idle" /\ DOMAIN nodes'[Len(nodes) + 1].store = {}
         /\ servers'[Len(nodes) + 1].addr = a
<1> DEFINE e == [up |-> "serving", store |-> <<>>, hb |-> Idle]
           i == [addr |-> a, online |-> TRUE]
<1>1. /\ Len(servers) \in Nat /\ nodes \in Seq(Node) /\ Len(nodes) = Len(servers)
      /\ ServerIds = 1 .. Len(servers)
  BY TypeFacts
<1>2. /\ Register(a) /\ nodes' = Append(nodes, e) /\ servers' = Append(servers, i)
      /\ UNCHANGED <<puts, gets, late, faults>>
  BY DEF Start, Register
<1>3. MasterNext
  BY <1>2 DEF MasterNext
<1>4. IInv' /\ ServerIds \subseteq ServerIds' /\ ChunkIds \subseteq ChunkIds'
  BY <1>3, MasterMoves
<1>5. <<>> \in Stored
  <2>1. <<>> \in [{} -> Nat \X Nat]
    OBVIOUS
  <2> QED
    BY <2>1 DEF Stored
<1>6. e \in Node /\ i \in [addr : Addrs, online : BOOLEAN] /\ e.hb.stage = "idle" /\ i.addr = a
      /\ DOMAIN e.store = {}
  BY <1>5 DEF Node, Idle
<1>7. servers \in Seq([addr : Addrs, online : BOOLEAN])
  BY DEF Types, IInv, MasterTypeOK
<1> HIDE DEF e, i
<1>8. /\ nodes' \in Seq(Node) /\ Len(nodes') = Len(nodes) + 1 /\ nodes'[Len(nodes) + 1] = e
      /\ \A s \in 1 .. Len(nodes) : nodes'[s] = nodes[s]
  BY <1>1, <1>2, <1>6, AppendProperties
<1>9. Len(servers') = Len(servers) + 1 /\ servers'[Len(servers) + 1] = i
  BY <1>2, <1>6, <1>7, AppendProperties
<1>10. NodesTyped'
  <2>1. nodes' \in Seq(Node')
    BY <1>4, <1>8, NodeGrows, SeqMonotonic
  <2> QED
    BY <1>1, <1>8, <1>9, <2>1 DEF NodesTyped
<1>11. PutsTyped'
  BY <1>1, <1>2, <1>4, <1>8, PutsStay
<1>12. RestTyped'
  <2>1. [server : ServerIds, held : SUBSET ChunkIds] \subseteq [server : ServerIds', held : SUBSET ChunkIds']
    BY <1>4
  <2> QED
    BY <1>2, <2>1 DEF Types, RestTyped
<1>13. ServerIds' = ServerIds \cup {Len(nodes) + 1} /\ Len(nodes) + 1 \notin ServerIds
  BY <1>1, <1>9 DEF ServerIds
<1> QED
  BY <1>1, <1>2, <1>3, <1>4, <1>6, <1>8, <1>9, <1>10, <1>11, <1>12, <1>13 DEF Good, Types

(* Steps of the master alone.                                              *)
LEMMA LateGood ==
  ASSUME Types, NEW r \in late, MasterHearsLate(r)
  PROVE  Good /\ ServerIds' = ServerIds /\ UNCHANGED <<nodes, puts, gets>>
<1>1. r.server \in ServerIds /\ r.held \in SUBSET ChunkIds
  BY DEF Types, RestTyped
<1>2. Heartbeat(r.server, r.held) /\ late' = late \ {r} /\ UNCHANGED <<nodes, puts, gets, faults>>
  BY DEF MasterHearsLate
<1>3. /\ MasterNext /\ IInv' /\ Len(servers') = Len(servers)
      /\ ServerIds' = ServerIds /\ ChunkIds' = ChunkIds
  BY <1>1, <1>2, HeartbeatMoves
<1>4. Len(nodes) \in Nat
  BY TypeFacts
<1>5. NodesTyped' /\ PutsTyped'
  BY <1>2, <1>3, <1>4, NodesStay, PutsStay DEF Types
<1>6. RestTyped'
  BY <1>2, <1>3 DEF Types, RestTyped
<1> QED
  BY <1>2, <1>3, <1>5, <1>6 DEF Good, Types

LEMMA DetectTimeoutsGood ==
  ASSUME Types, NEW s \in ServerIds, DetectTimeouts(s)
  PROVE  Good /\ ServerIds' = ServerIds /\ UNCHANGED <<nodes, puts, gets>>
<1>1. /\ TimeOut(s) /\ UNCHANGED <<nodes, puts, gets, late>> /\ (Fault \/ UNCHANGED faults)
  BY DEF DetectTimeouts
<1>2. MasterNext
  BY <1>1 DEF MasterNext
<1>3. IInv'
  BY <1>2, MasterMoves
<1>4. servers' = [servers EXCEPT ![s].online = FALSE] /\ nextChunk' = nextChunk
  BY <1>1 DEF TimeOut
<1>5. Len(servers') = Len(servers)
  BY <1>4, MarkServer DEF Types, IInv
<1>6. ServerIds' = ServerIds /\ ChunkIds' = ChunkIds
  BY <1>4, <1>5 DEF ServerIds, ChunkIds
<1>7. Len(nodes) \in Nat
  BY TypeFacts
<1>8. NodesTyped' /\ PutsTyped' /\ RestTyped'
  BY <1>1, <1>5, <1>6, <1>7, NodesStay, PutsStay, RestStays DEF Types
<1> QED
  BY <1>1, <1>2, <1>3, <1>6, <1>8 DEF Good, Types

LEMMA DeleteFileGood ==
  ASSUME Types, NEW p \in Paths, DeleteFile(p)
  PROVE  Good /\ ServerIds' = ServerIds /\ UNCHANGED <<nodes, puts, gets>>
<1>1. Delete(p) /\ UNCHANGED <<nodes, puts, gets, late, faults>>
  BY DEF DeleteFile
<1>2. MasterNext
  BY <1>1 DEF MasterNext
<1>3. IInv'
  BY <1>2, MasterMoves
<1>4. servers' = servers /\ ServerIds' = ServerIds /\ ChunkIds' = ChunkIds
  BY <1>1 DEF Delete, ServerIds, ChunkIds
<1>5. Len(nodes) \in Nat
  BY TypeFacts
<1>6. NodesTyped' /\ PutsTyped'
  BY <1>1, <1>4, <1>5, NodesStay, PutsStay DEF Types
<1>7. RestTyped'
  BY <1>1, <1>4 DEF Types, RestTyped
<1> QED
  BY <1>1, <1>2, <1>3, <1>4, <1>6, <1>7 DEF Good, Types

(* Gets leave all of it as it is.                                          *)
LEMMA GetGood ==
  ASSUME Types, UNCHANGED <<masterVars, nodes, puts, late, faults>>
  PROVE  Good /\ ServerIds' = ServerIds
<1>1. IInv' /\ ServerIds' = ServerIds /\ ChunkIds' = ChunkIds /\ servers' = servers
      /\ [MasterNext]_masterVars
  BY MasterIdle
<1>2. Len(nodes) \in Nat
  BY TypeFacts
<1>3. NodesTyped' /\ PutsTyped'
  BY <1>1, <1>2, NodesStay, PutsStay DEF Types
<1>4. RestTyped'
  BY <1>1 DEF Types, RestTyped
<1> QED
  BY <1>1, <1>3, <1>4 DEF Good, Types

-----------------------------------------------------------------------------
(* Steps of the puts *)

(* One put goes on, as itself.                                             *)
Moved(w) ==
  /\ DOMAIN puts' = DOMAIN puts /\ \A v \in DOMAIN puts : v # w => puts'[v] = puts[v]
  /\ puts'[w].path = puts[w].path /\ puts'[w].chunks = puts[w].chunks
  /\ ServerIds' = ServerIds /\ servers' = servers /\ chunks' = chunks /\ files' = files

LEMMA PutMoves ==
  ASSUME Types, NEW w \in DOMAIN puts, NEW e \in Upload, puts' = [puts EXCEPT ![w] = e],
         UNCHANGED <<masterVars, late, faults>>, NodesTyped',
         e.path = puts[w].path, e.chunks = puts[w].chunks,
         \/ e.at \in DOMAIN e.chunks
         \/ e.chunks = <<>> /\ e.state # "writing" /\ e.write.leg = "none" /\ e.write.copy = "none",
         e.write.primary \in 0 .. Len(nodes), e.write.secondary \in 0 .. Len(nodes),
         e.write.leg # "none" => e.write.primary \in ServerIds,
         e.write.copy # "none" => e.write.secondary \in ServerIds
  PROVE  Good /\ Moved(w) /\ puts'[w] = e
<1>1. /\ IInv' /\ ServerIds' = ServerIds /\ ChunkIds' = ChunkIds /\ servers' = servers
      /\ chunks' = chunks /\ files' = files /\ [MasterNext]_masterVars
  BY MasterIdle
<1>2. Len(nodes') = Len(nodes)
  BY <1>1 DEF Types, NodesTyped
<1>3. puts'[w] = e
  OBVIOUS
<1>4. Underway(w)'
  BY <1>1, <1>2, <1>3 DEF Underway
<1>5. /\ PutsTyped' /\ DOMAIN puts' = DOMAIN puts
      /\ \A v \in DOMAIN puts : v # w => puts'[v] = puts[v]
  BY <1>2, <1>4, PutChanges
<1>6. RestTyped'
  BY <1>1 DEF Types, RestTyped
<1> QED
  BY <1>1, <1>3, <1>5, <1>6 DEF Good, Types, Moved

(* The fields of a put.                                                    *)
LEMMA PutFields ==
  ASSUME Types, NEW w \in DOMAIN puts
  PROVE  /\ puts[w] \in Upload /\ Underway(w)
         /\ Len(puts[w].chunks) \in Nat /\ DOMAIN puts[w].chunks = 1 .. Len(puts[w].chunks)
         /\ \A i \in DOMAIN puts[w].chunks :
               puts[w].chunks[i] \in [id : ChunkIds, primary : Addrs, secondary : Addrs]
<1>1. puts[w] \in Upload /\ Underway(w)
  BY TypeFacts DEF Types, PutsTyped
<1>2. puts[w].chunks \in Seq([id : ChunkIds, primary : Addrs, secondary : Addrs])
  BY <1>1 DEF Upload
<1> QED
  BY <1>1, <1>2, LenProperties, ElementOfSeq

(* The step only changes the write of a put.                               *)
LEMMA WriteMoves ==
  ASSUME Types, NEW w \in DOMAIN puts, NEW e, Writes(w, e), NodesTyped',
         puts[w].at \in DOMAIN puts[w].chunks,
         e \in [primary : Nat, leg : {"none", "queued", "stored", "forwarded", "written", "error"},
                secondary : Nat, copy : {"none", "queued", "stored"}],
         e.primary \in 0 .. Len(nodes), e.secondary \in 0 .. Len(nodes),
         e.leg # "none" => e.primary \in ServerIds,
         e.copy # "none" => e.secondary \in ServerIds
  PROVE  /\ Good /\ Moved(w)
         /\ puts'[w].write = e /\ puts'[w].at = puts[w].at /\ puts'[w].state = puts[w].state
<1> DEFINE u == [puts[w] EXCEPT !.write = e]
<1>1. puts[w] \in Upload
  BY PutFields
<1>2. puts' = [puts EXCEPT ![w] = u] /\ UNCHANGED <<masterVars, late, faults>>
  BY DEF Writes
<1>3. /\ u \in Upload /\ u.write = e /\ u.at = puts[w].at /\ u.state = puts[w].state
      /\ u.path = puts[w].path /\ u.chunks = puts[w].chunks
  BY <1>1 DEF Upload
<1> HIDE DEF u
<1> QED
  BY <1>2, <1>3, PutMoves

(* The node that stores a chunk.                                           *)
LEMMA StoresNode ==
  ASSUME Types, NEW w \in DOMAIN puts, puts[w].at \in DOMAIN puts[w].chunks,
         NEW s \in ServerIds, Stores(s, w), UNCHANGED masterVars
  PROVE  LET c == Chunk(w).id IN
         /\ NodesTyped' /\ \A t \in ServerIds : t # s => nodes'[t] = nodes[t]
         /\ nodes'[s].up = nodes[s].up /\ nodes'[s].hb = nodes[s].hb
         /\ DOMAIN nodes'[s].store = DOMAIN nodes[s].store \cup {c}
         /\ nodes'[s].store[c] = Bytes(w, puts[w].at)
         /\ \A d \in DOMAIN nodes[s].store : d # c => nodes'[s].store[d] = nodes[s].store[d]
<1> DEFINE c == Chunk(w).id
           b == Bytes(w, puts[w].at)
           f == [d \in DOMAIN nodes[s].store \cup {c} |-> IF d = c THEN b ELSE nodes[s].store[d]]
           e == [nodes[s] EXCEPT !.store = f]
<1>1. nodes[s] \in Node /\ DOMAIN nodes = ServerIds /\ w \in Nat /\ puts[w].at \in Nat
  BY TypeFacts DEF Upload
<1>2. c \in ChunkIds /\ b \in Nat \X Nat
  BY <1>1, PutFields DEF Chunk, Bytes
<1>3. nodes' = [nodes EXCEPT ![s] = e]
  BY DEF Stores
<1>4. ChunkIds' = ChunkIds /\ servers' = servers
  BY MasterIdle
<1> HIDE DEF c, b
<1>5. f \in Stored
  <2>1. PICK E \in SUBSET ChunkIds : nodes[s].store \in [E -> Nat \X Nat]
    BY <1>1 DEF Node, Stored
  <2>2. E \cup {c} \in SUBSET ChunkIds /\ f \in [E \cup {c} -> Nat \X Nat]
    BY <1>2, <2>1
  <2> QED
    BY <2>2 DEF Stored
<1>6. /\ DOMAIN f = DOMAIN nodes[s].store \cup {c} /\ f[c] = b
      /\ \A d \in DOMAIN nodes[s].store : d # c => f[d] = nodes[s].store[d]
  OBVIOUS
<1> HIDE DEF f
<1>7. e \in Node /\ e.store = f /\ e.up = nodes[s].up /\ e.hb = nodes[s].hb
  BY <1>1, <1>5 DEF Node
<1> HIDE DEF e
<1>8. NodesTyped' /\ nodes'[s] = e /\ \A t \in ServerIds : t # s => nodes'[t] = nodes[t]
  BY <1>3, <1>4, <1>7, NodeChanges
<1> QED
  BY <1>6, <1>7, <1>8 DEF c, b

(* The nodes are as they were.                                             *)
LEMMA NodesSame ==
  ASSUME Types, UNCHANGED <<masterVars, nodes>>
  PROVE  NodesTyped'
BY MasterIdle, NodesStay DEF Types

(* The client is told of an error, or is gone.                             *)
LEMMA FailsGood ==
  ASSUME Types, NEW w \in DOMAIN puts, Fails(w)
  PROVE  /\ Good /\ Moved(w) /\ nodes' = nodes
         /\ puts'[w].write = puts[w].write /\ puts'[w].at = puts[w].at /\ puts'[w].state = "failed"
<1> DEFINE u == [puts[w] EXCEPT !.state = "failed"]
<1>1. puts[w] \in Upload /\ Underway(w)
  BY PutFields
<1>2. puts' = [puts EXCEPT ![w] = u] /\ UNCHANGED <<masterVars, nodes, late, faults>>
  BY DEF Fails
<1>3. /\ u \in Upload /\ u.write = puts[w].write /\ u.at = puts[w].at /\ u.state = "failed"
      /\ u.path = puts[w].path /\ u.chunks = puts[w].chunks
  BY <1>1 DEF Upload
<1>4. NodesTyped'
  BY <1>2, NodesSame
<1> HIDE DEF u
<1> QED
  BY <1>1, <1>2, <1>3, <1>4, PutMoves DEF Underway

(* A put that has not failed has a chunk to send; so has one that sends.   *)
LEMMA AtChunk ==
  ASSUME Types, NEW w \in DOMAIN puts,
         puts[w].state = "writing" \/ puts[w].write.leg # "none" \/ puts[w].write.copy # "none"
  PROVE  puts[w].at \in DOMAIN puts[w].chunks
BY PutFields DEF Underway

LEMMA SendChunkGood ==
  ASSUME Types, NEW w \in DOMAIN puts, SendChunk(w)
  PROVE  /\ Good /\ Moved(w) /\ nodes' = nodes /\ puts'[w].at = puts[w].at
         /\ puts[w].state = "writing" /\ puts[w].write.leg = "none"
         /\ \/ \E s \in At(Chunk(w).primary) :
                 /\ puts'[w].write = [NoWrite EXCEPT !.primary = s, !.leg = "queued"]
                 /\ puts'[w].state = puts[w].state
            \/ puts'[w].write = puts[w].write /\ puts'[w].state = "failed"
<1>1. puts[w].state = "writing" /\ puts[w].write.leg = "none"
  BY DEF SendChunk
<1>2. CASE Fails(w)
  BY <1>1, <1>2, FailsGood
<1>3. ASSUME NEW s \in At(Chunk(w).primary),
             Writes(w, [NoWrite EXCEPT !.primary = s, !.leg = "queued"]), UNCHANGED nodes
      PROVE  /\ Good /\ Moved(w) /\ nodes' = nodes /\ puts'[w].at = puts[w].at
             /\ puts'[w].write = [NoWrite EXCEPT !.primary = s, !.leg = "queued"]
             /\ puts'[w].state = puts[w].state
  <2> DEFINE e == [NoWrite EXCEPT !.primary = s, !.leg = "queued"]
  <2>1. s \in ServerIds /\ s \in Nat /\ s \in 0 .. Len(nodes) /\ 0 \in 0 .. Len(nodes)
    BY TypeFacts DEF At
  <2>2. /\ e.primary = s /\ e.leg = "queued" /\ e.secondary = 0 /\ e.copy = "none"
        /\ e \in [primary : Nat, leg : {"none", "queued", "stored", "forwarded", "written", "error"},
                  secondary : Nat, copy : {"none", "queued", "stored"}]
    BY <2>1 DEF NoWrite
  <2>3. NodesTyped' /\ puts[w].at \in DOMAIN puts[w].chunks
    BY <1>1, <1>3, NodesSame, AtChunk DEF Writes
  <2> HIDE DEF e
  <2>4. Writes(w, e)
    BY <1>3 DEF e
  <2>5. /\ Good /\ Moved(w)
        /\ puts'[w].write = e /\ puts'[w].at = puts[w].at /\ puts'[w].state = puts[w].state
    BY <2>1, <2>2, <2>3, <2>4, WriteMoves
  <2> QED
    BY <1>3, <2>5 DEF e
<1> QED
  BY <1>1, <1>2, <1>3 DEF SendChunk

LEMMA PrimaryStoresGood ==
  ASSUME Types, NEW w \in DOMAIN puts, PrimaryStores(w)
  PROVE  /\ Good /\ Moved(w) /\ puts'[w].at = puts[w].at /\ puts'[w].state = puts[w].state
         /\ puts[w].write.leg = "queued" /\ puts[w].at \in DOMAIN puts[w].chunks
         /\ puts[w].write.primary \in ServerIds
         /\ Stores(puts[w].write.primary, w) /\ UNCHANGED masterVars
         /\ puts'[w].write.primary = puts[w].write.primary /\ puts'[w].write.leg = "stored"
         /\ puts'[w].write.secondary = puts[w].write.secondary
         /\ puts'[w].write.copy = puts[w].write.copy
<1> DEFINE e == [puts[w].write EXCEPT !.leg = "stored"]
<1>1. /\ puts[w].write.leg = "queued" /\ Stores(puts[w].write.primary, w) /\ Writes(w, e)
      /\ UNCHANGED masterVars
  BY DEF PrimaryStores, Writes
<1>2. puts[w] \in Upload /\ Underway(w) /\ puts[w].at \in DOMAIN puts[w].chunks
  BY <1>1, PutFields, AtChunk
<1>3. /\ puts[w].write.primary \in ServerIds
      /\ puts[w].write.primary \in 0 .. Len(nodes) /\ puts[w].write.secondary \in 0 .. Len(nodes)
      /\ puts[w].write.copy # "none" => puts[w].write.secondary \in ServerIds
  BY <1>1, <1>2 DEF Underway
<1>4. NodesTyped'
  BY <1>1, <1>2, <1>3, StoresNode
<1>5. /\ e.primary = puts[w].write.primary /\ e.leg = "stored"
      /\ e.secondary = puts[w].write.secondary /\ e.copy = puts[w].write.copy
      /\ e \in [primary : Nat, leg : {"none", "queued", "stored", "forwarded", "written", "error"},
                secondary : Nat, copy : {"none", "queued", "stored"}]
  BY <1>2 DEF Upload
<1> HIDE DEF e
<1>6. /\ Good /\ Moved(w)
      /\ puts'[w].write = e /\ puts'[w].at = puts[w].at /\ puts'[w].state = puts[w].state
  BY <1>1, <1>2, <1>3, <1>4, <1>5, WriteMoves
<1> QED
  BY <1>1, <1>2, <1>3, <1>5, <1>6

LEMMA SecondaryStoresGood ==
  ASSUME Types, NEW w \in DOMAIN puts, SecondaryStores(w)
  PROVE  /\ Good /\ Moved(w) /\ puts'[w].at = puts[w].at /\ puts'[w].state = puts[w].state
         /\ puts[w].write.copy = "queued" /\ puts[w].at \in DOMAIN puts[w].chunks
         /\ puts[w].write.secondary \in ServerIds
         /\ Stores(puts[w].write.secondary, w) /\ UNCHANGED masterVars
         /\ puts'[w].write.primary = puts[w].write.primary
         /\ puts'[w].write.leg = puts[w].write.leg
         /\ puts'[w].write.secondary = puts[w].write.secondary /\ puts'[w].write.copy = "stored"
<1> DEFINE e == [puts[w].write EXCEPT !.copy = "stored"]
<1>1. /\ puts[w].write.copy = "queued" /\ Stores(puts[w].write.secondary, w) /\ Writes(w, e)
      /\ UNCHANGED masterVars
  BY DEF SecondaryStores, Writes
<1>2. puts[w] \in Upload /\ Underway(w) /\ puts[w].at \in DOMAIN puts[w].chunks
  BY <1>1, PutFields, AtChunk
<1>3. /\ puts[w].write.secondary \in ServerIds
      /\ puts[w].write.primary \in 0 .. Len(nodes) /\ puts[w].write.secondary \in 0 .. Len(nodes)
      /\ puts[w].write.leg # "none" => puts[w].write.primary \in ServerIds
  BY <1>1, <1>2 DEF Underway
<1>4. NodesTyped'
  BY <1>1, <1>2, <1>3, StoresNode
<1>5. /\ e.primary = puts[w].write.primary /\ e.leg = puts[w].write.leg
      /\ e.secondary = puts[w].write.secondary /\ e.copy = "stored"
      /\ e \in [primary : Nat, leg : {"none", "queued", "stored", "forwarded", "written", "error"},
                secondary : Nat, copy : {"none", "queued", "stored"}]
  BY <1>2 DEF Upload
<1> HIDE DEF e
<1>6. /\ Good /\ Moved(w)
      /\ puts'[w].write = e /\ puts'[w].at = puts[w].at /\ puts'[w].state = puts[w].state
  BY <1>1, <1>2, <1>3, <1>4, <1>5, WriteMoves
<1> QED
  BY <1>1, <1>2, <1>3, <1>5, <1>6

LEMMA ForwardGood ==
  ASSUME Types, NEW w \in DOMAIN puts, Forward(w)
  PROVE  /\ Good /\ Moved(w) /\ nodes' = nodes
         /\ puts'[w].at = puts[w].at /\ puts'[w].state = puts[w].state
         /\ puts[w].write.leg = "stored" /\ puts[w].at \in DOMAIN puts[w].chunks
         /\ puts'[w].write.primary = puts[w].write.primary
         /\ \/ /\ puts'[w].write.leg = "forwarded" /\ puts'[w].write.copy = "queued"
               /\ puts'[w].write.secondary \in At(Chunk(w).secondary)
            \/ /\ puts'[w].write.leg = "error" /\ puts'[w].write.copy = puts[w].write.copy
               /\ puts'[w].write.secondary = puts[w].write.secondary
<1> DEFINE x == puts[w].write
           e(t) == [x EXCEPT !.leg = "forwarded", !.secondary = t, !.copy = "queued"]
           f == [x EXCEPT !.leg = "error"]
<1>1. x.leg = "stored" /\ UNCHANGED <<masterVars, nodes>>
  BY DEF Forward, Writes
<1>2. puts[w] \in Upload /\ Underway(w) /\ puts[w].at \in DOMAIN puts[w].chunks
  BY <1>1, PutFields, AtChunk
<1>3. /\ x.primary \in ServerIds
      /\ x.primary \in 0 .. Len(nodes) /\ x.secondary \in 0 .. Len(nodes)
      /\ x.copy # "none" => x.secondary \in ServerIds
  BY <1>1, <1>2 DEF Underway
<1>4. NodesTyped'
  BY <1>1, NodesSame
<1>5. ASSUME NEW t \in At(Chunk(w).secondary), Writes(w, e(t))
      PROVE  /\ Good /\ Moved(w) /\ puts'[w].at = puts[w].at /\ puts'[w].state = puts[w].state
             /\ puts'[w].write.primary = x.primary /\ puts'[w].write.leg = "forwarded"
             /\ puts'[w].write.secondary = t /\ puts'[w].write.copy = "queued"
  <2> DEFINE y == e(t)
  <2>1. t \in ServerIds /\ t \in Nat /\ t \in 0 .. Len(nodes)
    BY TypeFacts DEF At
  <2>2. /\ y.primary = x.primary /\ y.leg = "forwarded" /\ y.secondary = t /\ y.copy = "queued"
        /\ y \in [primary : Nat, leg : {"none", "queued", "stored", "forwarded", "written", "error"},
                  secondary : Nat, copy : {"none", "queued", "stored"}]
    BY <1>2, <2>1 DEF Upload
  <2>3. Writes(w, y)
    BY <1>5
  <2> HIDE DEF y
  <2>4. /\ Good /\ Moved(w)
        /\ puts'[w].write = y /\ puts'[w].at = puts[w].at /\ puts'[w].state = puts[w].state
    BY <1>2, <1>3, <1>4, <2>1, <2>2, <2>3, WriteMoves
  <2> QED
    BY <2>2, <2>4
<1>6. ASSUME Writes(w, f)
      PROVE  /\ Good /\ Moved(w) /\ puts'[w].at = puts[w].at /\ puts'[w].state = puts[w].state
             /\ puts'[w].write.primary = x.primary /\ puts'[w].write.leg = "error"
             /\ puts'[w].write.secondary = x.secondary /\ puts'[w].write.copy = x.copy
  <2>2. /\ f.primary = x.primary /\ f.leg = "error" /\ f.secondary = x.secondary /\ f.copy = x.copy
        /\ f \in [primary : Nat, leg : {"none", "queued", "stored", "forwarded", "written", "error"},
                  secondary : Nat, copy : {"none", "queued", "stored"}]
    BY <1>2 DEF Upload
  <2> HIDE DEF f
  <2>4. /\ Good /\ Moved(w)
        /\ puts'[w].write = f /\ puts'[w].at = puts[w].at /\ puts'[w].state = puts[w].state
    BY <1>2, <1>3, <1>4, <1>6, <2>2, WriteMoves
  <2> QED
    BY <2>2, <2>4
<1>7. \/ \E t \in At(Chunk(w).secondary) : Writes(w, e(t))
      \/ Writes(w, f)
  BY DEF Forward
<1> HIDE DEF e, f
<1> QED
  BY <1>1, <1>2, <1>5, <1>6, <1>7

LEMMA ForwardAnsweredGood ==
  ASSUME Types, NEW w \in DOMAIN puts, ForwardAnswered(w)
  PROVE  /\ Good /\ Moved(w) /\ nodes' = nodes
         /\ puts'[w].at = puts[w].at /\ puts'[w].state = puts[w].state
         /\ puts[w].write.leg = "forwarded" /\ puts[w].at \in DOMAIN puts[w].chunks
         /\ puts'[w].write.primary = puts[w].write.primary
         /\ puts'[w].write.secondary = puts[w].write.secondary
         /\ \/ /\ puts[w].write.copy = "stored"
               /\ puts'[w].write.leg = "written" /\ puts'[w].write.copy = "stored"
            \/ puts'[w].write.leg = "error" /\ puts'[w].write.copy = "none"
<1> DEFINE x == puts[w].write
           e == [x EXCEPT !.leg = "written"]
           f == [x EXCEPT !.leg = "error", !.copy = "none"]
           AnyWrite == [primary : Nat, leg : {"none", "queued", "stored", "forwarded", "written", "error"},
                    secondary : Nat, copy : {"none", "queued", "stored"}]
<1>1. /\ x.leg = "forwarded" /\ UNCHANGED <<masterVars, nodes>>
      /\ (x.copy = "stored" /\ Writes(w, e)) \/ Writes(w, f)
  BY DEF ForwardAnswered, Writes
<1>2. puts[w] \in Upload /\ Underway(w) /\ puts[w].at \in DOMAIN puts[w].chunks
  BY <1>1, PutFields, AtChunk
<1>3. /\ x.primary \in ServerIds
      /\ x.primary \in 0 .. Len(nodes) /\ x.secondary \in 0 .. Len(nodes)
      /\ x.copy # "none" => x.secondary \in ServerIds
  BY <1>1, <1>2 DEF Underway
<1>4. NodesTyped'
  BY <1>1, NodesSame
<1>5. /\ e.primary = x.primary /\ e.leg = "written" /\ e.secondary = x.secondary /\ e.copy = x.copy
      /\ e \in AnyWrite
  BY <1>2 DEF Upload
<1>6. /\ f.primary = x.primary /\ f.leg = "error" /\ f.secondary = x.secondary /\ f.copy = "none"
      /\ f \in AnyWrite
  BY <1>2 DEF Upload
<1> HIDE DEF e, f
<1>7. ASSUME Writes(w, e)
      PROVE  /\ Good /\ Moved(w)
             /\ puts'[w].write = e /\ puts'[w].at = puts[w].at /\ puts'[w].state = puts[w].state
  BY <1>2, <1>3, <1>4, <1>5, <1>7, WriteMoves
<1>8. ASSUME Writes(w, f)
      PROVE  /\ Good /\ Moved(w)
             /\ puts'[w].write = f /\ puts'[w].at = puts[w].at /\ puts'[w].state = puts[w].state
  BY <1>2, <1>3, <1>4, <1>6, <1>8, WriteMoves
<1> QED
  BY <1>1, <1>2, <1>5, <1>6, <1>7, <1>8

LEMMA ChunkWrittenGood ==
  ASSUME Types, NEW w \in DOMAIN puts, ChunkWritten(w)
  PROVE  /\ Good /\ Moved(w) /\ nodes' = nodes /\ puts'[w].write = NoWrite
         /\ puts[w].write.leg = "written" /\ puts[w].state = "writing"
         /\ puts[w].at \in DOMAIN puts[w].chunks
         /\ \/ /\ puts[w].at = Len(puts[w].chunks)
               /\ puts'[w].at = puts[w].at /\ puts'[w].state = "acked"
            \/ /\ puts[w].at # Len(puts[w].chunks)
               /\ puts'[w].at = puts[w].at + 1 /\ puts'[w].state = "writing"
<1> DEFINE last == puts[w].at = Len(puts[w].chunks)
           u == [puts[w] EXCEPT !.at = IF last THEN @ ELSE @ + 1, !.write = NoWrite,
                                !.state = IF last THEN "acked" ELSE @]
<1>1. /\ puts[w].write.leg = "written" /\ puts[w].state = "writing"
      /\ puts' = [puts EXCEPT ![w] = u] /\ UNCHANGED <<masterVars, nodes, late, faults>>
  BY DEF ChunkWritten
<1>2. /\ puts[w] \in Upload /\ puts[w].at \in DOMAIN puts[w].chunks
      /\ Len(puts[w].chunks) \in Nat /\ DOMAIN puts[w].chunks = 1 .. Len(puts[w].chunks)
  BY <1>1, PutFields, AtChunk
<1>3. /\ NoWrite.primary = 0 /\ NoWrite.secondary = 0 /\ NoWrite.leg = "none" /\ NoWrite.copy = "none"
      /\ NoWrite \in [primary : Nat,
                      leg : {"none", "queued", "stored", "forwarded", "written", "error"},
                      secondary : Nat, copy : {"none", "queued", "stored"}]
  BY DEF NoWrite
<1>4. /\ u.write = NoWrite /\ u.path = puts[w].path /\ u.chunks = puts[w].chunks
      /\ u.at = IF last THEN puts[w].at ELSE puts[w].at + 1
      /\ u.state = IF last THEN "acked" ELSE "writing"
      /\ u \in Upload
  <2>1. CASE last
    BY <1>1, <1>2, <1>3, <2>1 DEF Upload
  <2>2. CASE ~last
    <3> DEFINE v == [puts[w] EXCEPT !.at = @ + 1, !.write = NoWrite]
    <3>1. puts[w].at + 1 \in Nat
      BY <1>2 DEF Upload
    <3>2. /\ v.write = NoWrite /\ v.path = puts[w].path /\ v.chunks = puts[w].chunks
          /\ v.at = puts[w].at + 1 /\ v.state = "writing" /\ v \in Upload
      BY <1>1, <1>2, <1>3, <3>1 DEF Upload
    <3>3. u = v
      BY <1>2, <2>2 DEF Upload
    <3> HIDE DEF u, v
    <3> QED
      BY <2>2, <3>2, <3>3
  <2> QED
    BY <2>1, <2>2
<1>5. u.at \in DOMAIN puts[w].chunks
  BY <1>2, <1>4
<1>6. NodesTyped' /\ 0 \in 0 .. Len(nodes)
  BY <1>1, NodesSame, TypeFacts
<1> HIDE DEF u
<1>7. Good /\ Moved(w) /\ puts'[w] = u
  BY <1>1, <1>3, <1>4, <1>5, <1>6, PutMoves
<1> QED
  BY <1>1, <1>2, <1>4, <1>7

LEMMA WriteFailsGood ==
  ASSUME Types, NEW w \in DOMAIN puts, WriteFails(w)
  PROVE  /\ Good /\ Moved(w) /\ nodes' = nodes
         /\ puts'[w].at = puts[w].at /\ puts'[w].state = "failed"
         /\ puts'[w].write.primary = puts[w].write.primary
         /\ puts'[w].write.secondary = puts[w].write.secondary
         /\ puts'[w].write.copy = puts[w].write.copy
         /\ puts'[w].write.leg \in {"none", puts[w].write.leg}
<1> DEFINE x == puts[w].write
           y == [x EXCEPT !.leg = IF @ \in {"error", "queued"} THEN "none" ELSE @]
           u == [puts[w] EXCEPT !.state = "failed", !.write = y]
<1>1. puts[w].state = "writing" /\ UNCHANGED <<masterVars, nodes, late, faults>>
  BY DEF WriteFails
<1>2. puts[w] \in Upload /\ Underway(w) /\ puts[w].at \in DOMAIN puts[w].chunks
  BY <1>1, PutFields, AtChunk
<1>3. puts' = [puts EXCEPT ![w] = u]
  BY DEF WriteFails
<1>4. /\ x.primary \in 0 .. Len(nodes) /\ x.secondary \in 0 .. Len(nodes)
      /\ x.leg # "none" => x.primary \in ServerIds
      /\ x.copy # "none" => x.secondary \in ServerIds
  BY <1>2 DEF Underway
<1>5. /\ y.primary = x.primary /\ y.secondary = x.secondary /\ y.copy = x.copy
      /\ y.leg \in {"none", x.leg}
      /\ y \in [primary : Nat, leg : {"none", "queued", "stored", "forwarded", "written", "error"},
                secondary : Nat, copy : {"none", "queued", "stored"}]
  BY <1>2 DEF Upload
<1> HIDE DEF y
<1>6. /\ u.write = y /\ u.path = puts[w].path /\ u.chunks = puts[w].chunks
      /\ u.at = puts[w].at /\ u.state = "failed" /\ u \in Upload
  BY <1>2, <1>5 DEF Upload
<1>7. NodesTyped'
  BY <1>1, NodesSame
<1> HIDE DEF u
<1>8. Good /\ Moved(w) /\ puts'[w] = u
  BY <1>1, <1>2, <1>3, <1>4, <1>5, <1>6, <1>7, PutMoves
<1> QED
  BY <1>1, <1>5, <1>6, <1>8

(* A new put: its chunks are new, and the master wants each on the servers *)
(* whose addresses the client is given, and nowhere else.                  *)
LEMMA PutGood ==
  ASSUME Types, NEW p \in Paths, NEW n \in 0 .. MaxChunks, Put(p, n)
  PROVE  /\ Good /\ ServerIds' = ServerIds /\ servers' = servers /\ nodes' = nodes
         /\ Allocate(p, n) /\ n \in Nat
         /\ DOMAIN puts' = DOMAIN puts \cup {Len(puts) + 1} /\ Len(puts) + 1 \notin DOMAIN puts
         /\ \A v \in DOMAIN puts : puts'[v] = puts[v]
         /\ puts'[Len(puts) + 1].path = p /\ puts'[Len(puts) + 1].write = NoWrite
         /\ puts'[Len(puts) + 1].at = 1
         /\ puts'[Len(puts) + 1].state = IF n = 0 THEN "acked" ELSE "writing"
         /\ puts'[Len(puts) + 1].chunks = Allocated(n)
         /\ DOMAIN Allocated(n) = 1 .. n
         /\ \A i \in 1 .. n :
              /\ Allocated(n)[i].id = nextChunk + i - 1
              /\ Allocated(n)[i].id \notin ChunkIds
              /\ \A s \in ServerIds, c \in {Allocated(n)[i].id} : Wanted(s, c)' =>
                    AddrOf(s) \in {Allocated(n)[i].primary, Allocated(n)[i].secondary}
<1> DEFINE new == Allocated(n)
           u == [path |-> p, chunks |-> new, at |-> 1, write |-> NoWrite,
                 state |-> IF n = 0 THEN "acked" ELSE "writing"]
           Reply == [id : ChunkIds', primary : Addrs, secondary : Addrs]
<1>1. /\ Allocate(p, n) /\ puts' = Append(puts, u) /\ UNCHANGED <<nodes, gets, late, faults>>
      /\ n \in Nat
  BY ChunksAssumption DEF Put
<1>2. /\ MasterTypeOK /\ CursorEven
      /\ Len(servers) \in Nat /\ ServerIds = 1 .. Len(servers)
      /\ servers \in Seq([addr : Addrs, online : BOOLEAN])
      /\ nodes \in Seq(Node) /\ Len(nodes) = Len(servers)
      /\ puts \in Seq(Upload) /\ DOMAIN puts = 1 .. Len(puts) /\ Len(puts) \in Nat
  BY TypeFacts DEF Types, IInv, MasterTypeOK
<1>3. MasterNext
  BY <1>1 DEF MasterNext
<1>4. IInv' /\ ChunkIds \subseteq ChunkIds'
  BY <1>3, MasterMoves
<1>5. /\ servers' = servers /\ ServerIds' = ServerIds /\ Cardinality(Online) >= ReplicationFactor
  BY <1>1 DEF Allocate, ServerIds
<1>6. /\ nextChunk' = nextChunk + n /\ nextChunk \in Nat
      /\ \A c \in nextChunk .. nextChunk + n - 1 : chunks'[c] = Placed(c - nextChunk)
  BY <1>1, <1>2, AllocateEffect
<1>7. \A s \in ServerIds : AddrOf(s) \in Addrs
  <2>1. \A s \in 1 .. Len(servers) : servers[s] \in [addr : Addrs, online : BOOLEAN]
    BY <1>2, ElementOfSeq
  <2> QED
    BY <1>2, <2>1 DEF AddrOf
<1>8. /\ DOMAIN new = 1 .. n
      /\ \A i \in 1 .. n : /\ new[i] = [id |-> nextChunk + i - 1,
                                        primary |-> AddrOf(Placed(i - 1).primary),
                                        secondary |-> AddrOf(Placed(i - 1).secondary)]
  BY DEF Allocated
<1>9. ASSUME NEW i \in 1 .. n
      PROVE  /\ new[i].id = nextChunk + i - 1 /\ new[i].id \notin ChunkIds
             /\ new[i] \in Reply
             /\ \A s \in ServerIds, d \in {new[i].id} : Wanted(s, d)' =>
                    AddrOf(s) \in {new[i].primary, new[i].secondary}
  <2> DEFINE c == nextChunk + i - 1
             k == i - 1
  <2>1. /\ k \in Nat /\ c \in nextChunk .. nextChunk + n - 1 /\ c - nextChunk = k
        /\ c \in ChunkIds' /\ c \notin ChunkIds
    BY <1>1, <1>6 DEF ChunkIds
  <2>2. new[i].id = c /\ new[i].primary = AddrOf(Placed(k).primary)
        /\ new[i].secondary = AddrOf(Placed(k).secondary)
        /\ new[i] = [id |-> c, primary |-> AddrOf(Placed(k).primary),
                     secondary |-> AddrOf(Placed(k).secondary)]
    BY <1>8
  <2>3. chunks'[c] = Placed(k)
    BY <1>6, <2>1
  <2> HIDE DEF c, k, new
  <2>4. Placed(k) \in ChunkInfo /\ Placed(k).holders = {Placed(k).primary, Placed(k).secondary}
    BY <1>2, <1>5, <2>1, PlacedApart
  <2>5. Placed(k).primary \in ServerIds /\ Placed(k).secondary \in ServerIds
    BY <2>4 DEF ChunkInfo
  <2>6. new[i] \in Reply
    BY <1>7, <2>1, <2>2, <2>5
  <2>8. c = nextChunk + i - 1
    BY DEF c
  <2>9. \A s \in ServerIds, d \in {new[i].id} :
           Wanted(s, d)' => AddrOf(s) \in {new[i].primary, new[i].secondary}
    <3> SUFFICES ASSUME NEW s \in ServerIds, NEW d, d = c, Wanted(s, d)'
                 PROVE  AddrOf(s) \in {new[i].primary, new[i].secondary}
      BY <2>2
    <3>1. s \in chunks'[c].holders
      BY DEF Wanted
    <3> QED
      BY <2>2, <2>3, <2>4, <3>1
  <2> QED
    BY <2>1, <2>2, <2>6, <2>8, <2>9
<1>10. new \in Seq(Reply)
  <2>1. new \in [1 .. n -> Reply]
    <3>1. \A i \in 1 .. n : new[i] \in Reply
      BY <1>9
    <3>2. new = [i \in 1 .. n |-> new[i]]
      BY DEF Allocated
    <3> HIDE DEF new
    <3> QED
      BY <3>1, <3>2
  <2> HIDE DEF new, Reply
  <2> QED
    BY <1>1, <2>1, SeqDef
<1> HIDE DEF new
<1>11. /\ NoWrite.primary = 0 /\ NoWrite.secondary = 0 /\ NoWrite.leg = "none" /\ NoWrite.copy = "none"
       /\ NoWrite \in [primary : Nat,
                       leg : {"none", "queued", "stored", "forwarded", "written", "error"},
                       secondary : Nat, copy : {"none", "queued", "stored"}]
  BY DEF NoWrite
<1>12. /\ u \in Upload' /\ u.path = p /\ u.chunks = new /\ u.at = 1 /\ u.write = NoWrite
       /\ u.state = IF n = 0 THEN "acked" ELSE "writing"
  BY <1>10, <1>11 DEF Upload
<1>13. u.at \in DOMAIN u.chunks \/ (u.chunks = <<>> /\ u.state # "writing")
  <2>1. CASE n = 0
    <3>1. DOMAIN new = {} /\ new \in Seq(Reply) /\ Len(new) = 0
      <4> HIDE DEF Reply
      <4> QED
        BY <1>8, <1>10, <2>1, LenProperties
    <3>2. new = <<>>
      <4> HIDE DEF Reply
      <4> QED
        BY <3>1, EmptySeq
    <3> QED
      BY <1>12, <2>1, <3>2
  <2>2. CASE n # 0
    <3>1. 1 \in 1 .. n
      BY <1>1, <2>2
    <3> QED
      BY <1>8, <1>12, <3>1
  <2> QED
    BY <2>1, <2>2
<1> HIDE DEF u
<1>14. puts \in Seq(Upload')
  BY <1>2, <1>4, NodeGrows, SeqMonotonic
<1>15. /\ puts' \in Seq(Upload') /\ Len(puts') = Len(puts) + 1 /\ DOMAIN puts' = 1 .. Len(puts) + 1
       /\ puts'[Len(puts) + 1] = u /\ \A v \in 1 .. Len(puts) : puts'[v] = puts[v]
  BY <1>1, <1>12, <1>14, AppendProperties, LenProperties
<1>16. \A v \in DOMAIN puts' : Underway(v)'
  <2> SUFFICES ASSUME NEW v \in DOMAIN puts' PROVE Underway(v)'
    OBVIOUS
  <2>1. CASE v \in DOMAIN puts
    <3>1. Underway(v)
      BY <2>1 DEF Types, PutsTyped
    <3> QED
      BY <1>1, <1>2, <1>5, <1>15, <2>1, <3>1 DEF Underway
  <2>2. CASE v = Len(puts) + 1
    BY <1>1, <1>2, <1>11, <1>12, <1>13, <1>15, <2>2 DEF Underway
  <2> QED
    BY <1>2, <1>15, <2>1, <2>2
<1>17. NodesTyped'
  BY <1>1, <1>4, <1>5, NodesStay DEF Types
<1>18. RestTyped'
  <2>1. [server : ServerIds, held : SUBSET ChunkIds] \subseteq [server : ServerIds', held : SUBSET ChunkIds']
    BY <1>4, <1>5
  <2> QED
    BY <1>1, <2>1 DEF Types, RestTyped
<1>19. Good
  BY <1>3, <1>4, <1>15, <1>16, <1>17, <1>18 DEF Good, Types, PutsTyped
<1>20. DOMAIN puts' = DOMAIN puts \cup {Len(puts) + 1} /\ Len(puts) + 1 \notin DOMAIN puts
  BY <1>2, <1>15
<1> QED
  BY <1>1, <1>2, <1>5, <1>8, <1>9, <1>12, <1>15, <1>19, <1>20 DEF new

(* Every step of the cluster is one of the master or none, and keeps the   *)
(* types.                                                                  *)
LEMMA NextGood == Types /\ [Next]_vars => Good
<1> SUFFICES ASSUME Types, [Next]_vars PROVE Good
  OBVIOUS
<1>1. ASSUME NEW a \in Addrs, Start(a) PROVE Good
  BY <1>1, StartGood
<1>2. ASSUME NEW s \in ServerIds, Server(s) \/ GiveUp(s) \/ \E how \in {"crashed", "aborted"} : Stop(s, how)
      PROVE  Good
  BY <1>2, ServerGood DEF Server
<1>3. ASSUME NEW s \in ServerIds, DetectTimeouts(s) PROVE Good
  BY <1>3, DetectTimeoutsGood
<1>4. ASSUME NEW r \in late, MasterHearsLate(r) PROVE Good
  BY <1>4, LateGood
<1>5. ASSUME NEW p \in Paths, Get(p) PROVE Good
  BY <1>5, GetGood DEF Get
<1>6. ASSUME NEW g \in DOMAIN gets, ReadChunk(g) PROVE Good
  BY <1>6, GetGood DEF ReadChunk
<1>7. ASSUME NEW p \in Paths, DeleteFile(p) PROVE Good
  BY <1>7, DeleteFileGood
<1>8. ASSUME NEW p \in Paths, NEW n \in 0 .. MaxChunks, Put(p, n) PROVE Good
  BY <1>8, PutGood
<1>9. ASSUME NEW w \in DOMAIN puts, Writer(w) \/ Quit(w) PROVE Good
  BY <1>9, SendChunkGood, PrimaryStoresGood, ForwardGood, SecondaryStoresGood,
     ForwardAnsweredGood, ChunkWrittenGood, WriteFailsGood, FailsGood DEF Writer, Quit
<1>10. CASE UNCHANGED vars
  BY <1>10, GetGood DEF vars
<1> QED
  BY <1>1, <1>2, <1>3, <1>4, <1>5, <1>6, <1>7, <1>8, <1>9, <1>10 DEF Next

LEMMA TypesHold == Spec => []Types
<1>1. Types /\ [Next]_vars => Types'
  BY NextGood DEF Good
<1> QED
  BY InitTypes, <1>1, PTL DEF Spec

(* Master, chunk servers and clients have the types they have in           *)
(* master.rs, chunk.rs and main.rs.                                        *)
THEOREM ClusterTypeCorrect == Spec => []TypeOK
<1>1. Types => TypeOK
  <2> SUFFICES ASSUME Types PROVE TypeOK
    OBVIOUS
  <2>1. /\ Len(nodes) = Len(servers) /\ MasterTypeOK
        /\ DOMAIN nodes = ServerIds /\ \A s \in ServerIds : nodes[s] \in Node
    BY TypeFacts DEF Types, IInv
  <2>2. ASSUME NEW s \in DOMAIN nodes
        PROVE  /\ nodes[s].up \in {"serving", "aborted", "crashed"}
               /\ DOMAIN nodes[s].store \subseteq ChunkIds
               /\ nodes[s].hb \in [stage : {"idle", "asked", "answered"}, chunks : SUBSET ChunkIds]
    <3>1. nodes[s].store \in Stored
      BY <2>1 DEF Node
    <3>2. PICK D \in SUBSET ChunkIds : nodes[s].store \in [D -> Nat \X Nat]
      BY <3>1 DEF Stored
    <3> QED
      BY <2>1, <3>2 DEF Node
  <2>3. ASSUME NEW w \in DOMAIN puts
        PROVE  /\ puts[w].state \in {"writing", "acked", "failed"}
               /\ puts[w].chunks = <<>> \/ puts[w].at \in DOMAIN puts[w].chunks
               /\ puts[w].write \in Write
    BY PutFields DEF Upload, Underway, Write
  <2> QED
    BY <2>1, <2>2, <2>3 DEF TypeOK, Types, RestTyped
<1> QED
  BY <1>1, TypesHold, PTL

(* The chunk servers and the clients are among those that GfsMaster        *)
(* allows: what holds of the master there holds in the cluster.            *)
THEOREM ClusterImplementsMaster == Spec => MasterSpec
<1>1. Init => MasterInit
  BY DEF Init
<1>2. Types /\ [Next]_vars => [MasterNext]_masterVars
  BY NextGood DEF Good
<1> QED
  BY <1>1, <1>2, TypesHold, PTL DEF Spec, MasterSpec

(* So the namespace is sound in the cluster, the replicas of a chunk are   *)
(* two servers, and what is not wanted is never wanted again.              *)
THEOREM ClusterNamespaceSound == Spec => []NamespaceSound
BY ClusterImplementsMaster, NamespaceAlwaysSound, PTL

THEOREM ClusterReplicasDistinct == Spec => []ReplicasDistinct
BY ClusterImplementsMaster, ReplicasAlwaysDistinct, PTL

THEOREM ClusterNeverWantedAgain == Spec => UnwantedForGood
BY ClusterImplementsMaster, NeverWantedAgain, PTL

-----------------------------------------------------------------------------
-----------------------------------------------------------------------------
(***************************************************************************)
(* No server is told to drop a chunk that the master wants on it, and the  *)
(* chunks whose write was acknowledged stay on the servers on which the    *)
(* master wants them: for every number of servers, puts and faults.        *)
(***************************************************************************)

(* At most one server accepts connections at an address.                   *)
AtUnique ==
  \A s, t \in ServerIds : Serving(s) /\ Serving(t) /\ AddrOf(s) = AddrOf(t) => s = t

(* No chunk is in two puts, or twice in one.                               *)
IdsUnique ==
  \A w, v \in DOMAIN puts : \A i \in DOMAIN puts[w].chunks, j \in DOMAIN puts[v].chunks :
     puts[w].chunks[i].id = puts[v].chunks[j].id => w = v /\ i = j

(* The client was given the addresses of the servers on which the master   *)
(* wants the chunk.                                                        *)
Placement ==
  \A w \in DOMAIN puts : \A i \in DOMAIN puts[w].chunks, s \in ServerIds :
     Wanted(s, puts[w].chunks[i].id) =>
        AddrOf(s) \in {puts[w].chunks[i].primary, puts[w].chunks[i].secondary}

(* A server that the master wants a chunk on and that has not stopped; and *)
(* that the chunk is there, with its bytes.                                *)
Replica(w, i, s) == Wanted(s, puts[w].chunks[i].id) /\ Serving(s)

Kept(w, i, s) ==
  Replica(w, i, s) =>
     /\ Holds(s, puts[w].chunks[i].id)
     /\ nodes[s].store[puts[w].chunks[i].id] = Bytes(w, i)

(* A write goes to the replica of its chunk that is at the address it was  *)
(* given, if that replica has not stopped: there is no other server there. *)
Tracks(w) ==
  \A s \in ServerIds : Replica(w, puts[w].at, s) =>
     /\ puts[w].write.leg # "none" /\ AddrOf(s) = Chunk(w).primary => s = puts[w].write.primary
     /\ puts[w].write.copy # "none" /\ AddrOf(s) = Chunk(w).secondary => s = puts[w].write.secondary

(* What a write has stored so far is still there.                          *)
Progress(w) ==
  /\ puts[w].write.leg \in {"stored", "forwarded", "written"} =>
        Kept(w, puts[w].at, puts[w].write.primary)
  /\ puts[w].write.copy = "stored" => Kept(w, puts[w].at, puts[w].write.secondary)
  /\ puts[w].write.leg = "written" => puts[w].write.copy = "stored"

Ahead(w) == \A i \in Acked(w), s \in ServerIds : Kept(w, i, s)

PutKept(w) == Tracks(w) /\ Progress(w) /\ Ahead(w)

WInv ==
  /\ Types
  /\ DropsUnwanted
  /\ AtUnique /\ IdsUnique /\ Placement
  /\ \A w \in DOMAIN puts : PutKept(w)

-----------------------------------------------------------------------------
(* What no step takes away *)

(* Chunks stay where they are wanted, servers where they are, and those    *)
(* that have stopped do not serve again; puts stay the puts they were.     *)
Frame ==
  /\ \A s \in ServerIds : AddrOf(s)' = AddrOf(s) /\ (Serving(s)' => Serving(s))
  /\ \A s \in ServerIds', c \in ChunkIds : Wanted(s, c)' => s \in ServerIds /\ Wanted(s, c)
  /\ DOMAIN puts \subseteq DOMAIN puts'
  /\ \A w \in DOMAIN puts : puts'[w].chunks = puts[w].chunks
  /\ \A w \in DOMAIN puts : \A i \in DOMAIN puts[w].chunks, s \in ServerIds :
        Kept(w, i, s) => Kept(w, i, s)'

(* The master's part of it.                                                *)
LEMMA WantedShrinks ==
  ASSUME Types, [MasterNext]_masterVars, NEW s \in ServerIds, NEW c \in ChunkIds, Wanted(s, c)'
  PROVE  Wanted(s, c)
<1>1. CASE UNCHANGED masterVars
  BY <1>1 DEF masterVars, Wanted
<1>2. CASE ~(UNCHANGED masterVars)
  <2>1. \A d \in ChunkIds, t \in ServerIds : ~Wanted(t, d) => ~Wanted(t, d)'
    BY <1>2, StepUnwanted DEF Types
  <2> QED
    BY <2>1
<1> QED
  BY <1>1, <1>2

(* Nothing is wanted on a server that has just come.                       *)
LEMMA NewcomersEmpty ==
  ASSUME Types, [Next]_vars, Good, NEW s \in ServerIds' \ ServerIds, NEW c \in ChunkIds
  PROVE  ~Wanted(s, c)'
<1>1. servers' # servers
  BY DEF ServerIds
<1>2. PICK a \in Addrs : Register(a)
  <2>1. \/ \E a \in Addrs : Register(a)
        \/ Len(servers') = Len(servers)
    <3>1. CASE UNCHANGED masterVars
      BY <1>1, <3>1 DEF masterVars
    <3>2. ASSUME NEW p \in Paths, Delete(p) \/ \E n \in 0 .. MaxChunks : Allocate(p, n)
          PROVE  FALSE
      BY <1>1, <3>2 DEF Delete, Allocate
    <3>3. ASSUME NEW t \in ServerIds, TimeOut(t) \/ \E held \in SUBSET ChunkIds : Heartbeat(t, held)
          PROVE  Len(servers') = Len(servers)
      <4>1. PICK b \in BOOLEAN : servers' = [servers EXCEPT ![t].online = b]
        BY <3>3 DEF TimeOut, Heartbeat
      <4> QED
        BY <4>1, MarkServer DEF Types, IInv
    <3> QED
      BY <3>1, <3>2, <3>3 DEF Good, MasterNext
  <2> QED
    BY <2>1 DEF ServerIds
<1>3. chunks' = chunks
  BY <1>2 DEF Register
<1>4. \A d \in DOMAIN chunks : chunks[d].holders \subseteq ServerIds
  BY DEF Types, IInv, MasterTypeOK, ChunkInfo
<1> QED
  BY <1>3, <1>4 DEF Wanted

(* All of it but the last conjunct.                                        *)
LEMMA FrameBut ==
  ASSUME Types, [Next]_vars, Good,
         \A s \in ServerIds : Serving(s)' => Serving(s),
         DOMAIN puts \subseteq DOMAIN puts',
         \A w \in DOMAIN puts : puts'[w].chunks = puts[w].chunks,
         \A w \in DOMAIN puts : \A i \in DOMAIN puts[w].chunks, s \in ServerIds :
            Kept(w, i, s) => Kept(w, i, s)'
  PROVE  Frame
<1>1. \A s \in ServerIds : AddrOf(s)' = AddrOf(s)
  BY MasterGrows DEF Types, Good
<1>2. ASSUME NEW s \in ServerIds', NEW c \in ChunkIds, Wanted(s, c)'
      PROVE  s \in ServerIds /\ Wanted(s, c)
  BY <1>2, NewcomersEmpty, WantedShrinks DEF Good
<1> QED
  BY <1>1, <1>2 DEF Frame

(* The chunks of puts were given out.                                      *)
LEMMA IdsGiven ==
  ASSUME Types, NEW w \in DOMAIN puts, NEW i \in DOMAIN puts[w].chunks
  PROVE  puts[w].chunks[i].id \in ChunkIds
BY PutFields

(* A step that leaves the stores alone.                                    *)
LEMMA KeptStays ==
  ASSUME Types, Good, NEW w \in DOMAIN puts, NEW i \in DOMAIN puts[w].chunks, NEW s \in ServerIds,
         puts'[w].chunks = puts[w].chunks, nodes'[s] = nodes[s], Kept(w, i, s)
  PROVE  Kept(w, i, s)'
<1> DEFINE c == puts[w].chunks[i].id
<1>1. c \in ChunkIds /\ puts'[w].chunks[i].id = c
  BY IdsGiven
<1>2. Wanted(s, c)' => Wanted(s, c)
  <2>1. \A d \in ChunkIds : Wanted(s, d)' => Wanted(s, d)
    BY WantedShrinks DEF Good
  <2> QED
    BY <1>1 , <2>1 DEF Wanted
<1> QED
  BY <1>1, <1>2 DEF Kept, Replica, Wanted, Serving, Holds, Bytes

LEMMA BecomesFrame ==
  ASSUME WInv, [Next]_vars, Good, NEW t \in ServerIds, NEW e, Becomes(t, e)
  PROVE  Frame
<1>0. Types /\ DropsUnwanted /\ DOMAIN nodes = ServerIds
  BY TypeFacts DEF WInv
<1>1. /\ nodes'[t] = e /\ puts' = puts /\ \A s \in ServerIds : s # t => nodes'[s] = nodes[s]
      /\ e.up = "serving" => Serving(t)
  BY <1>0 DEF Becomes
<1>2. \A s \in ServerIds : Serving(s)' => Serving(s)
  BY <1>1 DEF Serving
<1>3. ASSUME NEW w \in DOMAIN puts, NEW i \in DOMAIN puts[w].chunks, NEW s \in ServerIds,
             Kept(w, i, s)
      PROVE  Kept(w, i, s)'
  <2>1. CASE s # t
    BY <1>0, <1>1, <1>3, <2>1, KeptStays
  <2>2. CASE s = t
    <3>1. PICK c \in ChunkIds : c = puts[w].chunks[i].id /\ c = puts'[w].chunks[i].id
      BY <1>0, <1>1, IdsGiven
    <3> SUFFICES ASSUME Replica(w, i, s)'
                 PROVE  c \in DOMAIN e.store /\ e.store[c] = Bytes(w, i)
      BY <1>1, <2>2, <3>1 DEF Kept, Holds, Bytes
    <3>2. Wanted(s, c)' /\ e.up = "serving"
      BY <1>1, <2>2, <3>1 DEF Replica, Serving, Wanted
    <3>3. Wanted(s, c) /\ Serving(s)
      BY <1>0, <1>1, <2>2, <3>1, <3>2, WantedShrinks DEF Good
    <3>4. c \in DOMAIN nodes[s].store /\ nodes[s].store[c] = Bytes(w, i)
      BY <1>3, <3>1, <3>3 DEF Kept, Replica, Holds
    <3>5. ~(nodes[s].hb.stage = "answered" /\ c \in nodes[s].hb.chunks)
      BY <1>0, <3>3 DEF DropsUnwanted
    <3> QED
      BY <2>2, <3>2, <3>4, <3>5 DEF Becomes
  <2> QED
    BY <2>1, <2>2
<1> QED
  BY <1>0, <1>1, <1>2, <1>3, FrameBut

(* Storing a chunk changes no other, because no other put has its id.      *)
LEMMA StoresFrame ==
  ASSUME WInv, [Next]_vars, Good, NEW v \in DOMAIN puts, Moved(v), UNCHANGED masterVars,
         puts[v].at \in DOMAIN puts[v].chunks, NEW t \in ServerIds, Stores(t, v)
  PROVE  Frame
<1> DEFINE d == Chunk(v).id
<1>0. Types /\ IdsUnique
  BY DEF WInv
<1>1. /\ \A s \in ServerIds : s # t => nodes'[s] = nodes[s]
      /\ nodes'[t].up = nodes[t].up
      /\ DOMAIN nodes'[t].store = DOMAIN nodes[t].store \cup {d}
      /\ nodes'[t].store[d] = Bytes(v, puts[v].at)
      /\ \A c \in DOMAIN nodes[t].store : c # d => nodes'[t].store[c] = nodes[t].store[c]
  BY <1>0, StoresNode
<1>2. /\ DOMAIN puts' = DOMAIN puts /\ \A w \in DOMAIN puts : puts'[w].chunks = puts[w].chunks
  BY DEF Moved
<1>3. \A s \in ServerIds : Serving(s)' => Serving(s)
  BY <1>1 DEF Serving
<1>4. ASSUME NEW w \in DOMAIN puts, NEW i \in DOMAIN puts[w].chunks, NEW s \in ServerIds,
             Kept(w, i, s)
      PROVE  Kept(w, i, s)'
  <2>1. CASE s # t
    BY <1>0, <1>1, <1>2, <1>4, <2>1, KeptStays
  <2>2. CASE s = t
    <3>1. PICK c \in ChunkIds : c = puts[w].chunks[i].id /\ c = puts'[w].chunks[i].id
      BY <1>0, <1>2, IdsGiven
    <3>2. ASSUME d = c PROVE w = v /\ i = puts[v].at
      <4>1. puts[w].chunks[i].id = puts[v].chunks[puts[v].at].id
        BY <3>1, <3>2 DEF Chunk
      <4> QED
        BY <1>0, <4>1 DEF IdsUnique
    <3> HIDE DEF d
    <3> SUFFICES ASSUME Replica(w, i, s)'
                 PROVE  c \in DOMAIN nodes'[t].store /\ nodes'[t].store[c] = Bytes(w, i)
      BY <1>1, <2>2, <3>1 DEF Kept, Holds, Bytes
    <3>3. Wanted(s, c)' /\ Serving(s)
      BY <1>3, <3>1 DEF Replica, Wanted
    <3>4. Wanted(s, c)
      BY <1>0, <3>1, <3>3, WantedShrinks DEF Good
    <3>5. c \in DOMAIN nodes[s].store /\ nodes[s].store[c] = Bytes(w, i)
      BY <1>4, <3>1, <3>3, <3>4 DEF Kept, Replica, Holds
    <3> QED
      BY <1>1, <2>2, <3>2, <3>5
  <2> QED
    BY <2>1, <2>2
<1> HIDE DEF d
<1> QED
  BY <1>0, <1>2, <1>3, <1>4, FrameBut

(* A step that leaves the nodes alone, and one that adds a node.           *)
LEMMA QuietFrame ==
  ASSUME WInv, [Next]_vars, Good, \A s \in ServerIds : nodes'[s] = nodes[s],
         DOMAIN puts \subseteq DOMAIN puts',
         \A w \in DOMAIN puts : puts'[w].chunks = puts[w].chunks
  PROVE  Frame
<1>0. Types
  BY DEF WInv
<1>1. \A w \in DOMAIN puts : \A i \in DOMAIN puts[w].chunks, s \in ServerIds :
            Kept(w, i, s) => Kept(w, i, s)'
  BY <1>0, KeptStays
<1>2. \A s \in ServerIds : Serving(s)' => Serving(s)
  BY DEF Serving
<1> QED
  BY <1>0, <1>1, <1>2, FrameBut

-----------------------------------------------------------------------------
(* Each put *)

LEMMA ReplicaShrinks ==
  ASSUME Types, Frame, NEW w \in DOMAIN puts, NEW i \in DOMAIN puts[w].chunks,
         NEW s \in ServerIds', Replica(w, i, s)'
  PROVE  s \in ServerIds /\ Replica(w, i, s) /\ AddrOf(s)' = AddrOf(s)
<1>1. PICK c \in ChunkIds : c = puts[w].chunks[i].id /\ c = puts'[w].chunks[i].id
  BY IdsGiven DEF Frame
<1>2. Wanted(s, c)' /\ Serving(s)'
  BY <1>1 DEF Replica, Wanted
<1>3. s \in ServerIds /\ Wanted(s, c)
  BY <1>2 DEF Frame
<1> QED
  BY <1>1, <1>2, <1>3 DEF Frame, Replica

LEMMA KeptOn ==
  ASSUME Types, Frame, NEW w \in DOMAIN puts, NEW i \in DOMAIN puts[w].chunks,
         NEW s \in ServerIds', s \in ServerIds => Kept(w, i, s)
  PROVE  Kept(w, i, s)'
<1>1. CASE s \in ServerIds
  BY <1>1 DEF Frame
<1>2. CASE s \notin ServerIds
  <2>1. ~Replica(w, i, s)'
    BY <1>2, ReplicaShrinks
  <2> QED
    BY <2>1 DEF Kept
<1> QED
  BY <1>1, <1>2

(* Of chunks that were acknowledged before.                                *)
LEMMA AheadStays ==
  ASSUME Types, Frame, NEW w \in DOMAIN puts, Ahead(w), Acked(w)' \subseteq Acked(w)
  PROVE  Ahead(w)'
<1>1. Acked(w) \subseteq DOMAIN puts[w].chunks
  BY DEF Acked
<1> SUFFICES ASSUME NEW i \in Acked(w)', NEW s \in ServerIds' PROVE Kept(w, i, s)'
  BY DEF Ahead
<1>2. i \in Acked(w) /\ i \in DOMAIN puts[w].chunks
  BY <1>1
<1>3. s \in ServerIds => Kept(w, i, s)
  BY <1>2 DEF Ahead
<1> QED
  BY <1>2, <1>3, KeptOn

(* No acknowledgement is new.                                              *)
LEMMA NoneAcked ==
  ASSUME NEW w \in DOMAIN puts, puts'[w].chunks = puts[w].chunks, puts'[w].at = puts[w].at,
         puts'[w].state = "acked" => puts[w].state = "acked",
         puts'[w].write.leg = "written" => puts[w].write.leg = "written"
  PROVE  Acked(w)' \subseteq Acked(w)
BY DEF Acked

(* The servers that a write is on its way to stay the right ones, unless   *)
(* it is sent to another.                                                  *)
LEMMA TracksStay ==
  ASSUME Types, Frame, NEW w \in DOMAIN puts, Tracks(w), puts[w].at \in DOMAIN puts[w].chunks,
         puts'[w].at = puts[w].at,
         puts'[w].write.leg # "none" =>
            puts[w].write.leg # "none" /\ puts'[w].write.primary = puts[w].write.primary,
         puts'[w].write.copy # "none" =>
            puts[w].write.copy # "none" /\ puts'[w].write.secondary = puts[w].write.secondary
  PROVE  Tracks(w)'
<1>1. puts'[w].chunks = puts[w].chunks
  BY DEF Frame
<1>2. Chunk(w)' = Chunk(w)
  BY <1>1 DEF Chunk
<1> SUFFICES ASSUME NEW s \in ServerIds', Replica(w, puts[w].at, s)'
             PROVE  /\ puts'[w].write.leg # "none" /\ AddrOf(s)' = Chunk(w)'.primary =>
                          s = puts'[w].write.primary
                    /\ puts'[w].write.copy # "none" /\ AddrOf(s)' = Chunk(w)'.secondary =>
                          s = puts'[w].write.secondary
  BY DEF Tracks, Replica
<1>3. s \in ServerIds /\ Replica(w, puts[w].at, s) /\ AddrOf(s)' = AddrOf(s)
  BY ReplicaShrinks
<1> QED
  BY <1>2, <1>3 DEF Tracks

LEMMA UnmovedKept ==
  ASSUME WInv, Frame, NEW w \in DOMAIN puts, puts'[w] = puts[w]
  PROVE  PutKept(w)'
<1>0. Types /\ PutKept(w) /\ Tracks(w) /\ Progress(w) /\ Ahead(w)
  BY DEF WInv, PutKept
<1>1. Ahead(w)'
  BY <1>0, AheadStays, NoneAcked
<1>2. CASE puts[w].at \in DOMAIN puts[w].chunks
  <2>1. Tracks(w)'
    BY <1>0, <1>2, TracksStay
  <2>2. /\ puts[w].write.leg # "none" => puts[w].write.primary \in ServerIds
        /\ puts[w].write.copy # "none" => puts[w].write.secondary \in ServerIds
    BY <1>0, PutFields DEF Underway
  <2>3. \A s \in ServerIds : Kept(w, puts[w].at, s) => Kept(w, puts[w].at, s)'
    BY <1>2 DEF Frame
  <2>4. Progress(w)'
    BY <1>0, <2>2, <2>3 DEF Progress, Kept, Replica, Bytes
  <2> QED
    BY <1>1, <2>1, <2>4 DEF PutKept
<1>3. CASE puts[w].at \notin DOMAIN puts[w].chunks
  <2>1. puts[w].write.leg = "none" /\ puts[w].write.copy = "none"
    BY <1>0, <1>3, AtChunk
  <2>2. Tracks(w)' /\ Progress(w)'
    BY <2>1 DEF Tracks, Progress
  <2> QED
    BY <1>1, <2>2 DEF PutKept
<1> QED
  BY <1>2, <1>3

(* The address a request is sent to: the replica there is the server that  *)
(* gets it.                                                                *)
LEMMA SentToReplica ==
  ASSUME AtUnique, NEW a, NEW t \in At(a), NEW s \in ServerIds, Serving(s), AddrOf(s) = a
  PROVE  s = t
BY DEF At, AtUnique

LEMMA SendChunkKeeps ==
  ASSUME WInv, Frame, NEW w \in DOMAIN puts, SendChunk(w)
  PROVE  PutKept(w)'
<1>0. Types /\ AtUnique /\ PutKept(w) /\ Tracks(w) /\ Progress(w) /\ Ahead(w)
  BY DEF WInv, PutKept
<1>1. /\ Moved(w) /\ puts'[w].at = puts[w].at
      /\ puts[w].state = "writing" /\ puts[w].write.leg = "none"
      /\ \/ \E s \in At(Chunk(w).primary) :
              /\ puts'[w].write = [NoWrite EXCEPT !.primary = s, !.leg = "queued"]
              /\ puts'[w].state = puts[w].state
         \/ puts'[w].write = puts[w].write /\ puts'[w].state = "failed"
  BY <1>0, SendChunkGood
<1>2. puts'[w].chunks = puts[w].chunks /\ puts[w].at \in DOMAIN puts[w].chunks
  BY <1>0, <1>1, AtChunk DEF Moved
<1>3. CASE puts'[w].write = puts[w].write /\ puts'[w].state = "failed"
  <2>1. Tracks(w)'
    BY <1>0, <1>1, <1>2, <1>3, TracksStay
  <2>2. Ahead(w)'
    BY <1>0, <1>1, <1>2, <1>3, NoneAcked, AheadStays
  <2>3. puts[w].write.copy # "none" => puts[w].write.secondary \in ServerIds
    BY <1>0, PutFields DEF Underway
  <2>4. \A s \in ServerIds : Kept(w, puts[w].at, s) => Kept(w, puts[w].at, s)'
    BY <1>1, <1>2 DEF Frame
  <2>5. Progress(w)'
    BY <1>0, <1>1, <1>2, <1>3, <2>3, <2>4 DEF Progress, Kept, Replica, Bytes
  <2> QED
    BY <2>1, <2>2, <2>5 DEF PutKept
<1>4. ASSUME NEW t \in At(Chunk(w).primary),
             puts'[w].write = [NoWrite EXCEPT !.primary = t, !.leg = "queued"],
             puts'[w].state = puts[w].state
      PROVE  PutKept(w)'
  <2>1. /\ puts'[w].write.primary = t /\ puts'[w].write.leg = "queued"
        /\ puts'[w].write.copy = "none"
    BY <1>4 DEF NoWrite
  <2>2. Ahead(w)'
    BY <1>0, <1>1, <1>2, <1>4, <2>1, NoneAcked, AheadStays
  <2>3. Progress(w)'
    BY <2>1 DEF Progress
  <2>4. Tracks(w)'
    <3> SUFFICES ASSUME NEW s \in ServerIds', Replica(w, puts[w].at, s)',
                        AddrOf(s)' = Chunk(w)'.primary
                 PROVE  s = t
      BY <2>1 DEF Tracks
    <3>1. s \in ServerIds /\ Replica(w, puts[w].at, s) /\ AddrOf(s)' = AddrOf(s)
      BY <1>0, <1>1, <1>2, ReplicaShrinks
    <3>2. Chunk(w)' = Chunk(w)
      BY <1>1, <1>2 DEF Chunk
    <3> QED
      BY <1>0, <3>1, <3>2, SentToReplica DEF Replica
  <2> QED
    BY <2>2, <2>3, <2>4 DEF PutKept
<1> QED
  BY <1>1, <1>3, <1>4

(* A node that has stored the chunk of w holds it with its bytes.          *)
LEMMA StoredIsKept ==
  ASSUME Types, NEW w \in DOMAIN puts, puts[w].at \in DOMAIN puts[w].chunks, Moved(w),
         puts'[w].at = puts[w].at, NEW t \in ServerIds, Stores(t, w), UNCHANGED masterVars
  PROVE  Kept(w, puts[w].at, t)'
<1>1. /\ DOMAIN nodes'[t].store = DOMAIN nodes[t].store \cup {Chunk(w).id}
      /\ nodes'[t].store[Chunk(w).id] = Bytes(w, puts[w].at)
  BY StoresNode
<1>2. puts'[w].chunks = puts[w].chunks
  BY DEF Moved
<1> QED
  BY <1>1, <1>2 DEF Kept, Holds, Chunk, Bytes

LEMMA PrimaryStoresKeeps ==
  ASSUME WInv, Frame, NEW w \in DOMAIN puts, PrimaryStores(w)
  PROVE  PutKept(w)'
<1>0. Types /\ PutKept(w) /\ Tracks(w) /\ Progress(w) /\ Ahead(w)
  BY DEF WInv, PutKept
<1>1. /\ Moved(w) /\ puts'[w].at = puts[w].at /\ puts'[w].state = puts[w].state
      /\ puts[w].write.leg = "queued" /\ puts[w].at \in DOMAIN puts[w].chunks
      /\ puts[w].write.primary \in ServerIds
      /\ Stores(puts[w].write.primary, w) /\ UNCHANGED masterVars
      /\ puts'[w].write.primary = puts[w].write.primary /\ puts'[w].write.leg = "stored"
      /\ puts'[w].write.secondary = puts[w].write.secondary
      /\ puts'[w].write.copy = puts[w].write.copy
  BY <1>0, PrimaryStoresGood
<1>2. puts'[w].chunks = puts[w].chunks
  BY <1>1 DEF Moved
<1>3. Tracks(w)'
  BY <1>0, <1>1, TracksStay
<1>4. Ahead(w)'
  BY <1>0, <1>1, <1>2, NoneAcked, AheadStays
<1>5. Progress(w)'
  <2>1. \A t \in ServerIds : Stores(t, w) => Kept(w, puts[w].at, t)'
    BY <1>0, <1>1, StoredIsKept
  <2>2. \A s \in ServerIds : Kept(w, puts[w].at, s) => Kept(w, puts[w].at, s)'
    BY <1>1 DEF Frame
  <2>3. puts[w].write.copy # "none" => puts[w].write.secondary \in ServerIds
    BY <1>0, PutFields DEF Underway
  <2> QED
    BY <1>0, <1>1, <2>1, <2>2, <2>3 DEF Progress
<1> QED
  BY <1>3, <1>4, <1>5 DEF PutKept

LEMMA SecondaryStoresKeeps ==
  ASSUME WInv, Frame, NEW w \in DOMAIN puts, SecondaryStores(w)
  PROVE  PutKept(w)'
<1>0. Types /\ PutKept(w) /\ Tracks(w) /\ Progress(w) /\ Ahead(w)
  BY DEF WInv, PutKept
<1>1. /\ Moved(w) /\ puts'[w].at = puts[w].at /\ puts'[w].state = puts[w].state
      /\ puts[w].write.copy = "queued" /\ puts[w].at \in DOMAIN puts[w].chunks
      /\ puts[w].write.secondary \in ServerIds
      /\ Stores(puts[w].write.secondary, w) /\ UNCHANGED masterVars
      /\ puts'[w].write.primary = puts[w].write.primary
      /\ puts'[w].write.leg = puts[w].write.leg
      /\ puts'[w].write.secondary = puts[w].write.secondary /\ puts'[w].write.copy = "stored"
  BY <1>0, SecondaryStoresGood
<1>2. puts'[w].chunks = puts[w].chunks
  BY <1>1 DEF Moved
<1>3. Tracks(w)'
  BY <1>0, <1>1, TracksStay
<1>4. Ahead(w)'
  BY <1>0, <1>1, <1>2, NoneAcked, AheadStays
<1>5. Progress(w)'
  <2>1. \A t \in ServerIds : Stores(t, w) => Kept(w, puts[w].at, t)'
    BY <1>0, <1>1, StoredIsKept
  <2>2. \A s \in ServerIds : Kept(w, puts[w].at, s) => Kept(w, puts[w].at, s)'
    BY <1>1 DEF Frame
  <2>3. puts[w].write.leg # "none" => puts[w].write.primary \in ServerIds
    BY <1>0, PutFields DEF Underway
  <2> QED
    BY <1>0, <1>1, <2>1, <2>2, <2>3 DEF Progress
<1> QED
  BY <1>3, <1>4, <1>5 DEF PutKept

LEMMA ForwardKeeps ==
  ASSUME WInv, Frame, NEW w \in DOMAIN puts, Forward(w)
  PROVE  PutKept(w)'
<1>0. Types /\ AtUnique /\ PutKept(w) /\ Tracks(w) /\ Progress(w) /\ Ahead(w)
  BY DEF WInv, PutKept
<1>1. /\ Moved(w) /\ puts'[w].at = puts[w].at /\ puts'[w].state = puts[w].state
      /\ puts[w].write.leg = "stored" /\ puts[w].at \in DOMAIN puts[w].chunks
      /\ puts'[w].write.primary = puts[w].write.primary
      /\ \/ /\ puts'[w].write.leg = "forwarded" /\ puts'[w].write.copy = "queued"
            /\ puts'[w].write.secondary \in At(Chunk(w).secondary)
         \/ /\ puts'[w].write.leg = "error" /\ puts'[w].write.copy = puts[w].write.copy
            /\ puts'[w].write.secondary = puts[w].write.secondary
  BY <1>0, ForwardGood
<1>2. puts'[w].chunks = puts[w].chunks
  BY <1>1 DEF Moved
<1>3. Ahead(w)'
  BY <1>0, <1>1, <1>2, NoneAcked, AheadStays
<1>4. \A s \in ServerIds : Kept(w, puts[w].at, s) => Kept(w, puts[w].at, s)'
  BY <1>1 DEF Frame
<1>5. /\ puts[w].write.leg # "none" => puts[w].write.primary \in ServerIds
      /\ puts[w].write.copy # "none" => puts[w].write.secondary \in ServerIds
  BY <1>0, PutFields DEF Underway
<1>6. Progress(w)'
  BY <1>0, <1>1, <1>4, <1>5 DEF Progress
<1>7. Tracks(w)'
  <2>1. CASE puts'[w].write.leg = "error"
    BY <1>0, <1>1, <2>1, TracksStay
  <2>2. CASE puts'[w].write.leg = "forwarded"
    <3>1. Chunk(w)' = Chunk(w)
      BY <1>1, <1>2 DEF Chunk
    <3> SUFFICES ASSUME NEW s \in ServerIds', Replica(w, puts[w].at, s)'
                 PROVE  /\ AddrOf(s)' = Chunk(w)'.primary => s = puts'[w].write.primary
                        /\ AddrOf(s)' = Chunk(w)'.secondary => s = puts'[w].write.secondary
      BY DEF Tracks
    <3>2. s \in ServerIds /\ Replica(w, puts[w].at, s) /\ AddrOf(s)' = AddrOf(s)
      BY <1>0, <1>1, ReplicaShrinks
    <3>3. AddrOf(s)' = Chunk(w)'.primary => s = puts'[w].write.primary
      BY <1>0, <1>1, <3>1, <3>2 DEF Tracks
    <3>4. AddrOf(s)' = Chunk(w)'.secondary => s = puts'[w].write.secondary
      BY <1>0, <1>1, <2>2, <3>1, <3>2, SentToReplica DEF Replica
    <3> QED
      BY <3>3, <3>4
  <2> QED
    BY <1>1, <2>1, <2>2
<1> QED
  BY <1>3, <1>6, <1>7 DEF PutKept

(* The acknowledgement: both replicas that have not stopped have stored    *)
(* the chunk.                                                              *)
LEMMA ForwardAnsweredKeeps ==
  ASSUME WInv, Frame, NEW w \in DOMAIN puts, ForwardAnswered(w)
  PROVE  PutKept(w)'
<1>0. Types /\ Placement /\ PutKept(w) /\ Tracks(w) /\ Progress(w) /\ Ahead(w)
  BY DEF WInv, PutKept
<1>1. /\ Moved(w) /\ puts'[w].at = puts[w].at /\ puts'[w].state = puts[w].state
      /\ puts[w].write.leg = "forwarded" /\ puts[w].at \in DOMAIN puts[w].chunks
      /\ puts'[w].write.primary = puts[w].write.primary
      /\ puts'[w].write.secondary = puts[w].write.secondary
      /\ \/ /\ puts[w].write.copy = "stored"
            /\ puts'[w].write.leg = "written" /\ puts'[w].write.copy = "stored"
         \/ puts'[w].write.leg = "error" /\ puts'[w].write.copy = "none"
  BY <1>0, ForwardAnsweredGood
<1>2. puts'[w].chunks = puts[w].chunks
  BY <1>1 DEF Moved
<1>3. \A s \in ServerIds : Kept(w, puts[w].at, s) => Kept(w, puts[w].at, s)'
  BY <1>1 DEF Frame
<1>4. /\ puts[w].write.leg # "none" => puts[w].write.primary \in ServerIds
      /\ puts[w].write.copy # "none" => puts[w].write.secondary \in ServerIds
  BY <1>0, PutFields DEF Underway
<1>5. Progress(w)'
  BY <1>0, <1>1, <1>3, <1>4 DEF Progress
<1>6. Tracks(w)'
  BY <1>0, <1>1, TracksStay
<1>7. CASE puts'[w].write.leg = "error"
  <2>1. Ahead(w)'
    BY <1>0, <1>1, <1>2, <1>7, NoneAcked, AheadStays
  <2> QED
    BY <1>5, <1>6, <2>1 DEF PutKept
<1>8. CASE puts[w].write.copy = "stored"
  <2>1. ASSUME NEW s \in ServerIds PROVE Kept(w, puts[w].at, s)
    <3> SUFFICES ASSUME Replica(w, puts[w].at, s) PROVE Kept(w, puts[w].at, s)
      BY DEF Kept
    <3>1. AddrOf(s) \in {Chunk(w).primary, Chunk(w).secondary}
      BY <1>0, <1>1 DEF Placement, Replica, Chunk
    <3>2. s \in {puts[w].write.primary, puts[w].write.secondary}
      BY <1>0, <1>1, <1>8, <3>1 DEF Tracks
    <3> QED
      BY <1>0, <1>1, <1>8, <3>2 DEF Progress
  <2>2. ASSUME NEW i \in Acked(w)', NEW s \in ServerIds' PROVE Kept(w, i, s)'
    <3>1. CASE i \in Acked(w)
      <4>1. i \in DOMAIN puts[w].chunks /\ (s \in ServerIds => Kept(w, i, s))
        BY <1>0, <3>1 DEF Ahead, Acked
      <4> QED
        BY <1>0, <4>1, KeptOn
    <3>2. CASE i \notin Acked(w)
      <4>1. i = puts[w].at
        BY <1>1, <1>2, <3>2 DEF Acked
      <4>2. s \in ServerIds => Kept(w, i, s)
        BY <2>1, <4>1
      <4> QED
        BY <1>0, <1>1, <4>1, <4>2, KeptOn
    <3> QED
      BY <3>1, <3>2
  <2>3. Ahead(w)'
    BY <2>2 DEF Ahead
  <2> QED
    BY <1>5, <1>6, <2>3 DEF PutKept
<1> QED
  BY <1>1, <1>7, <1>8

LEMMA ChunkWrittenKeeps ==
  ASSUME WInv, Frame, NEW w \in DOMAIN puts, ChunkWritten(w)
  PROVE  PutKept(w)'
<1>0. Types /\ PutKept(w) /\ Ahead(w)
  BY DEF WInv, PutKept
<1>1. /\ Moved(w) /\ puts'[w].write = NoWrite
      /\ puts[w].write.leg = "written" /\ puts[w].state = "writing"
      /\ puts[w].at \in DOMAIN puts[w].chunks
      /\ \/ /\ puts[w].at = Len(puts[w].chunks)
            /\ puts'[w].at = puts[w].at /\ puts'[w].state = "acked"
         \/ /\ puts[w].at # Len(puts[w].chunks)
            /\ puts'[w].at = puts[w].at + 1 /\ puts'[w].state = "writing"
  BY <1>0, ChunkWrittenGood
<1>2. puts'[w].write.leg = "none" /\ puts'[w].write.copy = "none"
  BY <1>1 DEF NoWrite
<1>3. /\ puts'[w].chunks = puts[w].chunks
      /\ DOMAIN puts[w].chunks = 1 .. Len(puts[w].chunks) /\ Len(puts[w].chunks) \in Nat
  BY <1>0, <1>1, PutFields DEF Moved
<1>4. Acked(w)' \subseteq Acked(w)
  <2>1. Acked(w) = {i \in 1 .. Len(puts[w].chunks) : i <= puts[w].at}
    BY <1>1, <1>3 DEF Acked
  <2>2. CASE puts'[w].state = "acked"
    <3>1. Acked(w)' = 1 .. Len(puts[w].chunks)
      BY <1>3, <2>2 DEF Acked
    <3> QED
      BY <1>1, <1>3, <2>1, <2>2, <3>1
  <2>3. CASE puts'[w].state = "writing"
    <3>1. Acked(w)' = {i \in 1 .. Len(puts[w].chunks) : i < puts[w].at + 1}
      BY <1>1, <1>2, <1>3, <2>3 DEF Acked
    <3> QED
      BY <1>1, <1>3, <2>1, <3>1
  <2> QED
    BY <1>1, <2>2, <2>3
<1>5. Ahead(w)'
  BY <1>0, <1>4, AheadStays
<1>6. Tracks(w)' /\ Progress(w)'
  BY <1>2 DEF Tracks, Progress
<1> QED
  BY <1>5, <1>6 DEF PutKept

(* A put that fails, or whose client is gone.                              *)
LEMMA FailureKeeps ==
  ASSUME WInv, Frame, NEW w \in DOMAIN puts, WriteFails(w) \/ Quit(w)
  PROVE  PutKept(w)'
<1>0. Types /\ PutKept(w) /\ Tracks(w) /\ Progress(w) /\ Ahead(w)
  BY DEF WInv, PutKept
<1>1. /\ Moved(w) /\ puts'[w].at = puts[w].at /\ puts'[w].state = "failed"
      /\ puts'[w].write.primary = puts[w].write.primary
      /\ puts'[w].write.secondary = puts[w].write.secondary
      /\ puts'[w].write.copy = puts[w].write.copy
      /\ puts'[w].write.leg \in {"none", puts[w].write.leg}
      /\ puts[w].state = "writing"
  BY <1>0, WriteFailsGood, FailsGood DEF Quit, WriteFails
<1>2. puts'[w].chunks = puts[w].chunks /\ puts[w].at \in DOMAIN puts[w].chunks
  BY <1>0, <1>1, AtChunk DEF Moved
<1>3. Ahead(w)'
  BY <1>0, <1>1, <1>2, NoneAcked, AheadStays
<1>4. Tracks(w)'
  BY <1>0, <1>1, <1>2, TracksStay
<1>5. \A s \in ServerIds : Kept(w, puts[w].at, s) => Kept(w, puts[w].at, s)'
  BY <1>1, <1>2 DEF Frame
<1>6. /\ puts[w].write.leg # "none" => puts[w].write.primary \in ServerIds
      /\ puts[w].write.copy # "none" => puts[w].write.secondary \in ServerIds
  BY <1>0, PutFields DEF Underway
<1>7. Progress(w)'
  BY <1>0, <1>1, <1>5, <1>6 DEF Progress
<1> QED
  BY <1>3, <1>4, <1>7 DEF PutKept

-----------------------------------------------------------------------------
(* All of them *)

LEMMA DropsStay ==
  ASSUME Types, Good, Frame,
         \A s \in ServerIds' : nodes'[s].hb.stage = "answered" =>
            s \in ServerIds /\ \A c \in nodes'[s].hb.chunks : c \in ChunkIds /\ ~Wanted(s, c)
  PROVE  DropsUnwanted'
<1>1. DOMAIN nodes' = ServerIds'
  <2>1. nodes' \in Seq(Node') /\ Len(nodes') = Len(servers')
    BY DEF Good, Types, NodesTyped
  <2> QED
    BY <2>1, LenProperties DEF ServerIds
<1> SUFFICES ASSUME NEW s \in ServerIds', nodes'[s].hb.stage = "answered",
                    NEW c \in nodes'[s].hb.chunks, Wanted(s, c)'
             PROVE  FALSE
  BY <1>1 DEF DropsUnwanted, Wanted
<1> QED
  BY DEF Frame

(* The orders a server has been given are still about unwanted chunks.     *)
LEMMA OrdersStand ==
  ASSUME WInv, NEW s \in ServerIds, nodes[s].hb.stage = "answered"
  PROVE  \A c \in nodes[s].hb.chunks : c \in ChunkIds /\ ~Wanted(s, c)
<1>1. nodes[s] \in Node /\ DOMAIN nodes = ServerIds
  BY TypeFacts DEF WInv
<1>2. nodes[s].hb.chunks \subseteq ChunkIds
  BY <1>1 DEF Node
<1> QED
  BY <1>1, <1>2 DEF WInv, DropsUnwanted

(* Servers and puts that are no more than they were.                       *)
LEMMA SameServers ==
  ASSUME AtUnique, Frame, ServerIds' = ServerIds
  PROVE  AtUnique'
BY DEF AtUnique, Frame

LEMMA SamePuts ==
  ASSUME WInv, Frame, DOMAIN puts' = DOMAIN puts
  PROVE  IdsUnique' /\ Placement'
<1>0. Types /\ IdsUnique /\ Placement
  BY DEF WInv
<1>1. \A w \in DOMAIN puts : puts'[w].chunks = puts[w].chunks
  BY DEF Frame
<1>2. IdsUnique'
  BY <1>0, <1>1 DEF IdsUnique
<1>3. Placement'
  <2> SUFFICES ASSUME NEW w \in DOMAIN puts, NEW i \in DOMAIN puts[w].chunks, NEW s \in ServerIds',
                      Wanted(s, puts[w].chunks[i].id)'
               PROVE  AddrOf(s)' \in {puts[w].chunks[i].primary, puts[w].chunks[i].secondary}
    BY <1>1 DEF Placement
  <2>1. PICK c \in ChunkIds : c = puts[w].chunks[i].id /\ c = puts'[w].chunks[i].id
    BY <1>0, <1>1, IdsGiven
  <2>2. Wanted(s, c)'
    BY <2>1 DEF Wanted
  <2>3. s \in ServerIds /\ Wanted(s, c) /\ AddrOf(s)' = AddrOf(s)
    BY <2>2 DEF Frame
  <2> QED
    BY <1>0, <2>1, <2>3 DEF Placement
<1> QED
  BY <1>2, <1>3

(* A chunk server that goes on.                                            *)
LEMMA BecomesKeeps ==
  ASSUME WInv, [Next]_vars, Good, NEW t \in ServerIds, NEW e, Becomes(t, e),
         ServerIds' = ServerIds
  PROVE  WInv'
<1>0. Types /\ AtUnique /\ DOMAIN nodes = ServerIds
  BY TypeFacts DEF WInv
<1>1. Frame
  BY BecomesFrame
<1>2. puts' = puts /\ nodes'[t] = e /\ \A s \in ServerIds : s # t => nodes'[s] = nodes[s]
  BY <1>0 DEF Becomes
<1>3. DropsUnwanted'
  <2>1. ASSUME NEW s \in ServerIds, nodes'[s].hb.stage = "answered"
        PROVE  \A c \in nodes'[s].hb.chunks : c \in ChunkIds /\ ~Wanted(s, c)
    <3>1. CASE s # t
      BY <1>2, <2>1, <3>1, OrdersStand
    <3>2. CASE s = t
      <4>1. e.hb.chunks \subseteq ChunkIds
        BY DEF Becomes, Node
      <4> QED
        BY <1>2, <2>1, <3>2, <4>1 DEF Becomes
    <3> QED
      BY <3>1, <3>2
  <2> QED
    BY <1>0, <1>1, <2>1, DropsStay
<1>4. AtUnique' /\ IdsUnique' /\ Placement'
  BY <1>0, <1>1, <1>2, SameServers, SamePuts
<1>5. \A w \in DOMAIN puts' : PutKept(w)'
  BY <1>1, <1>2, UnmovedKept
<1> QED
  BY <1>3, <1>4, <1>5 DEF WInv, Good

(* The master goes on, and the nodes do not.                               *)
LEMMA QuietKeeps ==
  ASSUME WInv, [Next]_vars, Good, UNCHANGED <<nodes, puts>>, ServerIds' = ServerIds
  PROVE  WInv'
<1>0. Types /\ AtUnique
  BY DEF WInv
<1>1. Frame
  BY QuietFrame
<1>2. DropsUnwanted'
  BY <1>0, <1>1, OrdersStand, DropsStay
<1>3. AtUnique' /\ IdsUnique' /\ Placement'
  BY <1>0, <1>1, SameServers, SamePuts
<1>4. \A w \in DOMAIN puts' : PutKept(w)'
  BY <1>1, UnmovedKept
<1> QED
  BY <1>2, <1>3, <1>4 DEF WInv, Good

(* A put goes on.                                                          *)
LEMMA WriterKeeps ==
  ASSUME WInv, [Next]_vars, NEW w \in DOMAIN puts, Writer(w) \/ Quit(w)
  PROVE  WInv'
<1>0. Types /\ AtUnique /\ DOMAIN nodes = ServerIds
  BY TypeFacts DEF WInv
<1>1. Good /\ Moved(w)
  BY <1>0, SendChunkGood, PrimaryStoresGood, ForwardGood, SecondaryStoresGood,
     ForwardAnsweredGood, ChunkWrittenGood, WriteFailsGood, FailsGood DEF Writer, Quit
<1>2. /\ DOMAIN puts' = DOMAIN puts /\ \A v \in DOMAIN puts : v # w => puts'[v] = puts[v]
      /\ \A v \in DOMAIN puts : puts'[v].chunks = puts[v].chunks
      /\ ServerIds' = ServerIds
  BY <1>1 DEF Moved
<1>3. \/ nodes' = nodes
      \/ \E t \in ServerIds : /\ Stores(t, w) /\ UNCHANGED masterVars
                              /\ puts[w].at \in DOMAIN puts[w].chunks
  BY <1>0, SendChunkGood, PrimaryStoresGood, ForwardGood, SecondaryStoresGood,
     ForwardAnsweredGood, ChunkWrittenGood, WriteFailsGood, FailsGood DEF Writer, Quit
<1>4. Frame
  BY <1>1, <1>2, <1>3, QuietFrame, StoresFrame
<1>5. \A s \in ServerIds : nodes'[s].hb = nodes[s].hb
  <2>1. ASSUME NEW t \in ServerIds, Stores(t, w), UNCHANGED masterVars,
               puts[w].at \in DOMAIN puts[w].chunks
        PROVE  \A s \in ServerIds : nodes'[s].hb = nodes[s].hb
    BY <1>0, <2>1, StoresNode
  <2> QED
    BY <1>3, <2>1
<1>6. DropsUnwanted'
  BY <1>0, <1>1, <1>2, <1>4, <1>5, OrdersStand, DropsStay
<1>7. AtUnique' /\ IdsUnique' /\ Placement'
  BY <1>0, <1>2, <1>4, SameServers, SamePuts
<1>8. PutKept(w)'
  BY <1>4, SendChunkKeeps, PrimaryStoresKeeps, ForwardKeeps, SecondaryStoresKeeps,
     ForwardAnsweredKeeps, ChunkWrittenKeeps, FailureKeeps DEF Writer
<1>9. \A v \in DOMAIN puts' : PutKept(v)'
  BY <1>2, <1>4, <1>8, UnmovedKept
<1> QED
  BY <1>1, <1>6, <1>7, <1>9 DEF WInv, Good

(* A server that starts finds its address free.                            *)
LEMMA StartKeeps ==
  ASSUME WInv, [Next]_vars, NEW a \in Addrs, Start(a)
  PROVE  WInv'
<1>0. Types /\ AtUnique /\ At(a) = {}
  BY DEF WInv, Start
<1> DEFINE t == Len(nodes) + 1
<1>1. /\ Good /\ puts' = puts
      /\ ServerIds' = ServerIds \cup {t} /\ t \notin ServerIds
      /\ \A s \in ServerIds : nodes'[s] = nodes[s]
      /\ nodes'[t].hb.stage = "idle" /\ servers'[t].addr = a
  BY <1>0, StartGood
<1>2. Frame
  BY <1>1, QuietFrame
<1>3. DropsUnwanted'
  BY <1>0, <1>1, <1>2, OrdersStand, DropsStay
<1>4. IdsUnique' /\ Placement'
  BY <1>1, <1>2, SamePuts
<1>5. AtUnique'
  <2>1. \A s \in ServerIds : ~(Serving(s) /\ AddrOf(s) = a)
    BY <1>0 DEF At
  <2>2. \A s \in ServerIds : AddrOf(s)' = AddrOf(s) /\ (Serving(s)' => Serving(s))
    BY <1>2 DEF Frame
  <2> HIDE DEF t
  <2> SUFFICES ASSUME NEW r \in ServerIds', NEW s \in ServerIds', Serving(r)', Serving(s)',
                      servers'[r].addr = servers'[s].addr
               PROVE  r = s
    BY DEF AtUnique, AddrOf
  <2>3. CASE r \in ServerIds /\ s \in ServerIds
    BY <1>0, <2>2, <2>3 DEF AtUnique, AddrOf
  <2>4. CASE r = t /\ s \in ServerIds
    BY <1>1, <2>1, <2>2, <2>4 DEF AddrOf
  <2>5. CASE s = t /\ r \in ServerIds
    BY <1>1, <2>1, <2>2, <2>5 DEF AddrOf
  <2> QED
    BY <1>1, <2>3, <2>4, <2>5
<1>6. \A w \in DOMAIN puts' : PutKept(w)'
  BY <1>1, <1>2, UnmovedKept
<1> QED
  BY <1>1, <1>3, <1>4, <1>5, <1>6 DEF WInv, Good

(* A put that the master accepts has acknowledged nothing yet.             *)
LEMMA PutKeeps ==
  ASSUME WInv, [Next]_vars, NEW p \in Paths, NEW n \in 0 .. MaxChunks, Put(p, n)
  PROVE  WInv'
<1>t. PICK t : t = Len(puts) + 1
  OBVIOUS
<1>0. Types /\ AtUnique /\ IdsUnique /\ Placement /\ nextChunk \in Nat
  BY DEF WInv, Types, IInv, MasterTypeOK
<1>1. /\ Good /\ ServerIds' = ServerIds /\ nodes' = nodes /\ n \in Nat
      /\ DOMAIN puts' = DOMAIN puts \cup {t} /\ t \notin DOMAIN puts
      /\ \A v \in DOMAIN puts : puts'[v] = puts[v]
      /\ puts'[t].write = NoWrite /\ puts'[t].at = 1
      /\ puts'[t].state = IF n = 0 THEN "acked" ELSE "writing"
  BY <1>0, <1>t, PutGood
<1>2. PICK new : new = Allocated(n)
  OBVIOUS
<1>3. /\ puts'[t].chunks = new /\ DOMAIN new = 1 .. n
      /\ \A i \in 1 .. n :
           /\ new[i].id = nextChunk + i - 1 /\ new[i].id \notin ChunkIds
           /\ \A s \in ServerIds, c \in {new[i].id} :
                 Wanted(s, c)' => AddrOf(s) \in {new[i].primary, new[i].secondary}
  BY <1>0, <1>t, <1>2, PutGood
<1>4. Frame
  BY <1>1, QuietFrame
<1>5. DropsUnwanted'
  BY <1>0, <1>1, <1>4, OrdersStand, DropsStay
<1>6. AtUnique'
  BY <1>0, <1>1, <1>4, SameServers
<1>7. \A v \in DOMAIN puts : \A j \in DOMAIN puts[v].chunks : puts[v].chunks[j].id \in ChunkIds
  BY <1>0, IdsGiven
<1>8. IdsUnique'
  <2> SUFFICES ASSUME NEW w \in DOMAIN puts', NEW v \in DOMAIN puts',
                      NEW i \in DOMAIN puts'[w].chunks, NEW j \in DOMAIN puts'[v].chunks,
                      puts'[w].chunks[i].id = puts'[v].chunks[j].id
               PROVE  w = v /\ i = j
    BY DEF IdsUnique
  <2>1. CASE w \in DOMAIN puts /\ v \in DOMAIN puts
    BY <1>0, <1>1, <2>1 DEF IdsUnique
  <2>2. CASE w = t /\ v \in DOMAIN puts
    BY <1>1, <1>3, <1>7, <2>2
  <2>3. CASE v = t /\ w \in DOMAIN puts
    BY <1>1, <1>3, <1>7, <2>3
  <2>4. CASE w = t /\ v = t
    <3>1. /\ i \in 1 .. n /\ j \in 1 .. n
          /\ nextChunk + i - 1 = nextChunk + j - 1
      BY <1>3, <2>4
    <3> QED
      BY <1>0, <2>4, <3>1
  <2> QED
    BY <1>1, <2>1, <2>2, <2>3, <2>4
<1>9. Placement'
  <2> SUFFICES ASSUME NEW w \in DOMAIN puts', NEW i \in DOMAIN puts'[w].chunks, NEW s \in ServerIds,
                      Wanted(s, puts[w].chunks[i].id)'
               PROVE  AddrOf(s)' \in {puts'[w].chunks[i].primary, puts'[w].chunks[i].secondary}
    BY <1>1 DEF Placement
  <2>1. PICK c : c = puts'[w].chunks[i].id
    OBVIOUS
  <2>2. Wanted(s, c)' /\ AddrOf(s)' = AddrOf(s)
    BY <1>4, <2>1 DEF Wanted, Frame
  <2>3. CASE w \in DOMAIN puts
    <3>1. c \in ChunkIds /\ c = puts[w].chunks[i].id
      BY <1>1, <1>7, <2>1, <2>3
    <3>2. Wanted(s, c)
      BY <1>1, <1>4, <2>2, <3>1 DEF Frame
    <3> QED
      BY <1>0, <1>1, <2>2, <2>3, <3>1, <3>2 DEF Placement
  <2>4. CASE w = t
    BY <1>3, <2>1, <2>2, <2>4
  <2> QED
    BY <1>1, <2>3, <2>4
<1>10. PutKept(t)'
  <2>1. puts'[t].write.leg = "none" /\ puts'[t].write.copy = "none"
    BY <1>1 DEF NoWrite
  <2>2. Acked(t)' = {}
    <3>1. CASE n = 0
      BY <1>1, <1>3, <3>1 DEF Acked
    <3>2. CASE n # 0
      BY <1>1, <1>3, <2>1, <3>2 DEF Acked
    <3> QED
      BY <3>1, <3>2
  <2> QED
    BY <2>1, <2>2 DEF PutKept, Tracks, Progress, Ahead
<1>11. \A v \in DOMAIN puts' : PutKept(v)'
  BY <1>1, <1>4, <1>10, UnmovedKept
<1> QED
  BY <1>1, <1>5, <1>6, <1>8, <1>9, <1>11 DEF WInv, Good

LEMMA InitWInv == Init => WInv
<1> SUFFICES ASSUME Init PROVE WInv
  OBVIOUS
<1>1. nodes = <<>> /\ puts = <<>> /\ servers = <<>>
  BY DEF Init, MasterInit
<1>2. DOMAIN nodes = {} /\ DOMAIN puts = {} /\ ServerIds = {}
  BY <1>1 DEF ServerIds
<1> QED
  BY <1>2, InitTypes DEF WInv, DropsUnwanted, AtUnique, IdsUnique, Placement

LEMMA StepWInv == WInv /\ [Next]_vars => WInv'
<1> SUFFICES ASSUME WInv, [Next]_vars PROVE WInv'
  OBVIOUS
<1>0. Types
  BY DEF WInv
<1>g. Good
  BY <1>0, NextGood
<1>1. ASSUME NEW a \in Addrs, Start(a) PROVE WInv'
  BY <1>1, StartKeeps
<1>2. ASSUME NEW s \in ServerIds, Server(s) \/ GiveUp(s) \/ \E how \in {"crashed", "aborted"} : Stop(s, how)
      PROVE  WInv'
  <2>1. PICK e : Becomes(s, e)
    BY <1>0, <1>2, ServerGood DEF Server
  <2>2. ServerIds' = ServerIds
    <3>1. CASE MasterHears(s)
      BY <1>0, <3>1, MasterHearsBecomes, HeartbeatMoves
    <3>2. CASE UNCHANGED masterVars
      BY <1>0, <3>2, MasterIdle
    <3> QED
      BY <1>2, <3>1, <3>2 DEF Server, Stop, Report, ApplyDrops, GiveUp
  <2> QED
    BY <1>g, <2>1, <2>2, BecomesKeeps
<1>3. ASSUME NEW s \in ServerIds, DetectTimeouts(s) PROVE WInv'
  BY <1>0, <1>3, DetectTimeoutsGood, QuietKeeps
<1>4. ASSUME NEW r \in late, MasterHearsLate(r) PROVE WInv'
  BY <1>0, <1>4, LateGood, QuietKeeps
<1>5. ASSUME UNCHANGED <<masterVars, nodes, puts, late, faults>> PROVE WInv'
  BY <1>0, <1>5, GetGood, QuietKeeps
<1>6. ASSUME NEW p \in Paths, DeleteFile(p) PROVE WInv'
  BY <1>0, <1>6, DeleteFileGood, QuietKeeps
<1>7. ASSUME NEW p \in Paths, NEW n \in 0 .. MaxChunks, Put(p, n) PROVE WInv'
  BY <1>7, PutKeeps
<1>8. ASSUME NEW w \in DOMAIN puts, Writer(w) \/ Quit(w) PROVE WInv'
  BY <1>8, WriterKeeps
<1> QED
  BY <1>1, <1>2, <1>3, <1>4, <1>5, <1>6, <1>7, <1>8 DEF Next, Get, ReadChunk, vars

LEMMA WritesHold == Spec => []WInv
BY InitWInv, StepWInv, PTL DEF Spec

(* No server is ever about to drop a chunk that the master wants on it,    *)
(* however long ago the master answered (heartbeat_loop).                  *)
THEOREM DropsAlwaysUnwanted == Spec => []DropsUnwanted
<1>1. WInv => DropsUnwanted
  BY DEF WInv
<1> QED
  BY <1>1, WritesHold, PTL

(* An acknowledged chunk stays, with its bytes, on each of its replicas    *)
(* that has not stopped (handle_request, forward, heartbeat_loop).         *)
THEOREM AckedAlwaysKept == Spec => []AckedKept
<1>1. WInv => AckedKept
  <2> SUFFICES ASSUME WInv, NEW w \in DOMAIN puts, NEW i \in Acked(w), NEW s \in ServerIds
               PROVE  Kept(w, i, s)
    BY DEF AckedKept, Kept, Replica
  <2> QED
    BY DEF WInv, PutKept, Ahead
<1> QED
  BY <1>1, WritesHold, PTL

-----------------------------------------------------------------------------
-----------------------------------------------------------------------------
(***************************************************************************)
(* A get answers with the whole of the file that its path named when it    *)
(* began, or with an error: the cluster implements FileService, for every  *)
(* number of servers, files, puts, gets and faults. And what was put to    *)
(* the end can be read as long as its chunks have a replica that serves.   *)
(***************************************************************************)

(* What a get is.                                                          *)
Found == [id : Nat, primary : Addrs \cup {NoAddr}, secondary : Addrs \cup {NoAddr}]

Download == [file : Nat, chunks : Seq(Found), got : Seq(Nat \X Nat), second : BOOLEAN,
             state : {"reading", "done", "failed"}]

(* The file at a path is the one of the put that Creator names.            *)
FileMatches(p) ==
  LET w == Creator(p) IN
  /\ w \in DOMAIN puts
  /\ Len(files[p]) = Len(puts[w].chunks)
  /\ \A i \in DOMAIN files[p] : files[p][i] = puts[w].chunks[i].id

(* A chunk in a store has the bytes that its put sent.                     *)
StoredRight ==
  \A s \in ServerIds : \A c \in DOMAIN nodes[s].store :
     \E w \in DOMAIN puts : \E i \in DOMAIN puts[w].chunks :
        puts[w].chunks[i].id = c /\ nodes[s].store[c] = Bytes(w, i)

(* A get reads the chunks of one put, in order, and has its bytes so far.  *)
GetRight(g) ==
  LET f == gets[g].file IN
  /\ f \in DOMAIN puts /\ Len(gets[g].chunks) = Len(puts[f].chunks)
  /\ \A i \in 1 .. Len(gets[g].chunks) : gets[g].chunks[i].id = puts[f].chunks[i].id
  /\ \A i \in 1 .. Len(gets[g].got) : gets[g].got[i] = Bytes(f, i)
  /\ gets[g].state = "reading" => Len(gets[g].got) < Len(gets[g].chunks)
  /\ gets[g].state = "done" => Len(gets[g].got) = Len(gets[g].chunks)

FInv ==
  /\ WInv /\ NamespaceSound /\ StoredRight
  /\ \A p \in DOMAIN files : FileMatches(p)
  /\ gets \in Seq(Download) /\ \A g \in DOMAIN gets : GetRight(g)

-----------------------------------------------------------------------------
(* Which file a path names *)

(* No put is new, and no file.                                             *)
SameFiles ==
  /\ DOMAIN puts' = DOMAIN puts
  /\ \A w \in DOMAIN puts : puts'[w].path = puts[w].path /\ puts'[w].chunks = puts[w].chunks

LEMMA CreatorStays ==
  ASSUME SameFiles, NEW p
  PROVE  Creator(p)' = Creator(p)
<1>1. {w \in DOMAIN puts' : puts'[w].path = p} = {w \in DOMAIN puts : puts[w].path = p}
  BY DEF SameFiles
<1> QED
  BY <1>1 DEF Creator

(* A new put is the last of its path.                                      *)
LEMMA CreatorOfNew ==
  ASSUME NEW n \in Nat, DOMAIN puts = 1 .. n, DOMAIN puts' = 1 .. n + 1,
         \A w \in 1 .. n : puts'[w] = puts[w], NEW q
  PROVE  Creator(q)' = IF puts'[n + 1].path = q THEN n + 1 ELSE Creator(q)
<1> DEFINE S == {w \in DOMAIN puts : puts[w].path = q}
           T == {w \in DOMAIN puts' : puts'[w].path = q}
<1>1. CASE puts'[n + 1].path = q
  <2>1. n + 1 \in T /\ \A w \in T : n + 1 >= w /\ w \in Nat
    BY <1>1
  <2>2. \A m \in T : (\A w \in T : m >= w) => m = n + 1
    BY <2>1
  <2> HIDE DEF T
  <2>3. Max(T) = n + 1
    BY <2>1, <2>2 DEF Max
  <2> QED
    BY <1>1, <2>3 DEF Creator, T
<1>2. CASE puts'[n + 1].path # q
  <2>1. T = S
    BY <1>2
  <2> QED
    BY <1>2, <2>1 DEF Creator
<1> QED
  BY <1>1, <1>2

-----------------------------------------------------------------------------
(* Steps, by what they do to files, puts and gets *)

LEMMA Kinds ==
  ASSUME Types, [Next]_vars
  PROVE  \/ \E p \in Paths, n \in 0 .. MaxChunks : Put(p, n)
         \/ \E p \in Paths : DeleteFile(p)
         \/ \E p \in Paths : Get(p)
         \/ \E g \in DOMAIN gets : ReadChunk(g)
         \/ SameFiles /\ UNCHANGED <<files, gets>>
<1>1. ASSUME NEW a \in Addrs, Start(a) PROVE SameFiles /\ UNCHANGED <<files, gets>>
  BY <1>1 DEF Start, Register, SameFiles
<1>2. ASSUME NEW s \in ServerIds,
             \/ Server(s) \/ GiveUp(s) \/ DetectTimeouts(s)
             \/ \E how \in {"crashed", "aborted"} : Stop(s, how)
      PROVE  SameFiles /\ UNCHANGED <<files, gets>>
  BY <1>2 DEF Server, Report, MasterHears, ApplyDrops, GiveUp, DetectTimeouts, Stop, TimeOut,
              Heartbeat, masterVars, SameFiles
<1>3. ASSUME NEW r \in late, MasterHearsLate(r) PROVE SameFiles /\ UNCHANGED <<files, gets>>
  BY <1>3 DEF MasterHearsLate, Heartbeat, SameFiles
<1>4. ASSUME NEW w \in DOMAIN puts, Writer(w) \/ Quit(w)
      PROVE  SameFiles /\ UNCHANGED <<files, gets>>
  <2>1. Moved(w)
    BY <1>4, SendChunkGood, PrimaryStoresGood, ForwardGood, SecondaryStoresGood,
       ForwardAnsweredGood, ChunkWrittenGood, WriteFailsGood, FailsGood DEF Writer, Quit
  <2>2. UNCHANGED gets
    BY <1>4 DEF Writer, Quit, SendChunk, PrimaryStores, Forward, SecondaryStores, ForwardAnswered,
                ChunkWritten, WriteFails, Writes, Fails
  <2> QED
    BY <2>1, <2>2 DEF Moved, SameFiles
<1>5. CASE UNCHANGED vars
  BY <1>5 DEF vars, masterVars, SameFiles
<1> QED
  BY <1>1, <1>2, <1>3, <1>4, <1>5 DEF Next

(* Puts stay the puts they were.                                           *)
LEMMA PutsGrow ==
  ASSUME Types, [Next]_vars
  PROVE  DOMAIN puts \subseteq DOMAIN puts' /\ \A w \in DOMAIN puts : puts'[w].chunks = puts[w].chunks
<1>1. ASSUME NEW p \in Paths, NEW n \in 0 .. MaxChunks, Put(p, n)
      PROVE  DOMAIN puts \subseteq DOMAIN puts' /\ \A w \in DOMAIN puts : puts'[w] = puts[w]
  BY <1>1, PutGood
<1>2. CASE UNCHANGED puts
  BY <1>2
<1> QED
  BY <1>1, <1>2, Kinds DEF DeleteFile, Get, ReadChunk, SameFiles

(* Stores gain nothing but the bytes of a put's chunk.                     *)
Gained(s, c) ==
  \/ s \in ServerIds /\ c \in DOMAIN nodes[s].store /\ nodes'[s].store[c] = nodes[s].store[c]
  \/ \E w \in DOMAIN puts : /\ puts[w].at \in DOMAIN puts[w].chunks /\ c = Chunk(w).id
                            /\ nodes'[s].store[c] = Bytes(w, puts[w].at)

LEMMA StoresGain ==
  ASSUME Types, [Next]_vars, NEW s \in ServerIds', NEW c \in DOMAIN nodes'[s].store
  PROVE  Gained(s, c)
<1>0. DOMAIN nodes = ServerIds
  BY TypeFacts
<1>1. ASSUME ServerIds' = ServerIds, nodes' = nodes PROVE Gained(s, c)
  BY <1>1 DEF Gained
<1>2. ASSUME NEW a \in Addrs, Start(a) PROVE Gained(s, c)
  <2>1. /\ ServerIds' = ServerIds \cup {Len(nodes) + 1}
        /\ \A t \in ServerIds : nodes'[t] = nodes[t]
        /\ DOMAIN nodes'[Len(nodes) + 1].store = {}
    BY <1>2, StartGood
  <2> QED
    BY <2>1 DEF Gained
<1>3. ASSUME NEW t \in ServerIds, Server(t) \/ GiveUp(t) \/ \E how \in {"crashed", "aborted"} : Stop(t, how)
      PROVE  Gained(s, c)
  <2>1. PICK e : Becomes(t, e)
    BY <1>3, ServerGood DEF Server
  <2>2. ServerIds' = ServerIds
    <3>1. CASE MasterHears(t)
      BY <3>1, MasterHearsBecomes, HeartbeatMoves
    <3>2. CASE UNCHANGED masterVars
      BY <3>2, MasterIdle
    <3> QED
      BY <1>3, <3>1, <3>2 DEF Server, Stop, Report, ApplyDrops, GiveUp
  <2>3. nodes'[t] = e /\ \A r \in ServerIds : r # t => nodes'[r] = nodes[r]
    BY <1>0, <2>1 DEF Becomes
  <2> QED
    BY <2>1, <2>2, <2>3 DEF Becomes, Gained
<1>4. ASSUME NEW w \in DOMAIN puts, NEW t \in ServerIds, Stores(t, w), UNCHANGED masterVars,
             puts[w].at \in DOMAIN puts[w].chunks
      PROVE  Gained(s, c)
  <2>1. /\ \A r \in ServerIds : r # t => nodes'[r] = nodes[r]
        /\ DOMAIN nodes'[t].store = DOMAIN nodes[t].store \cup {Chunk(w).id}
        /\ nodes'[t].store[Chunk(w).id] = Bytes(w, puts[w].at)
        /\ \A d \in DOMAIN nodes[t].store :
              d # Chunk(w).id => nodes'[t].store[d] = nodes[t].store[d]
    BY <1>4, StoresNode
  <2>2. ServerIds' = ServerIds
    BY <1>4, MasterIdle
  <2> QED
    BY <1>4, <2>1, <2>2 DEF Gained
<1>5. ASSUME NEW w \in DOMAIN puts, Writer(w) \/ Quit(w) PROVE Gained(s, c)
  <2>1. \/ nodes' = nodes /\ ServerIds' = ServerIds
        \/ \E t \in ServerIds : /\ Stores(t, w) /\ UNCHANGED masterVars
                                /\ puts[w].at \in DOMAIN puts[w].chunks
    BY <1>5, SendChunkGood, PrimaryStoresGood, ForwardGood, SecondaryStoresGood,
       ForwardAnsweredGood, ChunkWrittenGood, WriteFailsGood, FailsGood DEF Writer, Quit, Moved
  <2> QED
    BY <1>1, <1>4, <2>1
<1>6. ASSUME NEW t \in ServerIds, DetectTimeouts(t) PROVE Gained(s, c)
  BY <1>1, <1>6, DetectTimeoutsGood
<1>7. ASSUME NEW r \in late, MasterHearsLate(r) PROVE Gained(s, c)
  BY <1>1, <1>7, LateGood
<1>8. ASSUME NEW p \in Paths, DeleteFile(p) \/ \E n \in 0 .. MaxChunks : Put(p, n)
      PROVE  Gained(s, c)
  BY <1>1, <1>8, DeleteFileGood, PutGood
<1>9. ASSUME UNCHANGED <<masterVars, nodes>> PROVE Gained(s, c)
  BY <1>1, <1>9, MasterIdle
<1> QED
  BY <1>2, <1>3, <1>5, <1>6, <1>7, <1>8, <1>9 DEF Next, Get, ReadChunk, vars

LEMMA StoredStays ==
  ASSUME Types, StoredRight, [Next]_vars
  PROVE  StoredRight'
<1> SUFFICES ASSUME NEW s \in ServerIds', NEW c \in DOMAIN nodes'[s].store
             PROVE  \E w \in DOMAIN puts' : \E i \in DOMAIN puts'[w].chunks :
                       puts'[w].chunks[i].id = c /\ nodes'[s].store[c] = Bytes(w, i)
  BY DEF StoredRight, Bytes
<1>1. Gained(s, c)
  BY StoresGain
<1>2. PICK w \in DOMAIN puts : \E i \in DOMAIN puts[w].chunks :
         puts[w].chunks[i].id = c /\ nodes'[s].store[c] = Bytes(w, i)
  BY <1>1 DEF StoredRight, Gained, Chunk
<1> QED
  BY <1>2, PutsGrow


-----------------------------------------------------------------------------
(* Files and the puts that made them *)

LEMMA MatchesAsBefore ==
  ASSUME SameFiles, DOMAIN files' \subseteq DOMAIN files,
         \A p \in DOMAIN files' : files'[p] = files[p],
         \A p \in DOMAIN files : FileMatches(p)
  PROVE  \A p \in DOMAIN files' : FileMatches(p)'
<1> SUFFICES ASSUME NEW p \in DOMAIN files' PROVE FileMatches(p)'
  OBVIOUS
<1>1. Creator(p)' = Creator(p) /\ FileMatches(p)
  BY CreatorStays
<1> QED
  BY <1>1 DEF FileMatches, SameFiles

LEMMA PutMatches ==
  ASSUME Types, NEW p \in Paths, NEW n \in 0 .. MaxChunks, Put(p, n),
         \A q \in DOMAIN files : FileMatches(q)
  PROVE  /\ \A q \in DOMAIN files' : FileMatches(q)'
         /\ \A q : Creator(q)' = IF q = p THEN Len(puts) + 1 ELSE Creator(q)
<1>t. PICK t : t = Len(puts)
  OBVIOUS
<1>1. /\ t \in Nat /\ DOMAIN puts = 1 .. t /\ DOMAIN puts' = DOMAIN puts \cup {t + 1}
      /\ \A v \in DOMAIN puts : puts'[v] = puts[v]
      /\ puts'[t + 1].path = p /\ puts'[t + 1].chunks = Allocated(n)
      /\ Allocate(p, n) /\ n \in Nat
  BY <1>t, TypeFacts, PutGood
<1>2. DOMAIN puts' = 1 .. t + 1 /\ \A v \in 1 .. t : puts'[v] = puts[v]
  BY <1>1
<1>3. \A q : Creator(q)' = IF p = q THEN t + 1 ELSE Creator(q)
  BY <1>1, <1>2, CreatorOfNew
<1>4. /\ p \notin DOMAIN files /\ DOMAIN files' = DOMAIN files \cup {p}
      /\ \A q \in DOMAIN files : files'[q] = files[q]
      /\ files'[p] = [i \in 1 .. n |-> nextChunk + i - 1]
  BY <1>1 DEF Allocate
<1>5. ASSUME NEW q \in DOMAIN files PROVE FileMatches(q)'
  <2>1. Creator(q)' = Creator(q) /\ FileMatches(q)
    BY <1>3, <1>4
  <2> QED
    BY <1>1, <1>4, <2>1 DEF FileMatches
<1>6. FileMatches(p)'
  <2>1. Creator(p)' = t + 1
    BY <1>3
  <2>2. PICK new : new = Allocated(n)
    OBVIOUS
  <2>3. /\ DOMAIN new = 1 .. n /\ Len(new) = n
        /\ \A i \in 1 .. n : new[i].id = nextChunk + i - 1
    BY <1>1, <2>2 DEF Allocated
  <2>4. Len(files'[p]) = n /\ DOMAIN files'[p] = 1 .. n
        /\ \A i \in 1 .. n : files'[p][i] = nextChunk + i - 1
    BY <1>1, <1>4
  <2> QED
    BY <1>1, <2>1, <2>2, <2>3, <2>4 DEF FileMatches
<1> QED
  BY <1>t, <1>3, <1>4, <1>5, <1>6

LEMMA MatchesStay ==
  ASSUME Types, [Next]_vars, \A p \in DOMAIN files : FileMatches(p)
  PROVE  \A p \in DOMAIN files' : FileMatches(p)'
<1>1. ASSUME NEW p \in Paths, NEW n \in 0 .. MaxChunks, Put(p, n)
      PROVE  \A q \in DOMAIN files' : FileMatches(q)'
  BY <1>1, PutMatches
<1>2. ASSUME NEW p \in Paths, DeleteFile(p) PROVE \A q \in DOMAIN files' : FileMatches(q)'
  <2>1. SameFiles /\ DOMAIN files' \subseteq DOMAIN files
        /\ \A q \in DOMAIN files' : files'[q] = files[q]
    BY <1>2 DEF DeleteFile, Delete, SameFiles
  <2> QED
    BY <2>1, MatchesAsBefore
<1>3. CASE SameFiles /\ UNCHANGED files
  BY <1>3, MatchesAsBefore
<1>4. ASSUME UNCHANGED <<masterVars, puts>> PROVE SameFiles /\ UNCHANGED files
  BY <1>4 DEF SameFiles, masterVars
<1> QED
  BY <1>1, <1>2, <1>3, <1>4, Kinds DEF Get, ReadChunk

-----------------------------------------------------------------------------
(* Gets *)

LEMMA LookupRight ==
  ASSUME Types, NEW p \in DOMAIN files, FileMatches(p)
  PROVE  LET w == Creator(p) IN
         /\ Lookup(p) \in Seq(Found) /\ w \in DOMAIN puts
         /\ DOMAIN Lookup(p) = DOMAIN files[p]
         /\ Len(Lookup(p)) = Len(puts[w].chunks)
         /\ \A i \in 1 .. Len(Lookup(p)) : Lookup(p)[i].id = puts[w].chunks[i].id
<1>0. MasterTypeOK /\ NamespaceSound
  BY DEF Types, IInv
<1>1. files[p] \in Seq(ChunkIds) /\ Len(files[p]) \in Nat /\ DOMAIN files[p] = 1 .. Len(files[p])
  BY <1>0, LenProperties DEF MasterTypeOK
<1>2. \A s \in ServerIds : AddrOf(s) \in Addrs
  <2>1. servers \in Seq([addr : Addrs, online : BOOLEAN])
    BY <1>0 DEF MasterTypeOK
  <2>2. \A s \in 1 .. Len(servers) : servers[s] \in [addr : Addrs, online : BOOLEAN]
    BY <2>1, ElementOfSeq
  <2> QED
    BY <2>2 DEF AddrOf, ServerIds
<1>3. ASSUME NEW i \in DOMAIN files[p] PROVE Located(files[p][i]) \in Found
  <2>1. PICK c \in ChunkIds : c = files[p][i]
    BY <1>1, ElementOfSeq
  <2>2. c \in DOMAIN chunks
    BY <1>0, <2>1 DEF NamespaceSound, Range
  <2>3. chunks[c].primary \in ServerIds /\ chunks[c].secondary \in ServerIds
    BY <1>0, <2>2 DEF MasterTypeOK, ChunkInfo
  <2>4. c \in Nat
    BY <1>0 DEF ChunkIds, MasterTypeOK
  <2> QED
    BY <1>2, <2>1, <2>3, <2>4 DEF Located, Found
<1>4. Lookup(p) = [i \in 1 .. Len(files[p]) |-> Located(files[p][i])]
  BY <1>1 DEF Lookup
<1>5. Lookup(p) \in Seq(Found) /\ Len(Lookup(p)) = Len(files[p]) /\ DOMAIN Lookup(p) = DOMAIN files[p]
  <2> HIDE DEF Found
  <2> QED
    BY <1>1, <1>3, <1>4, SeqDef
<1>6. \A i \in 1 .. Len(files[p]) : Lookup(p)[i].id = files[p][i]
  BY <1>4 DEF Located
<1> QED
  BY <1>1, <1>5, <1>6 DEF FileMatches

LEMMA GetFields ==
  ASSUME gets \in Seq(Download)
  PROVE  /\ DOMAIN gets = 1 .. Len(gets) /\ Len(gets) \in Nat
         /\ \A g \in DOMAIN gets : gets[g] \in Download
<1>1. DOMAIN gets = 1 .. Len(gets) /\ Len(gets) \in Nat
  BY LenProperties
<1>2. \A g \in 1 .. Len(gets) : gets[g] \in Download
  BY ElementOfSeq
<1> QED
  BY <1>1, <1>2

(* A get whose record does not change.                                     *)
LEMMA GetRightStays ==
  ASSUME Types, [Next]_vars, NEW g \in DOMAIN gets, GetRight(g), gets'[g] = gets[g]
  PROVE  GetRight(g)'
<1>1. /\ DOMAIN puts \subseteq DOMAIN puts'
      /\ \A w \in DOMAIN puts : puts'[w].chunks = puts[w].chunks
  BY PutsGrow
<1> QED
  BY <1>1 DEF GetRight, Bytes

LEMMA GetBegins ==
  ASSUME FInv, [Next]_vars, NEW p \in Paths, Get(p)
  PROVE  gets' \in Seq(Download) /\ \A g \in DOMAIN gets' : GetRight(g)'
<1> DEFINE e == [file |-> Creator(p), chunks |-> Lookup(p), got |-> <<>>, second |-> FALSE,
                 state |-> IF Lookup(p) = <<>> THEN "done" ELSE "reading"]
<1>t. PICK t : t = Len(gets) + 1
  OBVIOUS
<1>0. Types /\ gets \in Seq(Download) /\ p \in DOMAIN files /\ FileMatches(p)
  BY DEF FInv, WInv, Get, CanLookup
<1>1. gets' = Append(gets, e) /\ UNCHANGED puts
  BY DEF Get
<1>2. PICK w \in DOMAIN puts : w = Creator(p) /\ w \in Nat
  BY <1>0, LookupRight, TypeFacts
<1>3. PICK found \in Seq(Found) :
         /\ found = Lookup(p) /\ Len(found) = Len(puts[w].chunks)
         /\ \A i \in 1 .. Len(found) : found[i].id = puts[w].chunks[i].id
  BY <1>0, <1>2, LookupRight
<1>4. (found = <<>> <=> Len(found) = 0) /\ Len(found) \in Nat
  BY EmptySeq, LenProperties
<1>5. <<>> \in Seq(Nat \X Nat) /\ Len(<<>>) = 0
  OBVIOUS
<1>6. /\ e.file = w /\ e.chunks = found /\ e.got = <<>>
      /\ e.state = IF found = <<>> THEN "done" ELSE "reading"
      /\ e \in Download
  BY <1>2, <1>3, <1>5 DEF Download
<1> HIDE DEF e
<1>7. /\ gets' \in Seq(Download) /\ Len(gets') = t /\ gets'[t] = e
      /\ \A g \in DOMAIN gets : gets'[g] = gets[g]
      /\ DOMAIN gets' = DOMAIN gets \cup {t}
  <2>1. Len(gets) \in Nat /\ DOMAIN gets = 1 .. Len(gets)
    BY <1>0, LenProperties
  <2> QED
    BY <1>0, <1>1, <1>6, <1>t, <2>1, AppendProperties
<1>8. GetRight(t)'
  BY <1>1, <1>2, <1>3, <1>4, <1>5, <1>6, <1>7 DEF GetRight
<1>9. \A g \in DOMAIN gets : GetRight(g)'
  BY <1>0, <1>7, GetRightStays DEF FInv
<1> QED
  BY <1>7, <1>8, <1>9

(* A get reads the next chunk of its file, asks the other server, or       *)
(* fails.                                                                  *)
LEMMA ReadChunkEffect ==
  ASSUME FInv, NEW g \in DOMAIN gets, ReadChunk(g)
  PROVE  /\ gets[g].state = "reading" /\ UNCHANGED <<files, puts>>
         /\ \E e \in Download :
              /\ gets' = [gets EXCEPT ![g] = e]
              /\ e.file = gets[g].file /\ e.chunks = gets[g].chunks
              /\ \/ /\ e.got = Append(gets[g].got, Bytes(gets[g].file, Len(gets[g].got) + 1))
                    /\ e.state = IF Len(gets[g].got) + 1 = Len(gets[g].chunks)
                                 THEN "done" ELSE "reading"
                 \/ e.got = gets[g].got /\ e.state = "reading"
                 \/ e.got = gets[g].got /\ e.state = "failed"
<1>0. /\ Types /\ IdsUnique /\ StoredRight /\ GetRight(g)
      /\ gets \in Seq(Download)
  BY DEF FInv, WInv
<1> DEFINE get == gets[g]
           k == Len(get.got) + 1
<1>r. \/ \E s \in {s \in At(IF get.second THEN get.chunks[k].secondary
                                          ELSE get.chunks[k].primary) :
                     Holds(s, get.chunks[k].id)} :
           gets' = [gets EXCEPT
                 ![g].got = Append(@, nodes[s].store[get.chunks[k].id]),
                 ![g].second = FALSE,
                 ![g].state = IF k = Len(get.chunks) THEN "done" ELSE @]
      \/ gets' = IF ~get.second /\ get.chunks[k].secondary # NoAddr
                 THEN [gets EXCEPT ![g].second = TRUE]
                 ELSE [gets EXCEPT ![g].state = "failed"]
  BY DEF ReadChunk
<1>1. get \in Download /\ get = gets[g]
  BY <1>0, GetFields
<1>k. k = Len(get.got) + 1
  OBVIOUS
<1> HIDE DEF get, k
<1>2. /\ get.file \in Nat /\ get.chunks \in Seq(Found) /\ get.got \in Seq(Nat \X Nat)
      /\ get.second \in BOOLEAN /\ get.state \in {"reading", "done", "failed"}
      /\ get = [file |-> get.file, chunks |-> get.chunks, got |-> get.got,
                second |-> get.second, state |-> get.state]
  BY <1>1 DEF Download
<1>3. Len(get.got) \in Nat /\ Len(get.chunks) \in Nat
  BY <1>2, LenProperties
<1>4. get.state = "reading" /\ UNCHANGED <<files, puts>>
  BY <1>1 DEF ReadChunk, masterVars
<1>5. k \in 1 .. Len(get.chunks) /\ get.file \in DOMAIN puts
      /\ Len(get.chunks) = Len(puts[get.file].chunks)
      /\ get.chunks[k].id = puts[get.file].chunks[k].id
  <2>1. /\ get.file \in DOMAIN puts /\ Len(get.got) < Len(get.chunks)
        /\ Len(get.chunks) = Len(puts[get.file].chunks)
        /\ \A i \in 1 .. Len(get.chunks) : get.chunks[i].id = puts[get.file].chunks[i].id
    BY <1>0, <1>1, <1>4 DEF GetRight
  <2> QED
    BY <1>3, <1>k, <2>1
<1>6. k \in DOMAIN puts[get.file].chunks
  <2>1. puts[get.file].chunks \in Seq([id : ChunkIds, primary : Addrs, secondary : Addrs])
    BY <1>0, <1>5, TypeFacts DEF Upload
  <2> QED
    BY <1>5, <2>1, LenProperties
<1>7. ASSUME NEW s \in ServerIds, Holds(s, get.chunks[k].id)
      PROVE  nodes[s].store[get.chunks[k].id] = Bytes(get.file, k)
  <2>1. PICK w \in DOMAIN puts : \E i \in DOMAIN puts[w].chunks :
           puts[w].chunks[i].id = get.chunks[k].id /\ nodes[s].store[get.chunks[k].id] = Bytes(w, i)
    BY <1>0, <1>7 DEF StoredRight, Holds
  <2>2. PICK i \in DOMAIN puts[w].chunks :
           puts[w].chunks[i].id = get.chunks[k].id /\ nodes[s].store[get.chunks[k].id] = Bytes(w, i)
    BY <2>1
  <2>3. w = get.file /\ i = k
    BY <1>0, <1>5, <1>6, <2>2 DEF IdsUnique
  <2> QED
    BY <2>2, <2>3
<1>b. Bytes(get.file, k) \in Nat \X Nat
  BY <1>2, <1>5 DEF Bytes
<1> DEFINE new == Append(get.got, Bytes(get.file, k))
           last == k = Len(get.chunks)
           read == [get EXCEPT !.got = new, !.second = FALSE,
                               !.state = IF last THEN "done" ELSE "reading"]
           other == [get EXCEPT !.second = TRUE]
           lost == [get EXCEPT !.state = "failed"]
<1>8. \/ gets' = [gets EXCEPT ![g] = read]
      \/ gets' = [gets EXCEPT ![g] = other]
      \/ gets' = [gets EXCEPT ![g] = lost]
  <2> DEFINE found == {s \in At(IF get.second THEN get.chunks[k].secondary
                                              ELSE get.chunks[k].primary) :
                         Holds(s, get.chunks[k].id)}
  <2>1. CASE \E s \in found : gets' = [gets EXCEPT
                 ![g].got = Append(@, nodes[s].store[get.chunks[k].id]),
                 ![g].second = FALSE,
                 ![g].state = IF k = Len(get.chunks) THEN "done" ELSE @]
    <3>1. PICK s \in found : gets' = [gets EXCEPT
                 ![g].got = Append(@, nodes[s].store[get.chunks[k].id]),
                 ![g].second = FALSE,
                 ![g].state = IF k = Len(get.chunks) THEN "done" ELSE @]
      BY <2>1
    <3>2. nodes[s].store[get.chunks[k].id] = Bytes(get.file, k)
      BY <1>7 DEF At
    <3> QED
      BY <1>1, <1>4, <3>1, <3>2
  <2>2. CASE gets' = IF ~get.second /\ get.chunks[k].secondary # NoAddr
                     THEN [gets EXCEPT ![g].second = TRUE]
                     ELSE [gets EXCEPT ![g].state = "failed"]
    BY <1>1, <2>2
  <2> QED
    BY <1>r, <2>1, <2>2
<1>9. new \in Seq(Nat \X Nat)
  BY <1>2, <1>b, AppendProperties
<1> HIDE DEF new, last
<1>10. /\ read \in Download /\ read.file = get.file /\ read.chunks = get.chunks
       /\ read.got = new /\ read.state = IF last THEN "done" ELSE "reading"
  BY <1>2, <1>9 DEF Download
<1>11. /\ other \in Download /\ other.file = get.file /\ other.chunks = get.chunks
       /\ other.got = get.got /\ other.state = "reading"
  BY <1>2, <1>4 DEF Download
<1>12. /\ lost \in Download /\ lost.file = get.file /\ lost.chunks = get.chunks
       /\ lost.got = get.got /\ lost.state = "failed"
  BY <1>2 DEF Download
<1> HIDE DEF read, other, lost
<1> QED
  BY <1>1, <1>4, <1>k, <1>8, <1>10, <1>11, <1>12 DEF new, last

LEMMA ReadKeeps ==
  ASSUME FInv, [Next]_vars, NEW g \in DOMAIN gets, ReadChunk(g)
  PROVE  gets' \in Seq(Download) /\ \A h \in DOMAIN gets' : GetRight(h)'
<1>0. Types /\ gets \in Seq(Download) /\ GetRight(g)
  BY DEF FInv, WInv
<1>1. PICK f : f = gets[g].file
  OBVIOUS
<1>2. PICK e \in Download :
        /\ gets' = [gets EXCEPT ![g] = e]
        /\ e.file = f /\ e.chunks = gets[g].chunks
        /\ \/ /\ e.got = Append(gets[g].got, Bytes(f, Len(gets[g].got) + 1))
              /\ e.state = IF Len(gets[g].got) + 1 = Len(gets[g].chunks) THEN "done" ELSE "reading"
           \/ e.got = gets[g].got /\ e.state = "reading"
           \/ e.got = gets[g].got /\ e.state = "failed"
  BY <1>1, ReadChunkEffect
<1>3. gets[g].state = "reading" /\ UNCHANGED puts
  BY ReadChunkEffect
<1>4. gets' \in Seq(Download) /\ DOMAIN gets' = DOMAIN gets /\ gets'[g] = e
      /\ \A h \in DOMAIN gets : h # g => gets'[h] = gets[h]
  BY <1>0, <1>2, GetFields, ExceptSeq
<1>5. gets[g].got \in Seq(Nat \X Nat) /\ f \in Nat
      /\ Len(gets[g].got) \in Nat /\ Len(gets[g].chunks) \in Nat
  <2>1. gets[g] \in Download
    BY <1>0, GetFields
  <2> QED
    BY <1>1, <2>1, LenProperties DEF Download
<1>6. GetRight(g)'
  <2>0. Len(gets[g].got) < Len(gets[g].chunks)
    BY <1>0, <1>3 DEF GetRight
  <2>1. CASE /\ e.got = Append(gets[g].got, Bytes(f, Len(gets[g].got) + 1))
             /\ e.state = IF Len(gets[g].got) + 1 = Len(gets[g].chunks) THEN "done" ELSE "reading"
    <3>1. Bytes(f, Len(gets[g].got) + 1) \in Nat \X Nat
      BY <1>5 DEF Bytes
    <3>2. /\ Len(e.got) = Len(gets[g].got) + 1
          /\ e.got[Len(gets[g].got) + 1] = Bytes(f, Len(gets[g].got) + 1)
          /\ \A i \in 1 .. Len(gets[g].got) : e.got[i] = gets[g].got[i]
      BY <1>5, <2>1, <3>1, AppendProperties
    <3>3. \A i \in 1 .. Len(e.got) : e.got[i] = Bytes(f, i)
      <4>1. \A i \in 1 .. Len(gets[g].got) : gets[g].got[i] = Bytes(f, i)
        BY <1>0, <1>1 DEF GetRight
      <4>2. \A i \in 1 .. Len(e.got) : i \in 1 .. Len(gets[g].got) \/ i = Len(gets[g].got) + 1
        BY <1>5, <3>2
      <4> QED
        BY <3>2, <4>1, <4>2
    <3>4. /\ e.state = "reading" => Len(e.got) < Len(gets[g].chunks)
          /\ e.state = "done" => Len(e.got) = Len(gets[g].chunks)
      BY <1>5, <2>0, <2>1, <3>2
    <3> QED
      BY <1>0, <1>1, <1>2, <1>3, <1>4, <3>3, <3>4 DEF GetRight, Bytes
  <2>2. CASE e.got = gets[g].got /\ e.state \in {"reading", "failed"}
    BY <1>0, <1>1, <1>2, <1>3, <1>4, <2>0, <2>2 DEF GetRight, Bytes
  <2> QED
    BY <1>2, <2>1, <2>2
<1>7. \A h \in DOMAIN gets : h # g => GetRight(h)'
  BY <1>0, <1>4, GetRightStays DEF FInv
<1> QED
  BY <1>4, <1>6, <1>7

LEMMA GetsStay ==
  ASSUME FInv, [Next]_vars
  PROVE  gets' \in Seq(Download) /\ \A g \in DOMAIN gets' : GetRight(g)'
<1>0. Types
  BY DEF FInv, WInv
<1>1. CASE UNCHANGED gets
  BY <1>0, <1>1, GetRightStays DEF FInv
<1>2. ASSUME NEW p \in Paths, Get(p)
      PROVE  gets' \in Seq(Download) /\ \A g \in DOMAIN gets' : GetRight(g)'
  BY <1>2, GetBegins
<1>3. ASSUME NEW g \in DOMAIN gets, ReadChunk(g)
      PROVE  gets' \in Seq(Download) /\ \A h \in DOMAIN gets' : GetRight(h)'
  BY <1>3, ReadKeeps
<1> QED
  BY <1>0, <1>1, <1>2, <1>3, Kinds DEF Put, DeleteFile

LEMMA InitFInv == Init => FInv
<1> SUFFICES ASSUME Init PROVE FInv
  OBVIOUS
<1>1. nodes = <<>> /\ puts = <<>> /\ gets = <<>> /\ files = <<>> /\ servers = <<>>
  BY DEF Init, MasterInit
<1>2. DOMAIN gets = {} /\ DOMAIN files = {} /\ ServerIds = {} /\ gets \in Seq(Download)
  BY <1>1 DEF ServerIds
<1>3. WInv /\ NamespaceSound
  BY InitWInv DEF WInv, Types, IInv
<1> QED
  BY <1>2, <1>3 DEF FInv, StoredRight

LEMMA StepFInv == FInv /\ [Next]_vars => FInv'
<1> SUFFICES ASSUME FInv, [Next]_vars PROVE FInv'
  OBVIOUS
<1>1. Types /\ StoredRight /\ WInv /\ \A p \in DOMAIN files : FileMatches(p)
  BY DEF FInv, WInv
<1>2. WInv'
  BY <1>1, StepWInv
<1>3. NamespaceSound'
  BY <1>2 DEF WInv, Types, IInv
<1>4. StoredRight'
  BY <1>1, StoredStays
<1>5. \A p \in DOMAIN files' : FileMatches(p)'
  BY <1>1, MatchesStay
<1>6. gets' \in Seq(Download) /\ \A g \in DOMAIN gets' : GetRight(g)'
  BY GetsStay
<1> QED
  BY <1>2, <1>3, <1>4, <1>5, <1>6 DEF FInv

LEMMA FilesHold == Spec => []FInv
BY InitFInv, StepFInv, PTL DEF Spec

-----------------------------------------------------------------------------
(* The cluster implements FileService *)

Sizes == [w \in DOMAIN puts |-> Len(puts[w].chunks)]
FileOf == [p \in Paths |-> IF p \in DOMAIN files THEN Creator(p) ELSE 0]

ReadOf(g) == [file |-> gets[g].file,
              state |-> IF gets[g].state = "reading" THEN "open" ELSE gets[g].state,
              data |-> IF gets[g].state = "done" THEN gets[g].got ELSE <<>>]

Reads == [g \in DOMAIN gets |-> ReadOf(g)]

LEMMA Appended ==
  ASSUME NEW S, NEW n \in Nat, NEW f, f = [i \in 1 .. n |-> f[i]], \A i \in 1 .. n : f[i] \in S,
         NEW e \in S, NEW h, h = [i \in 1 .. n + 1 |-> h[i]],
         h[n + 1] = e, \A i \in 1 .. n : h[i] = f[i]
  PROVE  h = Append(f, e)
<1>1. f \in Seq(S) /\ Len(f) = n
  BY SeqDef
<1>2. /\ Append(f, e) \in Seq(S) /\ Len(Append(f, e)) = n + 1
      /\ Append(f, e)[n + 1] = e /\ \A i \in 1 .. n : Append(f, e)[i] = f[i]
  BY <1>1, AppendProperties
<1>3. Append(f, e) = [i \in 1 .. n + 1 |-> Append(f, e)[i]]
  BY <1>2, SeqDef
<1>4. \A i \in 1 .. n + 1 : i \in 1 .. n \/ i = n + 1
  OBVIOUS
<1>5. \A i \in 1 .. n + 1 : h[i] = Append(f, e)[i]
  BY <1>2, <1>4
<1>6. PICK a : a = Append(f, e)
  OBVIOUS
<1>7. a = [i \in 1 .. n + 1 |-> a[i]] /\ \A i \in 1 .. n + 1 : h[i] = a[i]
  BY <1>3, <1>5, <1>6
<1>8. h = a
  BY <1>7
<1> QED
  BY <1>6, <1>8

LEMMA ServiceInit == Init => Files!Init
<1> SUFFICES ASSUME Init PROVE Files!Init
  OBVIOUS
<1>1. DOMAIN puts = {} /\ DOMAIN gets = {} /\ DOMAIN files = {}
  BY DEF Init, MasterInit
<1>2. Sizes = <<>> /\ Reads = <<>>
  BY <1>1 DEF Sizes, Reads
<1>3. FileOf = [p \in Paths |-> 0]
  BY <1>1 DEF FileOf
<1> QED
  BY <1>2, <1>3 DEF Files!Init, Sizes, Reads, ReadOf, FileOf

ServiceStep == Files!Next \/ UNCHANGED Files!fileVars

(* A put creates a file, as soon as the master accepts it.                 *)
LEMMA PutServed ==
  ASSUME FInv, NEW p \in Paths, NEW n \in 0 .. MaxChunks, Put(p, n)
  PROVE  Files!Create(p, n)
<1>t. PICK t : t = Len(puts)
  OBVIOUS
<1>0. Types /\ \A q \in DOMAIN files : FileMatches(q)
  BY DEF FInv, WInv
<1>1. /\ t \in Nat /\ DOMAIN puts = 1 .. t /\ DOMAIN puts' = 1 .. t + 1
      /\ \A v \in DOMAIN puts : puts'[v] = puts[v] /\ puts[v] \in Upload
      /\ puts'[t + 1].chunks = Allocated(n) /\ Allocate(p, n) /\ n \in Nat
      /\ UNCHANGED gets
  BY <1>0, <1>t, TypeFacts, PutGood DEF Put
<1>2. Len(Allocated(n)) = n
  BY <1>1 DEF Allocated
<1>3. Sizes' = Append(Sizes, n)
  <2>1. \A v \in DOMAIN puts : Len(puts[v].chunks) \in Nat
    BY <1>1, LenProperties DEF Upload
  <2>2. Sizes = [v \in 1 .. t |-> Sizes[v]] /\ \A v \in 1 .. t : Sizes[v] \in Nat
    BY <1>1, <2>1 DEF Sizes
  <2>3. /\ Sizes' = [v \in 1 .. t + 1 |-> Sizes'[v]] /\ Sizes'[t + 1] = n
        /\ \A v \in 1 .. t : Sizes'[v] = Sizes[v]
    BY <1>1, <1>2 DEF Sizes
  <2> HIDE DEF Sizes
  <2> QED
    BY <1>1, <2>2, <2>3, Appended
<1>4. Len(Sizes) = t
  BY <1>1, LenProperties DEF Sizes
<1>5. FileOf' = [FileOf EXCEPT ![p] = t + 1] /\ FileOf[p] = 0
  <2>1. \A q : Creator(q)' = IF q = p THEN t + 1 ELSE Creator(q)
    BY <1>0, <1>t, PutMatches
  <2>2. p \notin DOMAIN files /\ DOMAIN files' = DOMAIN files \cup {p}
    BY <1>1 DEF Allocate
  <2> QED
    BY <2>1, <2>2 DEF FileOf
<1>6. Reads' = Reads
  BY <1>1 DEF Reads, ReadOf
<1> QED
  BY <1>3, <1>4, <1>5, <1>6 DEF Files!Create, Sizes, FileOf, Reads, ReadOf

LEMMA DeleteServed ==
  ASSUME FInv, NEW p \in Paths, DeleteFile(p)
  PROVE  Files!Remove(p)
<1>0. Types /\ FileMatches(p) /\ p \in DOMAIN files
  BY DEF FInv, WInv, DeleteFile, Delete
<1>1. /\ DOMAIN files' = DOMAIN files \ {p} /\ UNCHANGED <<puts, gets>>
  BY DEF DeleteFile, Delete
<1>2. Creator(p) # 0
  BY <1>0, TypeFacts DEF FileMatches
<1>3. \A q : Creator(q)' = Creator(q)
  BY <1>1 DEF Creator
<1>4. FileOf' = [FileOf EXCEPT ![p] = 0] /\ FileOf[p] # 0
  BY <1>0, <1>1, <1>2, <1>3 DEF FileOf
<1>5. Sizes' = Sizes /\ Reads' = Reads
  BY <1>1 DEF Sizes, Reads, ReadOf
<1> QED
  BY <1>4, <1>5 DEF Files!Remove, Sizes, FileOf, Reads, ReadOf

LEMMA OpenServed ==
  ASSUME FInv, NEW p \in Paths, Get(p)
  PROVE  Files!Open(p)
<1> DEFINE e == [file |-> Creator(p), chunks |-> Lookup(p), got |-> <<>>, second |-> FALSE,
                 state |-> IF Lookup(p) = <<>> THEN "done" ELSE "reading"]
           r == [file |-> FileOf[p], data |-> <<>>,
                 state |-> IF Sizes[FileOf[p]] = 0 THEN "done" ELSE "open"]
<1>0. Types /\ gets \in Seq(Download) /\ p \in DOMAIN files /\ FileMatches(p)
  BY DEF FInv, WInv, Get, CanLookup
<1>1. gets' = Append(gets, e) /\ UNCHANGED <<files, puts>>
  BY DEF Get, masterVars
<1>2. PICK w \in DOMAIN puts : w = Creator(p) /\ w \in Nat /\ w # 0
  BY <1>0, LookupRight, TypeFacts
<1>3. PICK found \in Seq(Found) : found = Lookup(p) /\ Len(found) = Len(puts[w].chunks)
  BY <1>0, <1>2, LookupRight
<1>4. found = <<>> <=> Len(found) = 0
  BY EmptySeq
<1>5. FileOf[p] = w /\ Sizes[w] = Len(puts[w].chunks)
  BY <1>0, <1>2 DEF FileOf, Sizes
<1>t. PICK t : t = Len(gets)
  OBVIOUS
<1>6. t \in Nat /\ DOMAIN gets = 1 .. t /\ DOMAIN gets' = 1 .. t + 1
      /\ gets'[t + 1] = e /\ \A g \in 1 .. t : gets'[g] = gets[g]
  BY <1>0, <1>1, <1>t, LenProperties
<1>7. ReadOf(t + 1)' = r
  BY <1>2, <1>3, <1>4, <1>5, <1>6 DEF ReadOf
<1>8. Reads' = Append(Reads, r)
  <2> DEFINE S == {r} \cup {ReadOf(g) : g \in 1 .. t}
  <2>1. Reads = [g \in 1 .. t |-> Reads[g]] /\ \A g \in 1 .. t : Reads[g] \in S
    BY <1>6 DEF Reads
  <2>2. /\ Reads' = [g \in 1 .. t + 1 |-> Reads'[g]] /\ Reads'[t + 1] = r
        /\ \A g \in 1 .. t : Reads'[g] = Reads[g]
    <3>1. \A g \in 1 .. t : ReadOf(g)' = ReadOf(g)
      BY <1>6 DEF ReadOf
    <3> QED
      BY <1>6, <1>7, <3>1 DEF Reads
  <2>3. r \in S
    OBVIOUS
  <2> HIDE DEF r, S, Reads
  <2> QED
    BY <1>6, <2>1, <2>2, <2>3, Appended
<1>9. FileOf[p] # 0
  BY <1>2, <1>5
<1>10. Sizes' = Sizes /\ FileOf' = FileOf
  BY <1>1 DEF Sizes, FileOf, Creator
<1> QED
  BY <1>8, <1>9, <1>10 DEF Files!Open, Sizes, FileOf, Reads, ReadOf

LEMMA ReadServed ==
  ASSUME FInv, [Next]_vars, NEW g \in DOMAIN gets, ReadChunk(g)
  PROVE  ServiceStep
<1>0. Types /\ gets \in Seq(Download) /\ DOMAIN gets = 1 .. Len(gets)
  BY GetFields DEF FInv, WInv
<1>1. PICK e \in Download :
        /\ gets' = [gets EXCEPT ![g] = e]
        /\ e.file = gets[g].file /\ e.chunks = gets[g].chunks
        /\ e.state \in {"reading", "done", "failed"}
  BY ReadChunkEffect
<1>2. gets[g].state = "reading" /\ UNCHANGED <<files, puts>>
  BY ReadChunkEffect
<1>3. Sizes' = Sizes /\ FileOf' = FileOf
  BY <1>2 DEF Sizes, FileOf, Creator
<1>4. /\ DOMAIN gets' = DOMAIN gets /\ gets'[g] = e
      /\ \A h \in DOMAIN gets : h # g => gets'[h] = gets[h]
  BY <1>1
<1>5. \A h \in DOMAIN gets : h # g => ReadOf(h)' = ReadOf(h)
  BY <1>4 DEF ReadOf
<1>6. ReadOf(g) = [file |-> gets[g].file, state |-> "open", data |-> <<>>]
  BY <1>2 DEF ReadOf
<1>7. CASE e.state = "reading"
  <2>1. ReadOf(g)' = ReadOf(g)
    BY <1>1, <1>4, <1>6, <1>7 DEF ReadOf
  <2>2. Reads' = Reads
    BY <1>4, <1>5, <2>1 DEF Reads
  <2> QED
    BY <1>3, <2>2 DEF ServiceStep, Files!fileVars, Sizes, FileOf, Reads, ReadOf
<1>8. CASE e.state = "failed"
  <2>1. ReadOf(g)' = [ReadOf(g) EXCEPT !.state = "failed"]
    BY <1>1, <1>4, <1>6, <1>8 DEF ReadOf
  <2>2. Reads' = [Reads EXCEPT ![g].state = "failed"]
    BY <1>4, <1>5, <2>1 DEF Reads
  <2>3. Reads[g].state = "open"
    BY <1>6 DEF Reads
  <2>4. Files!Answer(g)
    BY <1>3, <2>2, <2>3 DEF Files!Answer, Sizes, FileOf, Reads, ReadOf
  <2> QED
    BY <2>4 DEF ServiceStep, Files!Next, Reads
<1>9. CASE e.state = "done"
  <2>1. PICK f \in DOMAIN puts : f = gets[g].file
    BY DEF FInv, GetRight
  <2>2. GetRight(g)'
    BY <1>4, ReadKeeps
  <2>3. /\ \A i \in 1 .. Len(e.got) : e.got[i] = Bytes(f, i)
        /\ Len(e.got) = Len(puts[f].chunks)
    BY <1>1, <1>2, <1>4, <1>9, <2>1, <2>2 DEF GetRight, Bytes
  <2>4. e.got \in Seq(Nat \X Nat)
    BY DEF Download
  <2>5. PICK got : got = e.got
    OBVIOUS
  <2>6. got = [i \in 1 .. Sizes[f] |-> <<f, i>>]
    <3>1. got = [i \in 1 .. Len(got) |-> got[i]]
      BY <2>4, <2>5, SeqDef
    <3>2. \A i \in 1 .. Len(got) : got[i] = <<f, i>>
      BY <2>3, <2>5 DEF Bytes
    <3>3. Len(got) = Sizes[f]
      BY <2>1, <2>3, <2>5 DEF Sizes
    <3> QED
      BY <3>1, <3>2, <3>3
  <2>7. ReadOf(g)' = [file |-> f, state |-> "done", data |-> got]
    BY <1>1, <1>4, <1>9, <2>1, <2>5 DEF ReadOf
  <2>8. Reads[g].state = "open" /\ Reads[g].file = f
    BY <1>6, <2>1 DEF Reads
  <2>9. Reads' = [Reads EXCEPT ![g].state = "done", ![g].data = got]
    <3> DEFINE r == [file |-> f, state |-> "done", data |-> got]
    <3>1. Reads' = [Reads EXCEPT ![g] = r]
      <4> HIDE DEF r
      <4>1. ReadOf(g)' = r
        BY <2>7 DEF r
      <4> QED
        BY <1>4, <1>5, <4>1 DEF Reads
    <3>2. Reads[g] = [file |-> f, state |-> "open", data |-> <<>>] /\ g \in DOMAIN Reads
      BY <1>6, <2>1 DEF Reads
    <3>3. [Reads EXCEPT ![g].state = "done", ![g].data = got] = [Reads EXCEPT ![g] = r]
      <4> DEFINE done == [Reads EXCEPT ![g].state = "done"]
      <4>1. [Reads EXCEPT ![g].state = "done", ![g].data = got] = [done EXCEPT ![g].data = got]
        OBVIOUS
      <4>2. done = [Reads EXCEPT ![g] = [file |-> f, state |-> "done", data |-> <<>>]]
        <5>1. PICK o : o = Reads[g]
          OBVIOUS
        <5>2. [o EXCEPT !.state = "done"] = [file |-> f, state |-> "done", data |-> <<>>]
          BY <3>2, <5>1
        <5> QED
          BY <5>1, <5>2, Zenon
      <4>3. DOMAIN done = DOMAIN Reads /\ done[g] = [file |-> f, state |-> "done", data |-> <<>>]
            /\ \A h \in DOMAIN Reads : h # g => done[h] = Reads[h]
        BY <3>2, <4>2
      <4>4. [done[g] EXCEPT !.data = got] = r
        BY <4>3
      <4> HIDE DEF done, Reads, r
      <4>5. [done EXCEPT ![g].data = got] = [done EXCEPT ![g] = r]
        BY <4>4
      <4>6. [done EXCEPT ![g] = r] = [Reads EXCEPT ![g] = r]
        BY <4>3
      <4> QED
        BY <4>1, <4>5, <4>6 DEF done
    <3> QED
      BY <3>1, <3>3
  <2>10. Files!Whole(f) = got
    BY <2>6 DEF Files!Whole, Sizes
  <2>11. Files!Answer(g)
    BY <1>3, <2>8, <2>9, <2>10 DEF Files!Answer, Sizes, FileOf, Reads, ReadOf
  <2> QED
    BY <2>11 DEF ServiceStep, Files!Next, Reads
<1> QED
  BY <1>1, <1>7, <1>8, <1>9

LEMMA ServiceNext == FInv /\ [Next]_vars => [Files!Next]_(Files!fileVars)
<1> SUFFICES ASSUME FInv, [Next]_vars PROVE ServiceStep
  BY DEF ServiceStep
<1>0. Types
  BY DEF FInv, WInv
<1>1. ASSUME NEW p \in Paths, NEW n \in 0 .. MaxChunks, Put(p, n) PROVE ServiceStep
  BY <1>1, PutServed DEF ServiceStep, Files!Next
<1>2. ASSUME NEW p \in Paths, DeleteFile(p) PROVE ServiceStep
  BY <1>2, DeleteServed DEF ServiceStep, Files!Next
<1>3. ASSUME NEW p \in Paths, Get(p) PROVE ServiceStep
  BY <1>3, OpenServed DEF ServiceStep, Files!Next
<1>4. ASSUME NEW g \in DOMAIN gets, ReadChunk(g) PROVE ServiceStep
  BY <1>4, ReadServed
<1>5. CASE SameFiles /\ UNCHANGED <<files, gets>>
  <2>1. Sizes' = Sizes
    BY <1>5 DEF Sizes, SameFiles
  <2>2. FileOf' = FileOf
    BY <1>5, CreatorStays DEF FileOf
  <2>3. Reads' = Reads
    BY <1>5 DEF Reads, ReadOf
  <2> QED
    BY <2>1, <2>2, <2>3 DEF ServiceStep, Files!fileVars, Sizes, FileOf, Reads, ReadOf
<1> QED
  BY <1>0, <1>1, <1>2, <1>3, <1>4, <1>5, Kinds

(* The gets of the clients, whatever else goes on: puts, deletions, drops, *)
(* servers that stop, start and change places, are those of FileService.   *)
THEOREM ServiceImplemented == Spec => ImplementsFileService
BY FilesHold, ServiceInit, ServiceNext, PTL DEF Spec, Files!Spec, ImplementsFileService

-----------------------------------------------------------------------------
(* Reading what was acknowledged *)

(* The two addresses of a lookup cover the replicas that are online.       *)
LEMMA LocatedCovers ==
  ASSUME NEW c, NEW s \in ServerIds, s \in Survivors(c), Serving(s)
  PROVE  s \in At(Located(c).primary) \cup At(Located(c).secondary)
<1> DEFINE first == IF chunks[c].primary \in Online THEN chunks[c].primary
                                                    ELSE chunks[c].secondary
<1>1. Located(c).primary = AddrOf(first)
  BY DEF Located
<1>2. CASE s = first
  BY <1>1, <1>2 DEF At
<1>3. CASE s # first
  <2>1. s = chunks[c].secondary /\ Survivors(c) # {first}
    BY <1>3 DEF Survivors
  <2>2. Located(c).secondary = AddrOf(s)
    BY <2>1 DEF Located
  <2> QED
    BY <2>2 DEF At
<1> QED
  BY <1>2, <1>3

(* A file that was put to the end can be looked up and read while each of  *)
(* its chunks has a replica that serves and is online (lookup,             *)
(* read_chunk_full).                                                       *)
THEOREM AckedAlwaysReadable == Spec => []AckedReadable
<1>1. FInv => AckedReadable
  <2> SUFFICES ASSUME FInv, NEW p \in DOMAIN files, puts[Creator(p)].state = "acked",
                      \A c \in Range(files[p]) : {s \in Survivors(c) : Serving(s)} # {}
               PROVE  /\ CanLookup(p)
                      /\ \A i \in DOMAIN files[p] :
                           \E s \in At(Lookup(p)[i].primary) \cup At(Lookup(p)[i].secondary) :
                              /\ Holds(s, files[p][i])
                              /\ nodes[s].store[files[p][i]] = Bytes(Creator(p), i)
    BY DEF AckedReadable
  <2>0. /\ Types /\ MasterTypeOK /\ NamespaceSound /\ FileMatches(p)
        /\ \A w \in DOMAIN puts : Ahead(w)
    BY DEF FInv, WInv, Types, IInv, PutKept
  <2>1. \A c \in Range(files[p]) :
           /\ c \in DOMAIN chunks /\ ~chunks[c].deleted
           /\ chunks[c].holders = {chunks[c].primary, chunks[c].secondary}
    BY <2>0 DEF NamespaceSound
  <2>2. CanLookup(p)
    BY <2>1 DEF CanLookup
  <2>3. ASSUME NEW i \in DOMAIN files[p]
        PROVE  \E s \in At(Lookup(p)[i].primary) \cup At(Lookup(p)[i].secondary) :
                  /\ Holds(s, files[p][i])
                  /\ nodes[s].store[files[p][i]] = Bytes(Creator(p), i)
    <3>1. PICK w \in DOMAIN puts : w = Creator(p)
      BY <2>0 DEF FileMatches
    <3>2. PICK c : c = files[p][i] /\ c \in Range(files[p])
      BY DEF Range
    <3>3. c = puts[w].chunks[i].id /\ Len(files[p]) = Len(puts[w].chunks)
      BY <2>0, <3>1, <3>2 DEF FileMatches
    <3>4. i \in DOMAIN puts[w].chunks
      <4>1. files[p] \in Seq(ChunkIds)
        BY <2>0 DEF MasterTypeOK
      <4>2. puts[w].chunks \in Seq([id : ChunkIds, primary : Addrs, secondary : Addrs])
        BY <2>0, TypeFacts DEF Upload
      <4> QED
        BY <3>3, <4>1, <4>2, LenProperties
    <3>5. i \in Acked(w)
      BY <3>1, <3>4 DEF Acked
    <3>6. PICK s \in Survivors(c) : Serving(s)
      BY <3>2
    <3>7. s \in ServerIds /\ Wanted(s, c)
      BY <2>1, <3>2, <3>6 DEF Survivors, Online, Wanted
    <3>8. Holds(s, c) /\ nodes[s].store[c] = Bytes(w, i)
      BY <2>0, <3>3, <3>5, <3>6, <3>7 DEF Ahead, Kept, Replica
    <3>9. s \in At(Located(c).primary) \cup At(Located(c).secondary)
      BY <3>6, <3>7, LocatedCovers
    <3>10. Lookup(p)[i] = Located(c)
      BY <3>2 DEF Lookup
    <3> QED
      BY <3>1, <3>2, <3>8, <3>9, <3>10
  <2> QED
    BY <2>2, <2>3
<1> QED
  BY <1>1, FilesHold, PTL
=============================================================================

---------------------------- MODULE EventServer ----------------------------
(***************************************************************************)
(* locks/src/bin/event_server.rs: one thread, which polls for readiness    *)
(* and serves all connections, and the LineFramer of locks/src/lib.rs at   *)
(* each of them. Readiness is edge-triggered: an event is reported once,   *)
(* when something changes or when the socket is registered again.          *)
(* The slot of a connection in the slab, and its token, stand for the      *)
(* connection: an event of a batch only ever frees its own slot.           *)
(***************************************************************************)
EXTENDS LockClients

VARIABLES backlog,      \* connections the listener has not accepted
          holder,       \* LockEntry.holder, per lock
          waiters,      \* LockEntry.waiters, per lock, oldest first
          clients,      \* the connections in the slab
          client,       \* their ClientState, and the interest they registered
          ready,        \* connections the next poll looks at
          batch,        \* per connection, the rest of the events being handled
          accepting,    \* the batch has an event of the listener
          doomed,       \* to_disconnect, at the end of an iteration
          cur,          \* the connection whose event is being handled
          pc            \* where the thread is

tableVars == <<holder, waiters>>
slabVars == <<clients, client, ready>>
loopVars == <<batch, accepting, doomed, cur, pc>>
vars == <<clientVars, backlog, tableVars, slabVars, loopVars>>

ClientState == [lines : Seq(Line), out : Seq(Reply), waiting_for : Locks \cup {None},
                held : Seq(Locks), wants_write : BOOLEAN, writable : BOOLEAN]

Fresh == [lines |-> <<>>, out |-> <<>>, waiting_for |-> None,
          held |-> <<>>, wants_write |-> FALSE, writable |-> FALSE]

TypeOK ==
  /\ ClientsTypeOK
  /\ backlog \subseteq Conns
  /\ holder \in [Locks -> Conns \cup {None}]
  /\ waiters \in [Locks -> Seq(Conns)]
  /\ clients \subseteq Conns /\ ready \subseteq clients /\ doomed \subseteq clients
  /\ client \in [Conns -> ClientState]
  /\ batch \in [Conns -> SUBSET {"read", "write"}]
  /\ accepting \in BOOLEAN
  /\ cur \in clients \cup {None}
  /\ pc \in {"poll", "events", "lines", "drop"}

Init ==
  /\ ClientsInit
  /\ backlog = {}
  /\ holder = [l \in Locks |-> None]
  /\ waiters = [l \in Locks |-> <<>>]
  /\ clients = {} /\ ready = {}
  /\ client = [c \in Conns |-> Fresh]
  /\ batch = [c \in Conns |-> {}]
  /\ accepting = FALSE /\ doomed = {} /\ cur = None
  /\ pc = "poll"

----------------------------------------------------------------------------
(* Readiness of a socket, whose interest in writing is w.                  *)

Readable(c) == inbox[c] # <<>> \/ link[c] = "closed"

Flags(c, w) == {f \in {"read", "write"} :
                  (f = "read" /\ Readable(c)) \/ (f = "write" /\ w /\ Room(c) > 0)}

(* Of the sockets in S, registered with interest in writing as w says,     *)
(* those the next poll looks at.                                           *)
Rearmed(S, w) == {c \in S : Flags(c, w) # {}}

Quiet == \A c \in Conns : batch[c] = {}

Poll ==
  /\ pc = "poll"
  /\ batch' = [c \in Conns |-> IF c \in ready THEN Flags(c, client[c].writable) ELSE {}]
  /\ accepting' = (backlog # {})
  /\ backlog # {} \/ \E c \in Conns : batch'[c] # {}
  /\ ready' = {}
  /\ pc' = "events"
  /\ UNCHANGED <<clientVars, backlog, tableVars, clients, client, doomed, cur>>

(* The listener accepts every connection there is.                         *)
Accept ==
  /\ pc = "events" /\ cur = None /\ accepting
  /\ clients' = clients \cup backlog
  /\ client' = [c \in Conns |-> IF c \in backlog THEN Fresh ELSE client[c]]
  /\ ready' = ready \cup Rearmed(backlog, FALSE)
  /\ backlog' = {}
  /\ accepting' = FALSE
  /\ UNCHANGED <<clientVars, tableVars, batch, doomed, cur, pc>>

----------------------------------------------------------------------------
(* A client that is granted the locks in ls while it waits: it holds them, *)
(* the replies are in its buffer, its socket is registered for writing.    *)
Grants(ls) == [i \in 1 .. Len(ls) |-> [kind |-> "GRANTED", lock |-> ls[i]]]

\* mutant: the socket is not registered for writing
PromotedUnarmed(s, ls) ==
  [s EXCEPT !.waiting_for = None, !.held = @ \o ls,
            !.out = @ \o Grants(ls), !.wants_write = TRUE]

Promoted(s, ls) ==
  [s EXCEPT !.waiting_for = None, !.held = @ \o ls,
            !.out = @ \o Grants(ls), !.wants_write = TRUE, !.writable = TRUE]

(* Vec::retain: the elements of s that are in S, in their order.           *)
Retain(s, S) ==
  LET kept == {i \in DOMAIN s : s[i] \in S}
      nth(k) == CHOOSE i \in kept : Cardinality({j \in kept : j <= i}) = k
  IN  [k \in 1 .. Cardinality(kept) |-> s[nth(k)]]

(* promote_and_notify of the locks in the sequence names, where q is what  *)
(* the queues hold and s the state of the clients in the slab: a waiter    *)
(* that is in the slab becomes the holder and GRANTED is put in its buffer. *)
PromoteAndNotify(names, q, slab, s) ==
  LET at(l) == SelectInSeq(q[l], LAMBDA d : d \in slab)
      next(l) == IF at(l) = 0 THEN None ELSE q[l][at(l)]
      rest(l) == IF at(l) = 0 THEN <<>> ELSE SubSeq(q[l], at(l) + 1, Len(q[l]))
      gets(d) == Retain(names, {l \in Locks : next(l) = d})
      granted == {d \in slab : gets(d) # <<>>}
  IN
  /\ holder' = [l \in Locks |-> IF l \in Range(names) THEN next(l) ELSE holder[l]]
  /\ waiters' = [l \in Locks |-> IF l \in Range(names) THEN rest(l) ELSE q[l]]
  /\ client' = [d \in Conns |->
                  IF d \in granted THEN Promoted(s[d], gets(d)) ELSE s[d]]
  /\ ready' = (ready \cap slab) \cup Rearmed(granted, TRUE)

\* mutant: the socket of the client is still polled
DisconnectPolled(c) ==
  /\ clients' = clients \ {c}
  /\ PromoteAndNotify(client[c].held,
                      [l \in Locks |-> Retain(waiters[l], Conns \ {c})],
                      clients, [client EXCEPT ![c] = Fresh])
  /\ link' = Dropped(c)
  /\ inbox' = [inbox EXCEPT ![c] = <<>>]
  /\ owned' = [owned EXCEPT ![c] = {}]
  /\ UNCHANGED <<replies, releasing, sends, backlog>>

\* mutant: the client stays in the queues
DisconnectStays(c) ==
  /\ clients' = clients \ {c}
  /\ PromoteAndNotify(client[c].held,
                      waiters,
                      clients \ {c}, [client EXCEPT ![c] = Fresh])
  /\ link' = Dropped(c)
  /\ inbox' = [inbox EXCEPT ![c] = <<>>]
  /\ owned' = [owned EXCEPT ![c] = {}]
  /\ UNCHANGED <<replies, releasing, sends, backlog>>

\* mutant: what the client held is not passed on
DisconnectForgets(c) ==
  /\ clients' = clients \ {c}
  /\ PromoteAndNotify(<<>>,
                      [l \in Locks |-> Retain(waiters[l], Conns \ {c})],
                      clients \ {c}, [client EXCEPT ![c] = Fresh])
  /\ link' = Dropped(c)
  /\ inbox' = [inbox EXCEPT ![c] = <<>>]
  /\ owned' = [owned EXCEPT ![c] = {}]
  /\ UNCHANGED <<replies, releasing, sends, backlog>>

(* disconnect_client: the connection leaves the slab and every queue, and  *)
(* what it held is passed on.                                              *)
Disconnect(c) ==
  /\ clients' = clients \ {c}
  /\ PromoteAndNotify(client[c].held,
                      [l \in Locks |-> Retain(waiters[l], Conns \ {c})],
                      clients \ {c}, [client EXCEPT ![c] = Fresh])
  /\ link' = Dropped(c)
  /\ inbox' = [inbox EXCEPT ![c] = <<>>]
  /\ owned' = [owned EXCEPT ![c] = {}]
  /\ UNCHANGED <<replies, releasing, sends, backlog>>

----------------------------------------------------------------------------
(* flush_nonblocking: what the socket takes of the buffer.                 *)

Takes(c) == IF link[c] # "up" \/ Len(client[c].out) <= Room(c)
            THEN Len(client[c].out) ELSE Room(c)
Left(c) == SubSeq(client[c].out, Takes(c) + 1, Len(client[c].out))

FlushedReplies(S) ==
  [c \in Conns |-> IF c \in S THEN Sent(c, SubSeq(client[c].out, 1, Takes(c))) ELSE replies[c]]

(* Writing to a client that has hung up may fail.                          *)
MayFail(c) == link[c] = "closed" /\ client[c].out # <<>>

EventDone(c) == /\ batch' = [batch EXCEPT ![c] = {}]
                /\ cur' = None /\ pc' = "events"

(* A writable event: when all is sent the interest goes back to reading.   *)
Writable(c) ==
  /\ pc = "events" /\ cur = None /\ "write" \in batch[c]
  /\ replies' = FlushedReplies({c})
  /\ client' = [client EXCEPT ![c].out = Left(c),
                              ![c].wants_write = IF Left(c) = <<>> THEN FALSE ELSE @,
                              ![c].writable = IF Left(c) = <<>> THEN FALSE ELSE @]
  /\ ready' = ready \cup {d \in Rearmed({c}, FALSE) : Left(c) = <<>>}
  /\ batch' = [batch EXCEPT ![c] = @ \ {"write"}]
  /\ cur' = IF "read" \in batch[c] THEN c ELSE None
  /\ UNCHANGED <<link, inbox, owned, releasing, sends, backlog, tableVars,
                 clients, accepting, doomed, pc>>

WriteError(c) ==
  /\ pc = "events" /\ cur = None /\ "write" \in batch[c] /\ MayFail(c)
  /\ Disconnect(c) /\ EventDone(c)
  /\ UNCHANGED <<accepting, doomed>>

(* A readable event. refresh returns UnexpectedEof only when there is      *)
(* nothing else to read.                                                   *)
CanRead(c) == /\ pc = "events" /\ cur \in {None, c}
              /\ "read" \in batch[c] /\ "write" \notin batch[c]

Refresh(c) ==
  /\ CanRead(c) /\ ~(link[c] = "closed" /\ inbox[c] = <<>>)
  /\ client' = [client EXCEPT ![c].lines = @ \o inbox[c]]
  /\ inbox' = [inbox EXCEPT ![c] = <<>>]
  /\ cur' = c /\ pc' = "lines"
  /\ UNCHANGED <<link, replies, owned, releasing, sends, backlog, tableVars,
                 clients, ready, batch, accepting, doomed>>

(* The end of the stream, or a reset of the connection.                    *)
ReadError(c) ==
  /\ CanRead(c) /\ link[c] = "closed"
  /\ Disconnect(c) /\ EventDone(c)
  /\ UNCHANGED <<accepting, doomed>>

----------------------------------------------------------------------------
(* process_line, for the next line in the buffer of c.                     *)

NextLine(c, kinds) ==
  /\ pc = "lines" /\ cur = c
  /\ client[c].lines # <<>> /\ Head(client[c].lines).kind \in kinds

Asked(c) == Head(client[c].lines).lock

(* The state of c after the line and a reply to it (enqueue).              *)
Replied(c, kind, l) ==
  [client[c] EXCEPT !.lines = Tail(@), !.wants_write = TRUE,
                    !.out = Append(@, [kind |-> kind, lock |-> l])]

Becomes(c, s) ==
  /\ client' = [client EXCEPT ![c] = s]
  /\ UNCHANGED <<clientVars, backlog, clients, ready, loopVars>>

AcquireRejected(c) ==
  /\ NextLine(c, {"ACQUIRE"})
  /\ c \in {holder[Asked(c)]} \cup Range(waiters[Asked(c)])
  /\ Becomes(c, Replied(c, "ALREADY_HELD", Asked(c)))
  /\ UNCHANGED tableVars

Holding(s, l) == [s EXCEPT !.held = Append(@, l)]

\* mutant: the lock is not noted with the client
AcquireFreeUnlisted(c) ==
  /\ NextLine(c, {"ACQUIRE"})
  /\ LET l == Asked(c) IN
       /\ holder[l] = None /\ c \notin Range(waiters[l])
       /\ holder' = [holder EXCEPT ![l] = c]
       /\ Becomes(c, Replied(c, "GRANTED", l))
  /\ UNCHANGED waiters

AcquireFree(c) ==
  /\ NextLine(c, {"ACQUIRE"})
  /\ LET l == Asked(c) IN
       /\ holder[l] = None /\ c \notin Range(waiters[l])
       /\ holder' = [holder EXCEPT ![l] = c]
       /\ Becomes(c, Holding(Replied(c, "GRANTED", l), l))
  /\ UNCHANGED waiters

AcquireWait(c) ==
  /\ NextLine(c, {"ACQUIRE"})
  /\ LET l == Asked(c) IN
       /\ holder[l] \notin {None, c} /\ c \notin Range(waiters[l])
       /\ waiters' = [waiters EXCEPT ![l] = Append(@, c)]
       /\ Becomes(c, [client[c] EXCEPT !.lines = Tail(@), !.waiting_for = l])
  /\ UNCHANGED holder

TryAcquire(c) ==
  /\ NextLine(c, {"TRY_ACQUIRE"})
  /\ LET l == Asked(c) IN
       IF holder[l] = None
       THEN /\ holder' = [holder EXCEPT ![l] = c]
            /\ Becomes(c, Holding(Replied(c, "GRANTED", l), l))
       ELSE /\ Becomes(c, Replied(c, "DENIED", l))
            /\ UNCHANGED holder
  /\ UNCHANGED waiters

ReleaseRejected(c) ==
  /\ NextLine(c, {"RELEASE"})
  /\ holder[Asked(c)] # c
  /\ Becomes(c, Replied(c, "NOT_HELD", Asked(c)))
  /\ UNCHANGED tableVars

\* mutant: the lock stays in the list of what the client holds
ReleaseStillListed(c) ==
  /\ NextLine(c, {"RELEASE"})
  /\ LET l == Asked(c)
         s == Replied(c, "OK", l)
     IN  /\ holder[l] = c
         /\ PromoteAndNotify(<<l>>, waiters, clients, [client EXCEPT ![c] = s])
  /\ UNCHANGED <<clientVars, backlog, clients, loopVars>>

Release(c) ==
  /\ NextLine(c, {"RELEASE"})
  /\ LET l == Asked(c)
         s == [Replied(c, "OK", l) EXCEPT !.held = Retain(@, Locks \ {l})]
     IN  /\ holder[l] = c
         /\ PromoteAndNotify(<<l>>, waiters, clients, [client EXCEPT ![c] = s])
  /\ UNCHANGED <<clientVars, backlog, clients, loopVars>>

(* Also a line longer than MAX_LINE, when its end has arrived with it.     *)
Query(c) ==
  /\ NextLine(c, {"QUERY", "LONG"})
  /\ Becomes(c, Replied(c, "INFO", None))
  /\ UNCHANGED tableVars

SkipBlank(c) ==
  /\ NextLine(c, {"BLANK"})
  /\ Becomes(c, [client[c] EXCEPT !.lines = Tail(@)])
  /\ UNCHANGED tableVars

(* The framer fails: a line is not UTF-8, or it is too long and its end    *)
(* has not arrived. The reply to the latter is put in a buffer that goes   *)
(* away with the connection.                                               *)
FrameError(c) ==
  /\ NextLine(c, {"INVALID", "LONG"})
  /\ Head(client[c].lines).kind = "LONG" => Len(client[c].lines) = 1
  /\ Disconnect(c) /\ EventDone(c)
  /\ UNCHANGED <<accepting, doomed>>

(* No more lines: a socket with output is registered for writing.          *)
EndOfLines(c) ==
  /\ pc = "lines" /\ cur = c /\ client[c].lines = <<>>
  /\ client' = [client EXCEPT ![c].writable = @ \/ client[c].wants_write]
  /\ ready' = ready \cup {d \in Rearmed({c}, TRUE) : client[c].wants_write}
  /\ EventDone(c)
  /\ UNCHANGED <<clientVars, backlog, tableVars, clients, accepting, doomed>>

----------------------------------------------------------------------------
(* After the events: flush every client with output; those whose socket    *)
(* fails are disconnected one after the other.                             *)
FlushAll ==
  /\ pc = "events" /\ cur = None /\ Quiet /\ ~accepting
  /\ doomed' \in SUBSET {c \in clients : client[c].wants_write /\ MayFail(c)}
  /\ LET flushed == {c \in clients : client[c].wants_write} \ doomed' IN
       /\ replies' = FlushedReplies(flushed)
       /\ client' = [c \in Conns |->
                       IF c \in flushed
                       THEN [client[c] EXCEPT !.out = Left(c),
                                              !.wants_write = Left(c) # <<>>,
                                              !.writable = Left(c) # <<>>]
                       ELSE client[c]]
       /\ ready' = ready \cup Rearmed(flushed, FALSE)
  /\ pc' = IF doomed' = {} THEN "poll" ELSE "drop"
  /\ UNCHANGED <<link, inbox, owned, releasing, sends, backlog, tableVars,
                 clients, batch, accepting, cur>>

Drop(c) ==
  /\ pc = "drop" /\ c \in doomed
  /\ Disconnect(c)
  /\ doomed' = doomed \ {c}
  /\ pc' = IF doomed' = {} THEN "poll" ELSE "drop"
  /\ UNCHANGED <<batch, accepting, cur>>

----------------------------------------------------------------------------
Server ==
  \/ Poll \/ Accept \/ FlushAll
  \/ \E c \in Conns :
       \/ Writable(c) \/ WriteError(c) \/ Refresh(c) \/ ReadError(c)
       \/ AcquireRejected(c) \/ AcquireFree(c) \/ AcquireWait(c) \/ TryAcquire(c)
       \/ ReleaseRejected(c) \/ Release(c) \/ Query(c) \/ SkipBlank(c)
       \/ FrameError(c) \/ EndOfLines(c) \/ Drop(c)

(* What a client does is an edge for the socket at the server: bytes, the  *)
(* end of the stream, or room again in a socket that was full.             *)
Notifies(c, test) == ready' = ready \cup {d \in {c} \cap clients : test}

Opens(c) ==
  /\ Connect(c)
  /\ backlog' = backlog \cup {c}
  /\ UNCHANGED <<tableVars, slabVars, loopVars>>

SendsLine(c) ==
  /\ \E r \in Line : Send(c, r)
  /\ Notifies(c, TRUE)
  /\ UNCHANGED <<backlog, tableVars, clients, client, loopVars>>

Closes(c) ==
  /\ HangUp(c)
  /\ Notifies(c, TRUE)
  /\ UNCHANGED <<backlog, tableVars, clients, client, loopVars>>

Reads(c) ==
  /\ Receive(c)
  /\ Notifies(c, client[c].writable /\ Room(c) = 0)
  /\ UNCHANGED <<backlog, tableVars, clients, client, loopVars>>

Next == Server \/ \E c \in Conns : Opens(c) \/ SendsLine(c) \/ Closes(c) \/ Reads(c)

Spec == Init /\ [][Next]_vars

(* The loop runs, and a client reads its replies and hangs up at last.     *)
FairSpec ==
  /\ Spec /\ WF_vars(Server)
  /\ \A c \in Conns : /\ WF_vars(Reads(c))
                      /\ WF_vars(Closes(c))

----------------------------------------------------------------------------
(* LockEntry.holder against ClientState.held: they agree at every step,    *)
(* and a client that is gone holds nothing.                                *)
HoldersKnow ==
  /\ \A c \in Conns, l \in Locks :
       holder[l] = c <=> c \in clients /\ l \in Range(client[c].held)
  /\ \A c \in clients : IsInjective(client[c].held)

(* Only clients in the slab wait, each once and never for their own lock   *)
(* or a free one; waiting_for names a lock the client waits for.           *)
QueuesLive ==
  \A l \in Locks :
     /\ Range(waiters[l]) \subseteq clients
     /\ IsInjective(waiters[l])
     /\ holder[l] \in Range(waiters[l]) \cup {None} => waiters[l] = <<>>
     /\ \A c \in clients : client[c].waiting_for = l => c \in Range(waiters[l])

(* When the thread goes to sleep in poll, whatever is still in a buffer    *)
(* will wake it as soon as the socket takes it: no reply is stuck.         *)
OutputArmed ==
  pc = "poll" =>
    \A c \in clients :
       client[c].out # <<>> => /\ client[c].wants_write /\ client[c].writable
                               /\ c \in ready \/ Room(c) = 0

(* The loop implements the lock service its clients see: who holds a lock, *)
(* who waits in which order, and who has read GRANTED.                     *)
Service == INSTANCE LockService WITH queue <- waiters
ImplementsLockService == Service!Spec

(* A client that waits in a queue is granted the lock, as long as the      *)
(* others hang up at last, or is found to have hung up itself.             *)
WaitersServed ==
  \A c \in Conns, l \in Locks : c \in Range(waiters[l]) ~> c \notin Range(waiters[l])

(* A disconnecting client releases every lock it was holding               *)
(* (locks/tests/integration.rs, test 4).                                   *)
DisconnectReleases ==
  \A c \in Conns, l \in Locks : link[c] = "closed" ~> holder[l] # c
=============================================================================

---------------------------- MODULE ThreadServer ----------------------------
(***************************************************************************)
(* locks/src/bin/thread_server.rs: one thread for each connection, a table *)
(* of locks behind the store mutex, and a condition variable for each      *)
(* thread that waits for a lock. What a thread does under the mutex is one *)
(* step; writing a reply is a step of its own, because the socket blocks   *)
(* when the client does not read.                                          *)
(***************************************************************************)
EXTENDS LockClients

VARIABLES holder,       \* LockEntry.holder, per lock
          waiters,      \* LockEntry.waiters, per lock: who waits, oldest first
          wake,         \* per thread, the pair it sleeps on: the lock it asked
                        \* for and its WakeState
          held,         \* handle_client's set of the locks it holds
          mutex,        \* the thread that keeps the store mutex between steps
          pc, answer    \* per thread: where it is, and the reply it writes

tableVars == <<holder, waiters, wake>>
threadVars == <<held, mutex, pc, answer>>
vars == <<clientVars, tableVars, threadVars>>

NoReply == [kind |-> "INFO", lock |-> None]
Asleep(l) == [lock |-> l, state |-> "Waiting"]

TypeOK ==
  /\ ClientsTypeOK
  /\ holder \in [Locks -> Conns \cup {None}]
  /\ waiters \in [Locks -> Seq(Conns)]
  /\ wake \in [Conns -> [lock : Locks \cup {None},
                         state : {"Waiting", "Granted", "Evicted"}]]
  /\ held \in [Conns -> SUBSET Locks]
  /\ mutex \in Conns \cup {None}
  /\ pc \in [Conns -> {"read", "answer", "parked", "ended"}]
  /\ answer \in [Conns -> Reply]

Init ==
  /\ ClientsInit
  /\ holder = [l \in Locks |-> None]
  /\ waiters = [l \in Locks |-> <<>>]
  /\ wake = [c \in Conns |-> Asleep(None)]
  /\ held = [c \in Conns |-> {}]
  /\ mutex = None
  /\ pc = [c \in Conns |-> "read"]
  /\ answer = [c \in Conns |-> NoReply]

----------------------------------------------------------------------------
(* The next line of the socket, and the reply the thread goes on to write. *)

Reads(c, kinds) ==
  /\ pc[c] = "read" /\ inbox[c] # <<>> /\ Head(inbox[c]).kind \in kinds
  /\ inbox' = [inbox EXCEPT ![c] = Tail(@)]
  /\ UNCHANGED <<link, replies, owned, releasing, sends>>

Asked(c) == Head(inbox[c]).lock

Answers(c, kind, l) ==
  /\ pc' = [pc EXCEPT ![c] = "answer"]
  /\ answer' = [answer EXCEPT ![c] = [kind |-> kind, lock |-> l]]

\* mutant: the waiter at the front is read and not taken out
PromotePeeks(S, q) ==
  LET next == [l \in S |-> IF q[l] = <<>> THEN None ELSE Head(q[l])] IN
  /\ holder' = [l \in Locks |-> IF l \in S THEN next[l] ELSE holder[l]]
  /\ waiters' = q
  /\ wake' = [c \in Conns |-> IF \E l \in S : next[l] = c
                              THEN [wake[c] EXCEPT !.state = "Granted"]
                              ELSE wake[c]]

\* mutant: the new holder is not woken
PromoteSilent(S, q) ==
  LET next == [l \in S |-> IF q[l] = <<>> THEN None ELSE Head(q[l])] IN
  /\ holder' = [l \in Locks |-> IF l \in S THEN next[l] ELSE holder[l]]
  /\ waiters' = [l \in Locks |-> IF l \in S /\ q[l] # <<>> THEN Tail(q[l]) ELSE q[l]]
  /\ UNCHANGED wake

(* promote_next of the locks in S, where q is what their queues hold: the  *)
(* oldest waiter becomes the holder and is woken, else the lock is free.   *)
PromoteNext(S, q) ==
  LET next == [l \in S |-> IF q[l] = <<>> THEN None ELSE Head(q[l])] IN
  /\ holder' = [l \in Locks |-> IF l \in S THEN next[l] ELSE holder[l]]
  /\ waiters' = [l \in Locks |-> IF l \in S /\ q[l] # <<>> THEN Tail(q[l]) ELSE q[l]]
  /\ wake' = [c \in Conns |-> IF \E l \in S : next[l] = c
                              THEN [wake[c] EXCEPT !.state = "Granted"]
                              ELSE wake[c]]

----------------------------------------------------------------------------
(* ACQUIRE, of a lock the client holds or waits for: the thread writes the *)
(* error before it gives the store mutex back.                             *)
AcquireRejected(c) ==
  /\ mutex = None /\ Reads(c, {"ACQUIRE"})
  /\ LET l == Asked(c) IN
       /\ c \in {holder[l]} \cup Range(waiters[l])
       /\ Answers(c, "ALREADY_HELD", l)
  /\ mutex' = c
  /\ UNCHANGED <<tableVars, held>>

AcquireFree(c) ==
  /\ mutex = None /\ Reads(c, {"ACQUIRE"})
  /\ LET l == Asked(c) IN
       /\ holder[l] = None /\ c \notin Range(waiters[l])
       /\ holder' = [holder EXCEPT ![l] = c]
       /\ held' = [held EXCEPT ![c] = @ \cup {l}]
       /\ Answers(c, "GRANTED", l)
  /\ UNCHANGED <<waiters, wake, mutex>>

\* mutant: the thread queues in front of those who came before
AcquireWaitFirst(c) ==
  /\ mutex = None /\ Reads(c, {"ACQUIRE"})
  /\ LET l == Asked(c) IN
       /\ holder[l] \notin {None, c} /\ c \notin Range(waiters[l])
       /\ waiters' = [waiters EXCEPT ![l] = <<c>> \o @]
       /\ wake' = [wake EXCEPT ![c] = Asleep(l)]
  /\ pc' = [pc EXCEPT ![c] = "parked"]
  /\ UNCHANGED <<holder, held, mutex, answer>>

\* mutant: the name of the lock is lost while the thread sleeps
AcquireWaitNameless(c) ==
  /\ mutex = None /\ Reads(c, {"ACQUIRE"})
  /\ LET l == Asked(c) IN
       /\ holder[l] \notin {None, c} /\ c \notin Range(waiters[l])
       /\ waiters' = [waiters EXCEPT ![l] = Append(@, c)]
       /\ wake' = [wake EXCEPT ![c] = Asleep(None)]
  /\ pc' = [pc EXCEPT ![c] = "parked"]
  /\ UNCHANGED <<holder, held, mutex, answer>>

AcquireWait(c) ==
  /\ mutex = None /\ Reads(c, {"ACQUIRE"})
  /\ LET l == Asked(c) IN
       /\ holder[l] \notin {None, c} /\ c \notin Range(waiters[l])
       /\ waiters' = [waiters EXCEPT ![l] = Append(@, c)]
       /\ wake' = [wake EXCEPT ![c] = Asleep(l)]
  /\ pc' = [pc EXCEPT ![c] = "parked"]
  /\ UNCHANGED <<holder, held, mutex, answer>>

\* mutant: the thread does not note the lock it was granted in its sleep
WakeForgets(c) ==
  /\ pc[c] = "parked" /\ wake[c].state # "Waiting"
  /\ LET granted == wake[c].state = "Granted" IN
       /\ pc' = [pc EXCEPT ![c] = IF granted THEN "answer" ELSE "read"]
       /\ answer' = [answer EXCEPT ![c] = [kind |-> "GRANTED", lock |-> wake[c].lock]]
  /\ UNCHANGED <<clientVars, tableVars, mutex, held>>

(* The condition variable wakes the thread for good; only a thread that    *)
(* was granted the lock replies.                                           *)
Wake(c) ==
  /\ pc[c] = "parked" /\ wake[c].state # "Waiting"
  /\ LET granted == wake[c].state = "Granted" IN
       /\ held' = [held EXCEPT ![c] = IF granted THEN @ \cup {wake[c].lock} ELSE @]
       /\ pc' = [pc EXCEPT ![c] = IF granted THEN "answer" ELSE "read"]
       /\ answer' = [answer EXCEPT ![c] = [kind |-> "GRANTED", lock |-> wake[c].lock]]
  /\ UNCHANGED <<clientVars, tableVars, mutex>>

TryAcquire(c) ==
  /\ mutex = None /\ Reads(c, {"TRY_ACQUIRE"})
  /\ LET l == Asked(c)
         free == holder[l] = None
     IN  /\ holder' = [holder EXCEPT ![l] = IF free THEN c ELSE @]
         /\ held' = [held EXCEPT ![c] = IF free THEN @ \cup {l} ELSE @]
         /\ Answers(c, IF free THEN "GRANTED" ELSE "DENIED", l)
  /\ UNCHANGED <<waiters, wake, mutex>>

ReleaseRejected(c) ==
  /\ mutex = None /\ Reads(c, {"RELEASE"})
  /\ holder[Asked(c)] # c
  /\ Answers(c, "NOT_HELD", Asked(c))
  /\ UNCHANGED <<tableVars, held, mutex>>

\* mutant: anyone may release the lock
ReleaseUnchecked(c) ==
  /\ mutex = None /\ Reads(c, {"RELEASE"})
  /\ LET l == Asked(c) IN
       /\ PromoteNext({l}, waiters)
       /\ held' = [held EXCEPT ![c] = @ \ {l}]
       /\ Answers(c, "OK", l)
  /\ UNCHANGED mutex

Release(c) ==
  /\ mutex = None /\ Reads(c, {"RELEASE"})
  /\ LET l == Asked(c) IN
       /\ holder[l] = c
       /\ PromoteNext({l}, waiters)
       /\ held' = [held EXCEPT ![c] = @ \ {l}]
       /\ Answers(c, "OK", l)
  /\ UNCHANGED mutex

(* STATUS and LIST read the table under the mutex.                         *)
Query(c) ==
  /\ mutex = None /\ Reads(c, {"QUERY"})
  /\ Answers(c, "INFO", None)
  /\ UNCHANGED <<tableVars, held, mutex>>

(* No line is too long for this server: it is just an unknown command.     *)
Unknown(c) ==
  /\ Reads(c, {"LONG"})
  /\ Answers(c, "INFO", None)
  /\ UNCHANGED <<tableVars, held, mutex>>

SkipBlank(c) ==
  /\ Reads(c, {"BLANK"})
  /\ UNCHANGED <<tableVars, threadVars>>

(* The send! of a reply, which blocks while the socket is full.            *)
WriteReply(c) ==
  /\ pc[c] = "answer" /\ Room(c) > 0
  /\ replies' = [replies EXCEPT ![c] = Sent(c, <<answer[c]>>)]
  /\ pc' = [pc EXCEPT ![c] = "read"]
  /\ answer' = [answer EXCEPT ![c] = NoReply]
  /\ mutex' = IF mutex = c THEN None ELSE mutex
  /\ UNCHANGED <<link, inbox, owned, releasing, sends, tableVars, held>>

----------------------------------------------------------------------------
(* The end of handle_client: evict_waiter for every lock, then             *)
(* promote_next for the locks it holds. The pair an eviction marks is that *)
(* of the thread itself, which sleeps no more.                             *)

\* mutant: the locks the client holds are not passed on
CleanupForgets(c) ==
  /\ mutex = None
  /\ PromoteNext({}, [l \in Locks |-> RemoveFirst(waiters[l], c)])
  /\ held' = [held EXCEPT ![c] = {}]
  /\ pc' = [pc EXCEPT ![c] = "ended"]
  /\ link' = Dropped(c)
  /\ inbox' = [inbox EXCEPT ![c] = <<>>]
  /\ owned' = [owned EXCEPT ![c] = {}]
  /\ UNCHANGED <<replies, releasing, sends, mutex, answer>>

Cleanup(c) ==
  /\ mutex = None
  /\ LET stay == [l \in Locks |-> RemoveFirst(waiters[l], c)]
         mine == {l \in held[c] : holder[l] = c}
     IN  PromoteNext(mine, stay)
  /\ held' = [held EXCEPT ![c] = {}]
  /\ pc' = [pc EXCEPT ![c] = "ended"]
  /\ link' = Dropped(c)
  /\ inbox' = [inbox EXCEPT ![c] = <<>>]
  /\ owned' = [owned EXCEPT ![c] = {}]
  /\ UNCHANGED <<replies, releasing, sends, mutex, answer>>

EndOfFile(c) ==
  /\ pc[c] = "read" /\ link[c] = "closed" /\ inbox[c] = <<>>
  /\ Cleanup(c)

ReadError(c) ==
  /\ pc[c] = "read" /\ inbox[c] # <<>> /\ Head(inbox[c]).kind = "INVALID"
  /\ Cleanup(c)

----------------------------------------------------------------------------
Thread(c) ==
  \/ AcquireRejected(c) \/ AcquireFree(c) \/ AcquireWait(c) \/ Wake(c)
  \/ TryAcquire(c) \/ ReleaseRejected(c) \/ Release(c)
  \/ Query(c) \/ Unknown(c) \/ SkipBlank(c) \/ WriteReply(c)
  \/ EndOfFile(c) \/ ReadError(c)

Client(c) ==
  /\ \/ Connect(c) \/ Receive(c) \/ HangUp(c)
     \/ \E r \in Line : Send(c, r)
  /\ UNCHANGED <<tableVars, threadVars>>

Next == \E c \in Conns : Thread(c) \/ Client(c)

Spec == Init /\ [][Next]_vars

(* The threads run, and a client hangs up at last, whether or not it ever  *)
(* reads its replies.                                                      *)
FairSpec ==
  /\ Spec
  /\ \A c \in Conns :
       /\ WF_vars(Thread(c))
       /\ WF_vars(HangUp(c) /\ UNCHANGED <<tableVars, threadVars>>)

----------------------------------------------------------------------------
(* A thread knows the locks it holds: those of its own set, and the one it *)
(* was granted in its sleep and has not woken up to. None is left behind   *)
(* by a thread that has ended (LockEntry.holder against handle_client's    *)
(* held).                                                                  *)
HoldersKnow ==
  \A c \in Conns, l \in Locks :
     holder[l] = c <=> \/ l \in held[c]
                       \/ pc[c] = "parked" /\ wake[c] = [lock |-> l, state |-> "Granted"]

(* The queue of a lock lists the threads that sleep for it, each once, and *)
(* nobody sleeps for a free lock or for its own.                           *)
QueuesExact ==
  \A l \in Locks :
     /\ \A c \in Conns : c \in Range(waiters[l]) <=> pc[c] = "parked" /\ wake[c] = Asleep(l)
     /\ IsInjective(waiters[l])
     /\ holder[l] \in Range(waiters[l]) \cup {None} => waiters[l] = <<>>

(* A client that has read GRANTED and has not sent RELEASE since is the    *)
(* holder in the table, however many requests and replies are on the way:  *)
(* no two clients ever own one lock.                                       *)
OwnersHold == \A c \in Conns, l \in Locks : l \in owned[c] => holder[l] = c

(* The threads implement the lock service its clients see: who holds a     *)
(* lock, who waits in which order, and who has read GRANTED.               *)
Service == INSTANCE LockService WITH queue <- waiters
ImplementsLockService == Service!Spec

(* The threads that wait for one another and will wait for ever: each      *)
(* sleeps for a lock of another one, and none looks at its socket.         *)
Crosswise(S) ==
  \A c \in S : pc[c] = "parked" /\ wake[c].state = "Waiting"
              /\ holder[wake[c].lock] \in S \ {c}
Stuck(c) == \E S \in SUBSET Conns : c \in S /\ Crosswise(S)

(* A thread that waits for a lock is woken with it, as long as the clients *)
(* that hold it hang up at last, unless it is stuck.                       *)
WaitersServed == \A c \in Conns : pc[c] = "parked" ~> pc[c] # "parked" \/ Stuck(c)

(* Whatever its thread is doing when a client hangs up, and whatever lines *)
(* it has sent before, its locks are released for good, all of them, or    *)
(* the thread is stuck: handle_client cleans up on every way out.          *)
HangUpReleases ==
  \A c \in Conns, l \in Locks : link[c] = "closed" ~> [](holder[l] # c \/ Stuck(c))

(* A disconnecting client releases every lock it was holding               *)
(* (locks/tests/integration.rs, test 4).                                   *)
DisconnectReleases ==
  \A c \in Conns, l \in Locks : link[c] = "closed" ~> holder[l] # c
=============================================================================

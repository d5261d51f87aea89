---------------------------- MODULE LockClients ----------------------------
(***************************************************************************)
(* The clients of the lock servers and the sockets between them. A client  *)
(* may send its next request without waiting for an answer, read answers   *)
(* when it likes, and hang up at any time, with requests and answers still *)
(* on the way. Lines and replies stand for the bytes of the two streams.   *)
(***************************************************************************)
EXTENDS Naturals, FiniteSets, SequencesExt

CONSTANTS Conns,        \* the connections; each stands for its ClientId
          Locks,        \* the lock names
          None,         \* no connection, no lock
          Kinds,        \* the kinds of lines the clients send
          MaxSends,     \* bound: lines one client sends
          RoomIn,       \* lines the socket holds on the way to the server
          RoomOut       \* replies the socket holds on the way to the client

ASSUME ClientsAssumption ==
  None \notin Conns \cup Locks /\ MaxSends \in Nat /\ RoomOut \in Nat

(* A QUERY is any line that is answered without changing the table: a      *)
(* STATUS, a LIST, a line that does not parse. A BLANK line is skipped.    *)
(* INVALID is not UTF-8, LONG is longer than MAX_LINE.                     *)
Asks == {"ACQUIRE", "TRY_ACQUIRE", "RELEASE"}
Others == {"QUERY", "BLANK", "INVALID", "LONG"}

Line == [kind : Asks, lock : Locks] \cup [kind : Others, lock : {None}]
Reply == [kind : {"GRANTED", "DENIED", "OK", "ALREADY_HELD", "NOT_HELD"}, lock : Locks]
         \cup [kind : {"INFO", "TOO_LONG"}, lock : {None}]

VARIABLES link,         \* per connection: "new", "up", "closed" by the client,
                        \* or "dropped" by the server
          inbox,        \* lines on the way to the server
          replies,      \* replies on the way to the client
          owned,        \* the locks the client owns: GRANTED read, RELEASE not sent
          releasing,    \* the locks whose RELEASE has not been answered
          sends         \* counts the lines sent

clientVars == <<link, inbox, replies, owned, releasing, sends>>

ClientsTypeOK ==
  /\ link \in [Conns -> {"new", "up", "closed", "dropped"}]
  /\ inbox \in [Conns -> Seq(Line)]
  /\ replies \in [Conns -> Seq(Reply)]
  /\ owned \in [Conns -> SUBSET Locks]
  /\ releasing \in [Conns -> SUBSET Locks]
  /\ sends \in [Conns -> 0 .. MaxSends]

ClientsInit ==
  /\ link = [c \in Conns |-> "new"]
  /\ inbox = [c \in Conns |-> <<>>]
  /\ replies = [c \in Conns |-> <<>>]
  /\ owned = [c \in Conns |-> {}]
  /\ releasing = [c \in Conns |-> {}]
  /\ sends = [c \in Conns |-> 0]

----------------------------------------------------------------------------
(* What the clients do.                                                    *)

Connect(c) ==
  /\ link[c] = "new"
  /\ link' = [link EXCEPT ![c] = "up"]
  /\ UNCHANGED <<inbox, replies, owned, releasing, sends>>

(* A client that sends RELEASE gives the lock up, and does not send it     *)
(* again before the first one is answered.                                 *)
Send(c, r) ==
  /\ link[c] = "up" /\ r.kind \in Kinds
  /\ sends[c] < MaxSends /\ Len(inbox[c]) < RoomIn
  /\ r.kind = "RELEASE" => r.lock \notin releasing[c]
  /\ inbox' = [inbox EXCEPT ![c] = Append(@, r)]
  /\ sends' = [sends EXCEPT ![c] = @ + 1]
  /\ LET gives == IF r.kind = "RELEASE" THEN {r.lock} ELSE {}
     IN  /\ owned' = [owned EXCEPT ![c] = @ \ gives]
         /\ releasing' = [releasing EXCEPT ![c] = @ \cup gives]
  /\ UNCHANGED <<link, replies>>

(* GRANTED makes the client the owner, unless it has sent a RELEASE since. *)
Receive(c) ==
  /\ link[c] = "up" /\ replies[c] # <<>>
  /\ LET r == Head(replies[c]) IN
       /\ owned' = [owned EXCEPT ![c] =
                      @ \cup ({l \in {r.lock} : r.kind = "GRANTED"} \ releasing[c])]
       /\ releasing' = [releasing EXCEPT ![c] =
                          @ \ {l \in {r.lock} : r.kind \in {"OK", "NOT_HELD"}}]
  /\ replies' = [replies EXCEPT ![c] = Tail(@)]
  /\ UNCHANGED <<link, inbox, sends>>

(* Lines already sent still reach the server; replies are lost.            *)
HangUp(c) ==
  /\ link[c] = "up"
  /\ link' = [link EXCEPT ![c] = "closed"]
  /\ replies' = [replies EXCEPT ![c] = <<>>]
  /\ owned' = [owned EXCEPT ![c] = {}]
  /\ releasing' = [releasing EXCEPT ![c] = {}]
  /\ UNCHANGED <<inbox, sends>>

----------------------------------------------------------------------------
(* What the servers do to the sockets.                                     *)

(* The replies the socket of c takes in one write.                         *)
Room(c) == IF link[c] = "up" THEN RoomOut - Len(replies[c]) ELSE RoomOut

(* The socket of c after it took rs; nobody reads what a client that has   *)
(* hung up is sent.                                                        *)
Sent(c, rs) == IF link[c] = "up" THEN replies[c] \o rs ELSE <<>>

(* The links after the server closed the connection of c.                  *)
Dropped(c) == [link EXCEPT ![c] = IF @ = "up" THEN "dropped" ELSE @]
=============================================================================

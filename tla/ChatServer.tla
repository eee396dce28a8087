----------------------------- MODULE ChatServer -----------------------------
(***************************************************************************)
(* Fixed/NoBug2/multhread_server.c: thread_connect accepts connections,    *)
(* reads what arrives and puts it into msg; thread_proc writes msg to all  *)
(* clients and clears it.  (thread_route prints msg and changes nothing.)  *)
(*                                                                         *)
(* Sockets, peers and epoll are external: a peer connects, sends bytes and *)
(* hangs up.  Clients are watched edge-triggered: an arrival raises one    *)
(* event, and one event is one read.  epoll_wait may report an event whose *)
(* bytes an earlier read has taken.  No byte is zero, so that strlen finds *)
(* the end of msg.  A critical section of thread_connect is one step, that *)
(* of thread_proc one per client.  The failures that end the program are   *)
(* left out, and so is the signal that ends it when it writes to a peer    *)
(* that has gone.                                                          *)
(***************************************************************************)
EXTENDS Pthreads, SequencesExt

CONSTANTS MaxFd,          \* descriptors of connections
          max_clients,    \* 100
          StrSize,        \* sizeof(str), 50; msg has twice as much
          MaxBytes, MaxConnections, MaxArrivals     \* (bounds: of each, and of both together)

ASSUME ServerAssumption ==
  /\ max_clients \in Nat \ {0} /\ MaxFd \in Nat /\ StrSize \in Nat \ {0}
  /\ MaxBytes \in Nat /\ MaxConnections \in Nat /\ MaxArrivals \in Nat

Fd     == 1 .. MaxFd
NoFd   == 0
Listen == MaxFd + 1        \* the listening socket
Byte   == 1 .. MaxBytes    \* in the order they are sent
Slot   == 1 .. max_clients

VARIABLES clients, msg, mut, chPc,
          batch,                        \* events that epoll_wait has returned, to be handled
          currfd, str,                  \* locals of the loop of thread_connect
          slot,                         \* and of that of thread_proc
          open, inbox, hungup, event,   \* of each descriptor
          connections, sent,            \* so far, of all peers
          overwritten, broadcast, behind
          \* history: bytes replaced in msg and written to the clients, and the
          \* descriptors where a read has left bytes and no event is to come for them

chatTable == <<clients, msg, mut>>
locals    == <<batch, currfd, str>>
sockets   == <<open, inbox, hungup, event>>
peers     == <<connections, sent>>
history   == <<overwritten, broadcast, behind>>
chatVars  == <<chatTable, chPc, locals, slot, sockets, peers, history>>

ChatInit ==
  /\ clients = [n \in Slot |-> NoFd] /\ msg = <<>> /\ mut = NoThread
  /\ chPc = [connect |-> "epoll", proc |-> "lock"]
  /\ batch = {} /\ currfd = NoFd /\ str = <<>> /\ slot = 1
  /\ open = {} /\ inbox = [f \in Fd |-> <<>>] /\ hungup = {} /\ event = {}
  /\ connections = 0 /\ sent = 0
  /\ overwritten = {} /\ broadcast = {} /\ behind = {}

ChatGoto(t, label) == chPc' = [chPc EXCEPT ![t] = label]

\* The end of the loop over the events.
NextEvent == ChatGoto("connect", "epoll") /\ currfd' = NoFd
-----------------------------------------------------------------------------
Readable(f) == inbox[f] # <<>> \/ f \in hungup

\* epoll_wait returns all that has happened since the last time, and perhaps what is over.
Epoll ==
  /\ chPc["connect"] = "epoll" /\ batch = {} /\ event # {}
  /\ \E over \in SUBSET {f \in event \cap Fd : ~ Readable(f)} :
       batch' = {f \in event : f = Listen \/ Readable(f)} \cup over
  /\ event' = {}
  /\ UNCHANGED <<chatTable, chPc, currfd, str, slot, open, inbox, hungup, peers, history>>

\* accept fails, or returns the lowest descriptor not in use.
Accept ==
  /\ chPc["connect"] = "epoll" /\ Listen \in batch /\ batch' = batch \ {Listen}
  /\ \/ \E f \in Fd \ open :
          /\ \A g \in Fd \ open : f <= g
          /\ open' = open \cup {f} /\ currfd' = f /\ ChatGoto("connect", "save")
     \/ UNCHANGED <<open, currfd, chPc>>
  /\ UNCHANGED <<chatTable, str, slot, inbox, hungup, event, peers, history>>

IsFree(n) == clients[n] = NoFd

\* close: what has not been read is lost, and so is the event for it.
CloseFd(f) ==
  /\ open' = open \ {f} /\ inbox' = [inbox EXCEPT ![f] = <<>>]
  /\ hungup' = hungup \ {f} /\ event' = event \ {f} /\ behind' = behind \ {f}

\* The connection goes to the first free place, or is closed.
Save ==
  /\ chPc["connect"] = "save" /\ mut = NoThread
  /\ \/ \E n \in Slot :
          /\ IsFree(n) /\ \A m \in 1 .. n - 1 : ~ IsFree(m)
          /\ clients' = [clients EXCEPT ![n] = currfd]
          /\ ChatGoto("connect", "watch") /\ UNCHANGED <<currfd, sockets, behind>>
     \/ /\ \A n \in Slot : ~ IsFree(n)
        /\ CloseFd(currfd) /\ NextEvent /\ UNCHANGED clients
  /\ UNCHANGED <<msg, mut, batch, str, slot, peers, overwritten, broadcast>>

\* epoll_ctl reports what has arrived before.
Watch ==
  /\ chPc["connect"] = "watch"
  /\ event' = IF Readable(currfd) THEN event \cup {currfd} ELSE event
  /\ NextEvent
  /\ UNCHANGED <<chatTable, batch, str, slot, open, inbox, hungup, peers, history>>

\* An event is one read of what has arrived, as much as str takes.  It fails if nothing
\* is there any more, and may fail if the peer has gone.
Read ==
  /\ chPc["connect"] = "epoll"
  /\ \E f \in batch \cap Fd :
       /\ batch' = batch \ {f} /\ currfd' = f
       /\ \/ \E n \in 1 .. StrSize :
               /\ n <= Len(inbox[f]) /\ (n = StrSize \/ n = Len(inbox[f]))
               /\ str' = SubSeq(inbox[f], 1, n)
               /\ inbox' = [inbox EXCEPT ![f] = SubSeq(@, n + 1, Len(@))]
               /\ behind' = IF n < Len(inbox[f]) /\ f \notin event THEN behind \cup {f} ELSE behind
               /\ ChatGoto("connect", "store")
          \/ /\ inbox[f] = <<>> \/ f \in hungup
             /\ ChatGoto("connect", "drop") /\ UNCHANGED <<str, inbox, behind>>
  /\ UNCHANGED <<chatTable, slot, open, hungup, event, peers, overwritten, broadcast>>

NobodyWrites == mut = NoThread

\* strncpy puts the bytes over the first ones of what thread_proc has not written yet:
\* those are lost, and what is behind them stays.
Store ==
  /\ chPc["connect"] = "store" /\ NobodyWrites
  /\ overwritten' = overwritten \cup {msg[i] : i \in DOMAIN msg \cap DOMAIN str}
  /\ msg' = str \o SubSeq(msg, Len(str) + 1, Len(msg)) /\ str' = <<>>
  /\ NextEvent
  /\ UNCHANGED <<clients, mut, batch, slot, sockets, peers, broadcast, behind>>

\* Whoever sent nothing, hung up or not, is taken out of the table.
Drop ==
  /\ chPc["connect"] = "drop" /\ NobodyWrites
  /\ clients' = [n \in Slot |-> IF clients[n] = currfd THEN NoFd ELSE clients[n]]
  /\ ChatGoto("connect", "close")
  /\ UNCHANGED <<msg, mut, locals, slot, sockets, peers, history>>

Close ==
  /\ chPc["connect"] = "close" /\ CloseFd(currfd) /\ NextEvent
  /\ UNCHANGED <<chatTable, batch, str, slot, peers, overwritten, broadcast>>

thread_connect == Epoll \/ Accept \/ Save \/ Watch \/ Read \/ Store \/ Drop \/ Close
-----------------------------------------------------------------------------
ProcLock ==
  /\ chPc["proc"] = "lock" /\ msg # <<>> /\ Lock(mut, "proc")
  /\ ChatGoto("proc", "write")
  /\ UNCHANGED <<clients, msg, locals, slot, sockets, peers, history>>

MoreClients == slot <= max_clients

ProcWrite ==
  /\ chPc["proc"] = "write" /\ MoreClients /\ slot' = slot + 1
  /\ UNCHANGED <<chatTable, chPc, locals, sockets, peers, history>>

\* BUG: the memset left out.
BugCleared == msg

Cleared == <<>>

ProcClear ==
  /\ chPc["proc"] = "write" /\ ~ MoreClients
  /\ broadcast' = broadcast \cup ToSet(msg) /\ msg' = Cleared /\ Unlock(mut)
  /\ slot' = 1 /\ ChatGoto("proc", "lock")
  /\ UNCHANGED <<clients, locals, sockets, peers, overwritten, behind>>

\* Without a message thread_proc locks, unlocks and sleeps: no step.
thread_proc == ProcLock \/ ProcWrite \/ ProcClear
-----------------------------------------------------------------------------
Connect ==
  /\ connections < MaxConnections /\ connections + sent < MaxArrivals
  /\ connections' = connections + 1
  /\ event' = event \cup {Listen}
  /\ UNCHANGED <<chatTable, chPc, locals, slot, open, inbox, hungup, sent, history>>

\* Some bytes at once.
PeerSend ==
  /\ \E f \in open \ hungup, k \in 1 .. MaxBytes - sent :
       /\ connections + sent + k <= MaxArrivals
       /\ inbox' = [inbox EXCEPT ![f] = @ \o [i \in 1 .. k |-> sent + i]]
       /\ event' = event \cup {f} /\ sent' = sent + k
  /\ UNCHANGED <<chatTable, chPc, locals, slot, open, hungup, connections, history>>

HangUp ==
  /\ \E f \in open \ hungup : hungup' = hungup \cup {f} /\ event' = event \cup {f}
  /\ UNCHANGED <<chatTable, chPc, locals, slot, open, inbox, peers, history>>

\* The server waits for its peers, who may be done.
Quiet ==
  /\ chPc["connect"] = "epoll" /\ batch = {} /\ event = {} /\ msg = <<>>
  /\ UNCHANGED chatVars

ChatNext == thread_connect \/ thread_proc \/ Connect \/ PeerSend \/ HangUp \/ Quiet

ChatSpec == ChatInit /\ [][ChatNext]_chatVars

\* thread_proc polls for ever and keeps the mutex for one round.
ChatFairSpec == ChatSpec /\ SF_chatVars(thread_connect) /\ SF_chatVars(thread_proc)
-----------------------------------------------------------------------------
ChatTypeOK ==
  /\ clients \in [Slot -> Fd \cup {NoFd}] /\ msg \in Seq(Byte)
  /\ mut \in {"proc", NoThread}
  /\ DOMAIN chPc = {"connect", "proc"}
  /\ chPc["connect"] \in {"epoll", "save", "watch", "store", "drop", "close"}
  /\ chPc["proc"] \in {"lock", "write"}
  /\ batch \subseteq Fd \cup {Listen} /\ currfd \in Fd \cup {NoFd} /\ str \in Seq(Byte)
  /\ slot \in 1 .. max_clients + 1
  /\ open \subseteq Fd /\ inbox \in [Fd -> Seq(Byte)] /\ hungup \subseteq Fd
  /\ event \subseteq Fd \cup {Listen}
  /\ connections \in 0 .. MaxConnections /\ sent \in 0 .. MaxBytes
  /\ overwritten \subseteq Byte /\ broadcast \subseteq Byte /\ behind \subseteq Fd

\* thread_proc never writes to a descriptor that is closed or, taken for another
\* connection, is not that client: every descriptor in the table is open, and in
\* one place, and an open one is in the table unless it comes or goes.
TableIsExact ==
  /\ \A n \in Slot : clients[n] # NoFd => clients[n] \in open
  /\ \A m, n \in Slot : clients[m] = clients[n] /\ clients[m] # NoFd => m = n
  /\ \A f \in open : (\E n \in Slot : clients[n] = f)
                       \/ (f = currfd /\ chPc["connect"] \in {"save", "close"})

\* A byte that is read is written to the clients or replaced by a later one, not both,
\* although strncpy leaves the end of a longer message behind a shorter one.
NoByteTwice ==
  /\ broadcast \cap overwritten = {}
  /\ ToSet(msg) \cap (broadcast \cup overwritten) = {}
  /\ Len(msg) <= StrSize

\* thread_proc writes the same message to all clients.
MessageIsSteady == [][chPc["proc"] = "write" /\ chPc'["proc"] = "write" =>
                        msg' = msg /\ clients' = clients]_chatVars

\* What arrives is read, or its client dropped, unless there was more of it than a read
\* takes and nothing came after that.
BytesAreRead == \A f \in Fd : []<>(f \notin open \/ inbox[f] = <<>> \/ f \in behind)

\* What is read is written to the clients or replaced.
MessagesAreBroadcast == [](msg # <<>> => <>(msg = <<>>))

\* The safety of multhread_server.c: the table of clients says who is connected, and a
\* byte is not both written and replaced.
ChatInv == ChatTypeOK /\ TableIsExact /\ NoByteTwice
=============================================================================

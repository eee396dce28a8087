------------------------------ MODULE Clients -------------------------------
(***************************************************************************)
(* Four programs around sockets: cfgSock.c, whose callers share one;       *)
(* longhorn-rpc-client.c, whose lock calls are missing; con_ser.c, which   *)
(* is to connect again when a connection is lost; and libudp_splice.c,     *)
(* which opens its socket at the first use. Each has its own variables,    *)
(* Init, Next and properties; a run moves one of them.                     *)
(***************************************************************************)
EXTENDS Pthreads, Sequences

(***************************************************************************)
(* Fixed/NoBug2/cfgSock.c: a client library that asks a configuration      *)
(* server through one datagram socket, a request and its answer at a time, *)
(* under a mutex.  The answer is left in one of four static buffers, taken *)
(* in turn, and read by the caller after the mutex has been given back.    *)
(*                                                                         *)
(* A request that cannot be sent closes the socket and takes back          *)
(* si_init_flag, which every call reads without the mutex.  A receive that *)
(* fails ends the call, and the answer stays in the socket for the next.   *)
(* The server answers each request once.  cfgSockInit and cfgSockUninit    *)
(* initialise and destroy the mutex: the program calls them while no other *)
(* call is under way.  Names, values and lengths are left out: a buffer is *)
(* known by the call whose command or answer it holds, and the call by     *)
(* which that was written.                                                 *)
(***************************************************************************)
CONSTANTS ConfigCaller,     \* threads that call the library
          Buffers,          \* 4
          ConfigMaxCalls    \* calls of all threads (a bound)

ASSUME CfgSockAssumption ==
  /\ Buffers \in Nat \ {0} /\ ConfigMaxCalls \in Nat
  /\ IsFiniteSet(ConfigCaller) /\ ConfigCaller \cap {"program", NoThread} = {}

ConfigThread == ConfigCaller \cup {"program"}
Content == [what : {"command", "answer", "nothing"}, call : 0 .. ConfigMaxCalls,
            by : 0 .. ConfigMaxCalls]

VARIABLES si_init_flag, s_conf_fd, s_buf_index, s_conf_buf, s_atomic,
          answers,          \* in the socket
          calls,            \* that have taken a buffer, the last of them is number calls
          cfPc, call, conf_buf,      \* of each thread
          closed,           \* history: times the socket was closed, and opened
          missed            \* history: receives that failed since it was opened

library    == <<si_init_flag, s_conf_fd, s_buf_index, s_conf_buf, s_atomic>>
configVars == <<library, answers, calls, cfPc, call, conf_buf, closed, missed>>

Fresh == [what |-> "command", call |-> 0, by |-> 0]

ConfigInit ==
  /\ si_init_flag = FALSE /\ s_conf_fd = -1 /\ s_buf_index = 0 /\ s_atomic = NoThread
  /\ s_conf_buf = [b \in 0 .. Buffers - 1 |-> Fresh]
  /\ answers = <<>> /\ calls = 0
  /\ cfPc = [t \in ConfigThread |-> "idle"] /\ call = [t \in ConfigThread |-> 0]
  /\ conf_buf = [t \in ConfigThread |-> 0]
  /\ closed = [opened |-> 0, closed |-> 0] /\ missed = 0

ConfigGoto(t, label) == cfPc' = [cfPc EXCEPT ![t] = label]
Alone == \A t \in ConfigThread : cfPc[t] = "idle"
-----------------------------------------------------------------------------
cfgSockInit ==
  /\ Alone /\ ~ si_init_flag /\ calls < ConfigMaxCalls
  /\ si_init_flag' = TRUE /\ s_conf_fd' = 3 /\ s_atomic' = NoThread
  /\ answers' = <<>> /\ missed' = 0 /\ closed' = [closed EXCEPT !.opened = @ + 1]
  /\ UNCHANGED <<s_buf_index, s_conf_buf, calls, cfPc, call, conf_buf>>

\* cfgSockGetValue, cfgSockSetValue, or cfgSockSaveFiles of cfgSockUninit.
Begin(t) ==
  /\ cfPc[t] = "idle" /\ cfPc["program"] = "idle" /\ (t = "program" => Alone)
  /\ calls + Cardinality({u \in ConfigThread : cfPc[u] \in {"lock", "format"}}) < ConfigMaxCalls
  /\ si_init_flag /\ ConfigGoto(t, "lock")
  /\ UNCHANGED <<library, answers, calls, call, conf_buf, closed, missed>>

Enter(t) ==
  /\ cfPc[t] = "lock" /\ Lock(s_atomic, t) /\ ConfigGoto(t, "format")
  /\ UNCHANGED <<si_init_flag, s_conf_fd, s_buf_index, s_conf_buf, answers, calls, call,
                 conf_buf, closed, missed>>

NextIndex == (s_buf_index + 1) % Buffers

\* The command of cfgSockSaveFiles is a constant, and goes into no buffer.
Command(t, old) ==
  IF t = "program" THEN old ELSE [what |-> "command", call |-> calls + 1, by |-> calls + 1]

Format(t) ==
  /\ cfPc[t] = "format"
  /\ calls' = calls + 1 /\ call' = [call EXCEPT ![t] = calls']
  /\ conf_buf' = [conf_buf EXCEPT ![t] = s_buf_index] /\ s_buf_index' = NextIndex
  /\ s_conf_buf' = [s_conf_buf EXCEPT ![s_buf_index] = Command(t, @)]
  /\ ConfigGoto(t, "send")
  /\ UNCHANGED <<si_init_flag, s_conf_fd, s_atomic, answers, closed, missed>>

\* The command is sent, and answered by the server ...
ConfigSend(t) ==
  /\ cfPc[t] = "send" /\ si_init_flag /\ s_conf_fd # -1
  /\ answers' = Append(answers, call[t]) /\ ConfigGoto(t, "recv")
  /\ UNCHANGED <<library, calls, call, conf_buf, closed, missed>>

\* ... or it is not: the socket is closed.
ConfigSendFails(t) ==
  /\ cfPc[t] = "send" /\ si_init_flag
  /\ s_conf_fd' = -1 /\ si_init_flag' = FALSE
  /\ closed' = [closed EXCEPT !.closed = @ + 1]
  /\ answers' = <<>> /\ missed' = 0 /\ ConfigGoto(t, "unlock")
  /\ UNCHANGED <<s_buf_index, s_conf_buf, s_atomic, calls, call, conf_buf>>

\* The socket has gone since the call began.
SendNot(t) ==
  /\ cfPc[t] = "send" /\ ~ si_init_flag /\ ConfigGoto(t, "unlock")
  /\ UNCHANGED <<library, answers, calls, call, conf_buf, closed, missed>>

\* What is left in the buffer of the caller.
Put(t, what, c) ==
  s_conf_buf' = [s_conf_buf EXCEPT ![conf_buf[t]] = [what |-> what, call |-> c, by |-> call[t]]]

ConfigRecv(t) ==
  /\ cfPc[t] = "recv" /\ answers # <<>>
  /\ Put(t, "answer", Head(answers))
  /\ answers' = Tail(answers) /\ ConfigGoto(t, "unlock")
  /\ UNCHANGED <<si_init_flag, s_conf_fd, s_buf_index, s_atomic, calls, call, conf_buf,
                 closed, missed>>

\* recv fails: the answer to this request is left to the call after.
ConfigRecvFails(t) ==
  /\ cfPc[t] = "recv" /\ Put(t, "nothing", 0)
  /\ missed' = missed + 1 /\ ConfigGoto(t, "unlock")
  /\ UNCHANGED <<si_init_flag, s_conf_fd, s_buf_index, s_atomic, answers, calls, call,
                 conf_buf, closed>>

Leave(t) ==
  /\ cfPc[t] = "unlock" /\ Unlock(s_atomic) /\ ConfigGoto(t, "use")
  /\ UNCHANGED <<si_init_flag, s_conf_fd, s_buf_index, s_conf_buf, answers, calls, call,
                 conf_buf, closed, missed>>

\* The caller reads its buffer, without the mutex.
Use(t) ==
  /\ cfPc[t] = "use" /\ ConfigGoto(t, IF t = "program" THEN "uninit" ELSE "idle")
  /\ UNCHANGED <<library, answers, calls, call, conf_buf, closed, missed>>

MustClose == s_conf_fd > 0

cfgSockUninit ==
  /\ cfPc["program"] = "uninit" /\ ConfigGoto("program", "idle")
  /\ closed' = [closed EXCEPT !.closed = IF MustClose THEN @ + 1 ELSE @]
  /\ s_conf_fd' = -1 /\ si_init_flag' = FALSE /\ answers' = <<>> /\ missed' = 0
  /\ UNCHANGED <<s_buf_index, s_conf_buf, s_atomic, calls, call, conf_buf>>

request(t) ==
  Enter(t) \/ Format(t) \/ ConfigSend(t) \/ SendNot(t) \/ ConfigRecv(t) \/ Leave(t) \/ Use(t)

\* Nobody calls, or is served.
Rest == (\A t \in ConfigThread : cfPc[t] \in {"idle", "lock"}) /\ UNCHANGED configVars

ConfigNext ==
  \/ cfgSockInit \/ cfgSockUninit \/ Rest
  \/ \E t \in ConfigThread : Begin(t) \/ request(t) \/ ConfigSendFails(t) \/ ConfigRecvFails(t)

ConfigSpec == ConfigInit /\ [][ConfigNext]_configVars

\* The server answers, and nobody keeps the mutex.
ConfigFairSpec ==
  /\ ConfigSpec /\ WF_configVars(cfgSockUninit)
  /\ \A t \in ConfigThread :
       WF_configVars(request(t) \/ ConfigSendFails(t)) /\ SF_configVars(Enter(t))
-----------------------------------------------------------------------------
ConfigTypeOK ==
  /\ si_init_flag \in BOOLEAN /\ s_conf_fd \in {-1, 3} /\ s_buf_index \in 0 .. Buffers - 1
  /\ s_conf_buf \in [0 .. Buffers - 1 -> Content] /\ s_atomic \in ConfigThread \cup {NoThread}
  /\ answers \in Seq(0 .. ConfigMaxCalls) /\ calls \in 0 .. ConfigMaxCalls
  /\ cfPc \in [ConfigThread -> {"idle", "lock", "format", "send", "recv", "unlock", "use",
                               "uninit"}]
  /\ call \in [ConfigThread -> 0 .. ConfigMaxCalls]
  /\ conf_buf \in [ConfigThread -> 0 .. Buffers - 1]
  /\ closed \in [opened : Nat, closed : Nat] /\ missed \in 0 .. ConfigMaxCalls

\* A call gets the answer to its own request, and not that to one whose sender has given
\* up, if no receive has failed since the socket was opened; each that has makes all later
\* answers come one call late.
AnswerIsMine ==
  /\ \A t \in ConfigThread :
       cfPc[t] = "recv" => Len(answers) = missed + 1 /\ answers[missed + 1] = call[t]
  /\ (\A t \in ConfigThread : cfPc[t] # "recv") => Len(answers) = missed

\* The flag says whether there is a socket, and each is closed once, whoever finds
\* out that it must be.
SocketIsClosedOnce ==
  /\ si_init_flag = (s_conf_fd # -1)
  /\ closed.closed = closed.opened - (IF si_init_flag THEN 1 ELSE 0)

\* What a caller reads after the unlock was written by its own call, unless as many calls
\* as there are buffers have taken theirs since: its buffer is that of another call then.
BufferLasts ==
  \A t \in ConfigCaller :
    cfPc[t] \in {"send", "recv", "unlock", "use"} /\ calls - call[t] < Buffers =>
    s_conf_buf[conf_buf[t]].by = call[t]

\* Every call returns.
CallsReturn == \A t \in ConfigCaller : cfPc[t] = "lock" ~> cfPc[t] = "idle"

\* The safety of the calls of cfgSock.c: a caller reads the answer to its own request, or
\* as much later as receives failed, from a buffer nobody else writes, and the socket is
\* closed once.
CfgSockInv == ConfigTypeOK /\ AnswerIsMine /\ SocketIsClosedOnce /\ BufferLasts
-----------------------------------------------------------------------------

(***************************************************************************)
(* Faulty/ManyBugs/longhorn-rpc-client.c: callers enter a request into a   *)
(* table, send it and wait for its condition; a thread receives the        *)
(* responses, takes the request out of the table, copies the data and      *)
(* signals.  Lock calls are missing in this program: the response thread   *)
(* changes the table without conn->mutex, so that a change of the table is *)
(* a load and a store here, and signals without req->mutex, so that the    *)
(* signal may come before the wait.                                        *)
(*                                                                         *)
(* The server is external: it answers what it is sent, in any order; what  *)
(* is not a response is read over.  The failures of malloc and of the      *)
(* initialisations leave nothing behind and are left out, and so are the   *)
(* links between the entries of the table: a request that is given back    *)
(* while it is in the table leaves links to freed memory there.            *)
(***************************************************************************)
CONSTANTS RpcCaller,       \* threads that call read_at and write_at
          RpcMaxCalls      \* requests (a bound)

ASSUME RpcAssumption ==
  RpcMaxCalls \in Nat /\ RpcCaller \cap {"response_process", NoThread} = {}

RpcThread == RpcCaller \cup {"response_process"}
SeqNumber    == 1 .. RpcMaxCalls

VARIABLES seq, msg_table, rpMutex,        \* the connection
          responses,                    \* on their way
          rpPc, req, resp, table,         \* of each thread: its request, and its copy of the table
          waiting,                      \* asleep on the condition of their request
          filled, rpFreed,                \* requests with data; requests given back
          early, lost, woken, returned, touched
          \* history: requests signalled before the wait, those that another store
          \* has removed from the table, those of callers that woke up by
          \* themselves, those that came back, and those used after the free

connection == <<seq, msg_table, rpMutex, responses>>
rpcHistory == <<early, lost, woken, returned, touched>>
rpcVars    == <<connection, rpPc, req, resp, table, waiting, filled, rpFreed, rpcHistory>>

RpcInit ==
  /\ seq = 0 /\ msg_table = {} /\ rpMutex = NoThread /\ responses = {}
  /\ rpPc = [t \in RpcThread |-> IF t \in RpcCaller THEN "idle" ELSE "receive"]
  /\ req = [c \in RpcCaller |-> 0] /\ resp = 0 /\ table = [t \in RpcThread |-> {}]
  /\ waiting = {} /\ filled = {} /\ rpFreed = {}
  /\ early = {} /\ lost = {} /\ woken = {} /\ returned = {} /\ touched = {}

RpcGoto(t, label) == rpPc' = [rpPc EXCEPT ![t] = label]
-----------------------------------------------------------------------------

new_seq == seq + 1

NewRequest(c) ==
  /\ rpPc[c] = "idle" /\ seq < RpcMaxCalls
  /\ seq' = new_seq /\ req' = [req EXCEPT ![c] = seq'] /\ RpcGoto(c, "add")
  /\ UNCHANGED <<msg_table, rpMutex, responses, resp, table, waiting, filled, rpFreed, rpcHistory>>

AddLoad(c) ==
  /\ rpPc[c] = "add" /\ Lock(rpMutex, c)
  /\ table' = [table EXCEPT ![c] = msg_table] /\ RpcGoto(c, "store")
  /\ UNCHANGED <<seq, msg_table, responses, req, resp, waiting, filled, rpFreed, rpcHistory>>

AddStore(c) ==
  /\ rpPc[c] = "store" /\ Unlock(rpMutex)
  /\ msg_table' = table[c] \cup {req[c]} /\ RpcGoto(c, "send")
  /\ UNCHANGED <<seq, responses, req, resp, table, waiting, filled, rpFreed, rpcHistory>>

RpcSend(c) ==
  /\ rpPc[c] = "send" /\ responses' = responses \cup {req[c]} /\ RpcGoto(c, "wait")
  /\ UNCHANGED <<seq, msg_table, rpMutex, req, resp, table, waiting, filled, rpFreed, rpcHistory>>

\* The request is given back, and stays in the table.
RpcSendFails(c) ==
  /\ rpPc[c] = "send" /\ rpFreed' = rpFreed \cup {req[c]} /\ RpcGoto(c, "idle")
  /\ UNCHANGED <<connection, req, resp, table, waiting, filled, rpcHistory>>

Wait(c) ==
  /\ rpPc[c] = "wait" /\ waiting' = waiting \cup {c} /\ RpcGoto(c, "asleep")
  /\ UNCHANGED <<connection, req, resp, table, filled, rpFreed, rpcHistory>>

\* BUG: the caller goes on without the wait.
BugAwake(c) == rpPc[c] \in {"wait", "asleep"}

Awake(c) == rpPc[c] = "asleep" /\ c \notin waiting

Return(c) ==
  /\ Awake(c) /\ rpFreed' = rpFreed \cup {req[c]} /\ RpcGoto(c, "idle")
  /\ returned' = returned \cup {req[c]}
  /\ UNCHANGED <<connection, req, resp, table, waiting, filled, early, lost, woken, touched>>

process_request(c) == AddLoad(c) \/ AddStore(c) \/ RpcSend(c) \/ Wait(c) \/ Return(c)

RpcSpuriousWakeup ==
  /\ \E c \in waiting : waiting' = waiting \ {c} /\ woken' = woken \cup {req[c]}
  /\ UNCHANGED <<connection, rpPc, req, resp, table, filled, rpFreed, early, lost,
                 returned, touched>>
-----------------------------------------------------------------------------
Receive ==
  /\ rpPc["response_process"] = "receive" /\ RpcGoto("response_process", "find")
  /\ \E r \in responses : responses' = responses \ {r} /\ resp' = r
  /\ UNCHANGED <<seq, msg_table, rpMutex, req, table, waiting, filled, rpFreed, rpcHistory>>

ReceiveFails ==
  /\ rpPc["response_process"] = "receive" /\ RpcGoto("response_process", "ended")
  /\ UNCHANGED <<connection, req, resp, table, waiting, filled, rpFreed, rpcHistory>>

Find ==
  /\ rpPc["response_process"] = "find"
  /\ table' = [table EXCEPT !["response_process"] = msg_table]
  /\ RpcGoto("response_process", IF resp \in msg_table THEN "delete" ELSE "receive")
  /\ UNCHANGED <<connection, req, resp, waiting, filled, rpFreed, rpcHistory>>

Delete ==
  /\ rpPc["response_process"] = "delete" /\ RpcGoto("response_process", "copy")
  /\ msg_table' = table["response_process"] \ {resp}
  /\ lost' = lost \cup (msg_table \ table["response_process"])
  /\ UNCHANGED <<seq, rpMutex, responses, req, resp, table, waiting, filled, rpFreed,
                 early, woken, returned, touched>>

Touch == touched' = touched \cup ({resp} \cap rpFreed)

CopyData ==
  /\ rpPc["response_process"] = "copy" /\ filled' = filled \cup {resp} /\ Touch
  /\ RpcGoto("response_process", "signal")
  /\ UNCHANGED <<connection, req, resp, table, waiting, rpFreed, early, lost, woken, returned>>

Sleeper == {c \in waiting : req[c] = resp}

Signal ==
  /\ rpPc["response_process"] = "signal" /\ Touch
  /\ waiting' = waiting \ Sleeper
  /\ early' = IF \E c \in RpcCaller : req[c] = resp /\ rpPc[c] = "wait"
             THEN early \cup {resp} ELSE early
  /\ RpcGoto("response_process", "receive")
  /\ UNCHANGED <<connection, req, resp, table, filled, rpFreed, lost, woken, returned>>

response_process == Receive \/ Find \/ Delete \/ CopyData \/ Signal

\* The callers have no more to ask, or wait.
RpcQuiet ==
  /\ rpPc["response_process"] \in {"receive", "ended"}
  /\ \A c \in RpcCaller : rpPc[c] \in {"idle", "asleep"}
  /\ UNCHANGED rpcVars

RpcNext ==
  \/ response_process \/ ReceiveFails \/ RpcSpuriousWakeup \/ RpcQuiet
  \/ \E c \in RpcCaller : NewRequest(c) \/ process_request(c) \/ RpcSendFails(c)

RpcSpec == RpcInit /\ [][RpcNext]_rpcVars

RpcFairSpec ==
  RpcSpec /\ WF_rpcVars(response_process) /\ \A c \in RpcCaller : WF_rpcVars(process_request(c))
-----------------------------------------------------------------------------
RpcTypeOK ==
  /\ seq \in 0 .. RpcMaxCalls /\ msg_table \subseteq SeqNumber
  /\ rpMutex \in RpcCaller \cup {NoThread}
  /\ responses \subseteq SeqNumber /\ req \in [RpcCaller -> 0 .. RpcMaxCalls]
  /\ resp \in 0 .. RpcMaxCalls
  /\ table \in [RpcThread -> SUBSET SeqNumber]
  /\ waiting \subseteq {c \in RpcCaller : rpPc[c] = "asleep"}
  /\ rpPc \in [RpcThread -> {"idle", "add", "store", "send", "wait", "asleep",
                        "receive", "find", "delete", "copy", "signal", "ended"}]
  /\ filled \subseteq SeqNumber /\ rpFreed \subseteq SeqNumber

\* Every request has a number of its own.
NumbersAreUnique == \A c, d \in RpcCaller : req[c] = req[d] /\ req[c] # 0 => c = d

\* The response thread copies no data into a request and signals none after the free,
\* unless its caller woke up by itself.
TouchedOnlyIfWoken == touched \subseteq woken

\* A call comes back with its data, unless its caller woke up by itself.
ReturnsWithData == returned \subseteq filled \cup woken

\* A call comes back, unless it is signalled before the wait, lost from the table by
\* a store of the response thread, or nothing is received any more.
ReturnsUnlessMissed ==
  \A c \in RpcCaller : \A r \in SeqNumber :
    rpPc[c] = "wait" /\ req[c] = r ~>
      r \in returned \cup early \cup lost \/ rpPc["response_process"] = "ended"

\* The safety of longhorn-rpc-client.c: requests are told apart, an answer touches the
\* request of a caller that still waits, and a caller returns with its own data.
RpcInv == RpcTypeOK /\ NumbersAreUnique /\ TouchedOnlyIfWoken /\ ReturnsWithData
-----------------------------------------------------------------------------

(***************************************************************************)
(* Faulty/ManyBugs/con_ser.c: a thread that connects to a server, reads    *)
(* the packets it sends and is to connect again when the connection is     *)
(* lost.  It locks fdlock in every turn of its loop and unlocks it in      *)
(* none.                                                                   *)
(*                                                                         *)
(* A packet is what the code tells apart of its header.  Nobody starts the *)
(* heartbeat thread and nobody puts anything into the list threc_head: the *)
(* thread, and what follows a packet found in the list, are left out.      *)
(***************************************************************************)
VARIABLES fd,             \* "open" or -1
          disconnect, fdlock, receivePc,
          packet,         \* the header that was read, or "none"
          answered,       \* packets of the server answered
          turns           \* turns of the loop begun

reconnectVars == <<fd, disconnect, fdlock, receivePc, packet, answered, turns>>

\* ser_init()
ReconnectInit ==
  /\ fd = "-1" /\ disconnect = TRUE /\ fdlock = NoThread /\ receivePc = "lock"
  /\ packet = "none" /\ answered = 0 /\ turns = 0

Goes(place) == receivePc' = place

\* `continue': the next turn begins with the lock.
Continue == Goes("lock")

Takes == Lock(fdlock, "receive")

LockFd ==
  /\ receivePc = "lock" /\ Takes /\ turns' = turns + 1 /\ Goes("connect")
  /\ UNCHANGED <<fd, disconnect, packet, answered>>

connect_ser ==
  /\ receivePc = "connect" /\ Goes("close")
  /\ IF fd = "-1" /\ disconnect
       THEN (fd' = "open" /\ disconnect' = FALSE) \/ UNCHANGED <<fd, disconnect>>
       ELSE UNCHANGED <<fd, disconnect>>
  /\ UNCHANGED <<fdlock, packet, answered, turns>>

CloseOrRead ==
  /\ receivePc = "close" /\ fd' = IF disconnect THEN "-1" ELSE fd
  /\ IF fd' = "-1" THEN Continue ELSE Goes("read")
  /\ UNCHANGED <<disconnect, fdlock, packet, answered, turns>>

Known == {"disk info", "create chunk", "long nop"}   \* analyze_ser_cmd() returns 0

\* read() of a header: the end of the connection or a part of it, or a whole one.
ReadHeader ==
  /\ receivePc = "read"
  /\ packet' \in {"lost", "nop", "too small", "unknown"} \cup Known
  /\ IF packet' \in Known THEN Goes("analyze") /\ UNCHANGED disconnect
                          ELSE Continue /\ disconnect' = (packet' # "nop")
  /\ UNCHANGED <<fd, fdlock, answered, turns>>

\* analyze_ser_packet(), with the write of get_chunkid(); both may fail.
analyze_ser_packet ==
  /\ receivePc = "analyze" /\ Continue
  /\ \/ disconnect' = TRUE /\ UNCHANGED answered
     \/ /\ UNCHANGED disconnect
        /\ answered' = IF packet = "create chunk" THEN answered + 1 ELSE answered
  /\ UNCHANGED <<fd, fdlock, packet, turns>>

receive_thread == LockFd \/ connect_ser \/ CloseOrRead \/ ReadHeader \/ analyze_ser_packet

\* The thread waits for the mutex that it has itself.
Stuck == receivePc = "lock" /\ fdlock # NoThread /\ UNCHANGED reconnectVars

ReconnectNext == receive_thread \/ Stuck

ReconnectSpec ==
  ReconnectInit /\ [][ReconnectNext]_reconnectVars /\ WF_reconnectVars(receive_thread)
-----------------------------------------------------------------------------
ReconnectTypeOK ==
  fd \in {"open", "-1"} /\ disconnect \in BOOLEAN /\ fdlock \in {"receive", NoThread}

\* A write goes to an open connection, whatever the server sends; and the thread comes to
\* one packet at most, after which an open connection is left open although it is lost.
OnePacket ==
  /\ receivePc \in {"read", "analyze"} => fd = "open" /\ ~disconnect
  /\ answered <= 1 /\ turns <= 1
  /\ disconnect /\ fd = "open" => receivePc = "lock" /\ fdlock = "receive"

\* The safety of con_ser.c.
ReconnectInv == ReconnectTypeOK /\ OnePacket

\* The thread is stuck in the end, with or without a connection.
GetsStuck == <>[](receivePc = "lock" /\ fdlock = "receive")
-----------------------------------------------------------------------------

(***************************************************************************)
(* libudp_splice.c: a library whose callers ask the kernel, through one    *)
(* netlink socket, to connect pairs of sockets.  Requests carry no number: *)
(* it is the mutex that makes the answer received the answer to what was   *)
(* sent.  The kernel answers while it takes the request, as netlink does,  *)
(* so that recv() on the non-blocking socket finds the answer, unless      *)
(* there was no memory for it.  Attributes and error numbers are left out. *)
(***************************************************************************)
CONSTANTS User,           \* threads that add pairs
          MaxAdds         \* pairs each of them adds (a bound)

ASSUME SpliceAssumption ==
  NoThread \notin User /\ MaxAdds \in Nat

VARIABLES handle,         \* "none", "open" or "failed"
          spliceLock, socket, addPc, adds,
          result          \* of each user: which request was answered

spliceVars == <<handle, spliceLock, socket, addPc, adds, result>>

NoAnswer == <<NoThread, 0>>

SpliceInit ==
  /\ handle = "none" /\ spliceLock = NoThread /\ socket = <<>>
  /\ addPc = [t \in User |-> "idle"] /\ adds = [t \in User |-> 0]
  /\ result = [t \in User |-> NoAnswer]

\* What fails undoes what has been done.
udp_splice_open ==
  /\ handle = "none" /\ handle' \in {"open", "failed"}
  /\ UNCHANGED <<spliceLock, socket, addPc, adds, result>>

Go(t, to) == addPc' = [addPc EXCEPT ![t] = to] /\ UNCHANGED handle

TakeSocket(t) ==
  /\ handle = "open" /\ addPc[t] = "idle" /\ adds[t] < MaxAdds /\ Lock(spliceLock, t)
  /\ adds' = [adds EXCEPT ![t] = @ + 1] /\ Go(t, "send") /\ UNCHANGED <<socket, result>>

SendTo(t) ==
  /\ addPc[t] = "send" /\ Go(t, "recv") /\ UNCHANGED <<spliceLock, adds, result>>
  /\ \/ socket' = Append(socket, <<t, adds[t]>>)
     \/ UNCHANGED socket

Returns(t, value) ==
  Unlock(spliceLock) /\ Go(t, "idle") /\ result' = [result EXCEPT ![t] = value] /\ UNCHANGED adds

SendFails(t) == addPc[t] = "send" /\ Returns(t, NoAnswer) /\ UNCHANGED socket

SocketRecv(t) ==
  /\ addPc[t] = "recv"
  /\ IF socket = <<>> THEN Returns(t, NoAnswer) /\ UNCHANGED socket
                      ELSE Returns(t, Head(socket)) /\ socket' = Tail(socket)

udp_splice_add(t) == TakeSocket(t) \/ SendTo(t) \/ SendFails(t) \/ SocketRecv(t)

\* There is no handle, or no pair to add.
Finished ==
  /\ handle = "failed" \/ \A t \in User : addPc[t] = "idle" /\ adds[t] = MaxAdds
  /\ UNCHANGED spliceVars

SpliceNext == udp_splice_open \/ (\E t \in User : udp_splice_add(t)) \/ Finished

SpliceSpec == SpliceInit /\ [][SpliceNext]_spliceVars
-----------------------------------------------------------------------------
\* Who is answered is answered for its own request, the last one: no answer stays behind in
\* the socket for the next user, whatever fails.
AnswerToMine ==
  /\ \A t \in User : addPc[t] = "idle" => result[t] \in {NoAnswer, <<t, adds[t]>>}
  /\ socket # <<>> => spliceLock = Head(socket)[1] /\ Len(socket) = 1

\* The safety of libudp_splice.c.
SpliceInv == spliceLock \in User \cup {NoThread} /\ AnswerToMine
-----------------------------------------------------------------------------
\* The safety of the four programs: whoever asks gets the answer to its own request, but for
\* those of cfgSock.c that come late.
ClientsInv == CfgSockInv /\ RpcInv /\ ReconnectInv /\ SpliceInv
=============================================================================

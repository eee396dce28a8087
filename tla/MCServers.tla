----------------------------- MODULE MCServers -----------------------------
(***************************************************************************)
(* The programs that serve or ask others, for TLC.  The benchmark runs one *)
(* program at a time: program says which, and the state of the others      *)
(* stays what it is.                                                       *)
(*                                                                         *)
(* Two workers and two messages for skynet_main.c; two places, three       *)
(* connections and three bytes, read two at a time, five arrivals in all,  *)
(* in multhread_server.c; two connections that follow the copy of three    *)
(* bytes, two at a time; two callers, two buffers and three calls in       *)
(* cfgSock.c; two callers and two requests in longhorn-rpc-client.c; the   *)
(* one thread of con_ser.c; two users of libudp_splice.c that add two      *)
(* pairs each.                                                             *)
(***************************************************************************)
EXTENDS SkynetMonitor, CopyDaemon, ChatServer, Clients, Sequences

CONSTANTS w1, w2, f1, f2

MCWorker     == {w1, w2}
MCConnection == {f1, f2}

\* Linux delivers a signal for the process to the first thread if it can.
MCMainThread == {"main"}

VARIABLE program

allVars == <<program, vars, chatVars, copyVars, configVars, rpcVars, reconnectVars, spliceVars>>

ServersInit ==
  /\ program \in {"skynet_main.c", "multhread_server.c", "copy_deamon.c", "cfgSock.c",
                  "longhorn-rpc-client.c", "con_ser.c", "libudp_splice.c"}
  /\ Init /\ ChatInit /\ CopyInit /\ ConfigInit /\ RpcInit
  /\ ReconnectInit /\ SpliceInit

\* Steps of one program.
Skynet ==
  /\ program = "skynet_main.c"
  /\ UNCHANGED <<program, chatVars, copyVars, configVars, rpcVars, reconnectVars, spliceVars>>
ChatRuns ==
  /\ program = "multhread_server.c"
  /\ UNCHANGED <<program, vars, copyVars, configVars, rpcVars, reconnectVars, spliceVars>>
CopyRuns ==
  /\ program = "copy_deamon.c"
  /\ UNCHANGED <<program, vars, chatVars, configVars, rpcVars, reconnectVars, spliceVars>>
CallsRun ==
  /\ program = "cfgSock.c"
  /\ UNCHANGED <<program, vars, chatVars, copyVars, rpcVars, reconnectVars, spliceVars>>
RpcRuns ==
  /\ program = "longhorn-rpc-client.c"
  /\ UNCHANGED <<program, vars, chatVars, copyVars, configVars, reconnectVars, spliceVars>>
ReconnectRuns ==
  /\ program = "con_ser.c"
  /\ UNCHANGED <<program, vars, chatVars, copyVars, configVars, rpcVars, spliceVars>>

SplicesRun ==
  /\ program = "libudp_splice.c"
  /\ UNCHANGED <<program, vars, chatVars, copyVars, configVars, rpcVars, reconnectVars>>

ServersNext ==
  \/ Skynet /\ Next
  \/ ChatRuns /\ ChatNext
  \/ CopyRuns /\ CopyNext
  \/ CallsRun /\ ConfigNext
  \/ RpcRuns /\ RpcNext
  \/ ReconnectRuns /\ ReconnectNext
  \/ SplicesRun /\ SpliceNext

\* The fairness of each module.  As program never changes, to be fair to one action
\* of each program together is to be fair to each of them.
Strong1 ==
  \/ Skynet /\ Work(w1)
  \/ ChatRuns /\ thread_connect
  \/ CopyRuns /\ copyWorker
  \/ CallsRun /\ Enter(f1)
Strong2 ==
  \/ Skynet /\ Work(w2)
  \/ ChatRuns /\ thread_proc
  \/ CopyRuns /\ sendOffset(f1)
  \/ CallsRun /\ Enter(f2)
Strong3 ==
  \/ Skynet /\ Service("timer")
  \/ CopyRuns /\ sendOffset(f2)
  \/ CallsRun /\ Enter("program")
Strong4 == (Skynet /\ Service("socket")) \/ (CopyRuns /\ GoesOn(f1))
Strong5 == (Skynet /\ Handle) \/ (CopyRuns /\ GoesOn(f2))
Weak1 ==
  \/ Skynet /\ Destroy
  \/ CallsRun /\ cfgSockUninit
  \/ ReconnectRuns /\ receive_thread
Weak2 ==
  \/ CallsRun /\ (request(f1) \/ ConfigSendFails(f1))
  \/ RpcRuns /\ process_request(f1)
Weak3 ==
  \/ CallsRun /\ (request(f2) \/ ConfigSendFails(f2))
  \/ RpcRuns /\ process_request(f2)
Weak4 ==
  \/ CallsRun /\ (request("program") \/ ConfigSendFails("program"))
  \/ RpcRuns /\ response_process

ServersSpec ==
  /\ ServersInit /\ [][ServersNext]_allVars
  /\ SF_allVars(Strong1) /\ SF_allVars(Strong2) /\ SF_allVars(Strong3)
  /\ SF_allVars(Strong4) /\ SF_allVars(Strong5)
  /\ WF_allVars(Weak1) /\ WF_allVars(Weak2) /\ WF_allVars(Weak3) /\ WF_allVars(Weak4)

\* Whoever asks is answered: skynet_main.c dispatches every message and can be shut
\* down; the chat server reads what arrives, but for what one read does not take, and
\* broadcasts each message as it was when it began; connections to the copy daemon end;
\* the calls of both clients return, but for the causes Clients names; the client of
\* con_ser.c gets stuck.
ServersServe ==
  /\ program = "skynet_main.c" => MessagesAreDispatched
  /\ program = "skynet_main.c" => ShutdownEnds
  /\ program = "multhread_server.c" => BytesAreRead
  /\ program = "multhread_server.c" => MessagesAreBroadcast
  /\ program = "copy_deamon.c" => ConnectionsEnd
  /\ program = "cfgSock.c" => CallsReturn
  /\ program = "longhorn-rpc-client.c" => ReturnsUnlessMissed
  /\ program = "con_ser.c" => GetsStuck
  /\ MessageIsSteady
=============================================================================

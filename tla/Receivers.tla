----------------------------- MODULE Receivers ------------------------------
(***************************************************************************)
(* Two programs that go on to use what they share after the unlock:        *)
(* udp_server.c, whose threads receive into one variable, and              *)
(* camera_thread.c, whose clients send one frame.  Each has its own        *)
(* variables, Init, Next and properties; a run moves one of them.          *)
(***************************************************************************)
EXTENDS FiniteSetsExt, Functions, Pthreads, Sequences

(***************************************************************************)
(* udp_server.c: threads share out a file of FILE_SIZE bytes and receive   *)
(* that much from one socket.  What recvfrom() returned is kept in the     *)
(* global bytes_read, which no lock guards: between the call and its three *)
(* uses another thread may put its own there.  The copy under              *)
(* Faulty/ManyBugs has no lock around file_pos and total_bytes either.     *)
(*                                                                         *)
(* Sizes are unsigned numbers of a few values, so that adding the -1 of a  *)
(* failed call wraps round as it does in the code.                         *)
(***************************************************************************)
CONSTANTS Receiver,
          FILE_SIZE, BUFFER_SIZE,
          MaxUnsigned,    \* the greatest unsigned number (a bound; 2^64 - 1)
          MaxCalls        \* calls of recvfrom() (a bound)

ASSUME UdpAssumption ==
  /\ IsFiniteSet(Receiver) /\ Receiver # {}
  /\ FILE_SIZE \in Nat /\ BUFFER_SIZE \in Nat \ {0} /\ {MaxUnsigned, MaxCalls} \subseteq Nat
  /\ MaxUnsigned > FILE_SIZE + BUFFER_SIZE * Cardinality(Receiver)

VARIABLES locks,                            \* the program has its locks
          file_pos, total_bytes, bytes_read,
          udPc, start_pos, end_pos, local_bytes,
          udReg,                            \* loaded from file_pos or total_bytes, or returned
          received,                         \* bytes that recvfrom() gave to each thread
          overlapped,                       \* ... while another was to use bytes_read
          calls

udpVars == <<locks, file_pos, total_bytes, bytes_read, udPc, start_pos, end_pos, local_bytes,
             udReg, received, overlapped, calls>>

block_size == FILE_SIZE \div Cardinality(Receiver)

Unsigned(x) == x % (MaxUnsigned + 1)

UdpInit ==
  /\ locks \in BOOLEAN
  /\ file_pos = 0 /\ total_bytes = 0 /\ bytes_read = 0 /\ overlapped = FALSE /\ calls = 0
  /\ udPc = [t \in Receiver |-> "claim"]
  /\ start_pos = [t \in Receiver |-> 0] /\ end_pos = start_pos /\ local_bytes = start_pos
  /\ udReg = start_pos /\ received = start_pos

UdpGo(t, place) == udPc' = [udPc EXCEPT ![t] = place]

\* The two critical sections, each one step, and the same without a lock.
Claim(t) ==
  /\ locks /\ udPc[t] = "claim"
  /\ start_pos' = [start_pos EXCEPT ![t] = file_pos]
  /\ end_pos' = [end_pos EXCEPT ![t] = file_pos + block_size]
  /\ file_pos' = file_pos + block_size /\ UdpGo(t, "recv")
  /\ UNCHANGED <<locks, total_bytes, bytes_read, local_bytes, udReg, received, overlapped, calls>>

ClaimUnlocked(t) ==
  /\ ~locks
  /\ \/ /\ udPc[t] = "claim" /\ start_pos' = [start_pos EXCEPT ![t] = file_pos] /\ UdpGo(t, "load")
        /\ UNCHANGED <<file_pos, end_pos, udReg>>
     \/ /\ udPc[t] = "load" /\ udReg' = [udReg EXCEPT ![t] = file_pos] /\ UdpGo(t, "claimed")
        /\ UNCHANGED <<file_pos, start_pos, end_pos>>
     \/ /\ udPc[t] = "claimed" /\ file_pos' = udReg[t] + block_size
        /\ end_pos' = [end_pos EXCEPT ![t] = start_pos[t] + block_size] /\ UdpGo(t, "recv")
        /\ UNCHANGED <<start_pos, udReg>>
  /\ UNCHANGED <<locks, total_bytes, bytes_read, local_bytes, received, overlapped, calls>>

\* What a use of bytes_read may see: the build may load it, or keep what the call returned.
Seen(t) == {bytes_read, udReg[t]}

\* A thread between recvfrom() and its last use of bytes_read.
Using == {t \in Receiver : udPc[t] \in {"test", "count", "move"}}

\* What recvfrom() may return; it stores no more than BUFFER_SIZE.
Result == {-1} \cup 0 .. BUFFER_SIZE

Receive(t) ==
  /\ udPc[t] = "recv" /\ start_pos[t] < end_pos[t] /\ calls < MaxCalls
  /\ bytes_read' \in Result
  /\ received' = [received EXCEPT ![t] = @ + Max({0, bytes_read'})]
  /\ udReg' = [udReg EXCEPT ![t] = bytes_read']
  /\ overlapped' = (overlapped \/ Using # {}) /\ calls' = calls + 1 /\ UdpGo(t, "test")
  /\ UNCHANGED <<locks, file_pos, total_bytes, start_pos, end_pos, local_bytes>>

TestBytes(t) ==
  /\ udPc[t] = "test" /\ \E b \in Seen(t) : UdpGo(t, IF b > 0 THEN "count" ELSE "sum")
  /\ UNCHANGED <<locks, file_pos, total_bytes, bytes_read, start_pos, end_pos, local_bytes,
                 udReg, received, overlapped, calls>>

CountBytes(t) ==
  /\ udPc[t] = "count" /\ UdpGo(t, "move")
  /\ \E b \in Seen(t) : local_bytes' = [local_bytes EXCEPT ![t] = Unsigned(@ + b)]
  /\ UNCHANGED <<locks, file_pos, total_bytes, bytes_read, start_pos, end_pos, udReg, received,
                 overlapped, calls>>

Move(t) ==
  /\ udPc[t] = "move" /\ UdpGo(t, "recv")
  /\ \E b \in Seen(t) : start_pos' = [start_pos EXCEPT ![t] = Unsigned(@ + b)]
  /\ UNCHANGED <<locks, file_pos, total_bytes, bytes_read, end_pos, local_bytes, udReg, received,
                 overlapped, calls>>

Sum_(t) ==
  /\ udPc[t] = "sum" \/ (udPc[t] = "recv" /\ start_pos[t] >= end_pos[t])
  /\ IF locks THEN /\ total_bytes' = Unsigned(total_bytes + local_bytes[t])
                   /\ UdpGo(t, "done") /\ UNCHANGED udReg
              ELSE /\ udReg' = [udReg EXCEPT ![t] = total_bytes]
                   /\ UdpGo(t, "store") /\ UNCHANGED total_bytes
  /\ UNCHANGED <<locks, file_pos, bytes_read, start_pos, end_pos, local_bytes, received, overlapped,
                 calls>>

SumUnlocked(t) ==
  /\ udPc[t] = "store" /\ UdpGo(t, "done")
  /\ total_bytes' = Unsigned(udReg[t] + local_bytes[t])
  /\ UNCHANGED <<locks, file_pos, bytes_read, start_pos, end_pos, local_bytes, udReg, received,
                 overlapped, calls>>

receive_data(t) == Claim(t) \/ Receive(t) \/ TestBytes(t) \/ CountBytes(t) \/ Move(t) \/ Sum_(t)

receive_data_unlocked(t) == ClaimUnlocked(t) \/ SumUnlocked(t)

AllDone == \A t \in Receiver : udPc[t] = "done"

\* main() prints total_bytes and ends; or no more datagrams are considered.
UdpStopped ==
  /\ \A t \in Receiver : udPc[t] = "done" \/ (udPc[t] = "recv" /\ calls = MaxCalls)
  /\ UNCHANGED udpVars

UdpNext == UdpStopped \/ \E t \in Receiver : receive_data(t) \/ receive_data_unlocked(t)

UdpSpec == UdpInit /\ [][UdpNext]_udpVars
-----------------------------------------------------------------------------
UdpTypeOK ==
  /\ bytes_read \in Result
  /\ udPc \in [Receiver -> {"claim", "load", "claimed", "recv", "test", "count", "move", "sum",
                      "store", "done"}]
  /\ \A t \in Receiver : {total_bytes, start_pos[t], local_bytes[t]} \subseteq 0 .. MaxUnsigned

Total(f) == FoldFunctionOnSet(+, 0, f, Receiver)

\* Under the lock the threads share out the file: what one claims no other does.
ClaimsAreDisjoint ==
  LET claimed == {t \in Receiver : udPc[t] \notin {"claim", "claimed"}} IN
  locks => /\ {end_pos[t] : t \in claimed} = {i * block_size : i \in 1 .. Cardinality(claimed)}
           /\ file_pos = Cardinality(claimed) * block_size

\* As long as no call came between another and its uses, each thread counts what it has
\* received, and what it does not go on to count is where it stands in its part.
CountsItsOwn ==
  ~overlapped => \A t \in Receiver :
    /\ udPc[t] \in {"recv", "sum", "store", "done"} => local_bytes[t] = received[t]
    /\ udPc[t] \in {"recv", "sum", "store", "done"} /\ locks =>
         start_pos[t] = end_pos[t] - block_size + received[t]

\* main() then prints the number of bytes received; without locks, that of some threads.
TotalIsRightAlone ==
  AllDone /\ ~overlapped =>
    /\ locks => total_bytes = Total(received)
    /\ Receiver # {} => \E S \in (SUBSET Receiver) \ {{}} :
                        total_bytes = FoldFunctionOnSet(+, 0, received, S)

\* The safety of udp_server.c.
UdpInv == UdpTypeOK /\ ClaimsAreDisjoint /\ CountsItsOwn /\ TotalIsRightAlone
-----------------------------------------------------------------------------

(***************************************************************************)
(* camera_thread.c: a thread takes frames from the camera, copies each to  *)
(* a new devconfp and wakes all who wait; a thread per connection waits    *)
(* once for a snapshot, or again and again for a stream, writes the frame, *)
(* and after a snapshot frees it.  length is the length of the frame that  *)
(* the camera gave last, and is written without the mutex.                 *)
(*                                                                         *)
(* A frame is its number; malloc() never gives the memory of one to        *)
(* another here.  What leads to exit() is left out: failures of the        *)
(* camera, of the memory and of the connections, and SIGINT.               *)
(***************************************************************************)
CONSTANTS Client,         \* connections that are accepted
          MaxLength,      \* of a frame (a bound)
          MaxFrames       \* frames taken (a bound)

ASSUME CameraAssumption ==
  IsFiniteSet(Client) /\ NoThread \notin Client /\ {MaxLength, MaxFrames} \subseteq Nat

VARIABLES length, devconfp, camMutex, camCond,
          lengthOf,       \* length of each frame copied so far
          taken,          \* length of the frame in temp
          capturePc, camPc,
          kind,           \* of each client: "snapshot" or "stream"
          header,         \* of each client: the length it has announced
          freedFrames,    \* frames given to free(), each as often as that
          wild,           \* some client was woken by nothing
          sentFreed       \* some client has written a frame that was freed, or none

cameraVars == <<length, devconfp, camMutex, camCond, lengthOf, taken, capturePc, camPc, kind,
                header, freedFrames, wild, sentFreed>>

CameraInit ==
  /\ length = 0 /\ devconfp = 0 /\ camMutex = NoThread /\ camCond = {} /\ lengthOf = <<>>
  /\ taken = 0 /\ capturePc = "get" /\ camPc = [c \in Client |-> "accept"]
  /\ kind \in [Client -> {"snapshot", "stream"}] /\ header = [c \in Client |-> 0]
  /\ freedFrames = <<>> /\ wild = FALSE /\ sentFreed = FALSE

CaptureUnchanged == UNCHANGED <<lengthOf, taken, capturePc, length, devconfp>>
ClientsUnchanged == UNCHANGED <<camPc, kind, header, freedFrames, wild, sentFreed>>

get_frame ==
  /\ capturePc = "get" /\ Len(lengthOf) < MaxFrames
  /\ length' \in 1 .. MaxLength /\ taken' = length' /\ capturePc' = "copy"
  /\ ClientsUnchanged /\ UNCHANGED <<devconfp, camMutex, camCond, lengthOf>>

\* BUG: no lock.
BugFree == TRUE

Free == camMutex = NoThread

\* The critical section of frame_capture_thread().
CopyFrame ==
  /\ capturePc = "copy" /\ Free /\ capturePc' = "broadcast"
  /\ lengthOf' = Append(lengthOf, taken) /\ devconfp' = Len(lengthOf')
  /\ ClientsUnchanged /\ UNCHANGED <<length, taken, camMutex, camCond>>

Broadcast ==
  /\ capturePc = "broadcast" /\ CondBroadcast(camCond) /\ capturePc' = "get"
  /\ ClientsUnchanged /\ UNCHANGED <<length, devconfp, camMutex, lengthOf, taken>>

frame_capture_thread == get_frame \/ CopyFrame \/ Broadcast

CameraGo(c, to) == camPc' = [camPc EXCEPT ![c] = to]

\* send_msg(): the lock and the wait, which has no predicate.
Wait(c) ==
  /\ camPc[c] = "accept" /\ Free /\ camCond' = camCond \cup {c} /\ CameraGo(c, "wait")
  /\ CaptureUnchanged /\ UNCHANGED <<camMutex, kind, header, freedFrames, wild, sentFreed>>

Header(c) ==
  /\ camPc[c] = "wait" /\ CondResume(camCond, camMutex, c) /\ CameraGo(c, "body")
  /\ header' = [header EXCEPT ![c] = length]
  /\ CaptureUnchanged /\ UNCHANGED <<camCond, kind, freedFrames, wild, sentFreed>>

IsFreed(f) == f = 0 \/ \E i \in 1 .. Len(freedFrames) : freedFrames[i] = f

Body(c) ==
  /\ camPc[c] = "body" /\ CameraGo(c, "end") /\ sentFreed' = (sentFreed \/ IsFreed(devconfp))
  /\ CaptureUnchanged /\ UNCHANGED <<camMutex, camCond, kind, header, freedFrames, wild>>

GivesBack(c) == kind[c] = "snapshot"

End(c) ==
  /\ camPc[c] = "end" /\ Unlock(camMutex)
  /\ CameraGo(c, IF kind[c] = "snapshot" THEN "done" ELSE "accept")
  /\ freedFrames' = (IF GivesBack(c) /\ devconfp # 0 THEN Append(freedFrames, devconfp)
                                                    ELSE freedFrames)
  /\ CaptureUnchanged /\ UNCHANGED <<camCond, kind, header, wild, sentFreed>>

service_thread(c) == Wait(c) \/ Header(c) \/ Body(c) \/ End(c)

CameraSpuriousWakeup ==
  /\ Spurious(camCond) /\ wild' = TRUE
  /\ UNCHANGED <<length, devconfp, camMutex, lengthOf, taken, capturePc, camPc, kind, header,
                 freedFrames, sentFreed>>

\* No more frames are considered.
CameraStopped == Len(lengthOf) = MaxFrames /\ capturePc = "get" /\ UNCHANGED cameraVars

CameraNext ==
  \/ frame_capture_thread \/ CameraSpuriousWakeup \/ CameraStopped
  \/ \E c \in Client : service_thread(c)

CameraSpec == CameraInit /\ [][CameraNext]_cameraVars
-----------------------------------------------------------------------------
CameraTypeOK ==
  /\ length \in 0 .. MaxLength /\ devconfp \in 0 .. Len(lengthOf) /\ camCond \subseteq Client
  /\ camPc \in [Client -> {"accept", "wait", "body", "end", "done"}]

Sending == {c \in Client : camPc[c] \in {"body", "end"}}

\* As long as the next frame is not taken, length is that of the frame; and a header
\* announces the length of the body unless a frame is taken in between.
LengthFits ==
  /\ capturePc # "copy" => length = IF devconfp = 0 THEN 0 ELSE lengthOf[devconfp]
  /\ \A c \in Client : camPc[c] = "body" /\ ~wild =>
       header[c] \in {lengthOf[devconfp], taken}

\* One at a time writes, and a client that was not woken by nothing has a frame to write.
OneWrites ==
  /\ Cardinality(Sending) <= 1 /\ \A c \in Sending : camMutex = c
  /\ ~wild /\ Sending # {} => devconfp # 0

\* Where there are only streams, nobody writes a frame that was freed, and every frame
\* that is freed was written to a snapshot.
StreamsAreSafe ==
  /\ (\A c \in Client : kind[c] = "stream") => freedFrames = <<>> /\ (sentFreed => wild)
  /\ Len(freedFrames) <= Cardinality({c \in Client : kind[c] = "snapshot" /\ camPc[c] = "done"})

\* The safety of camera_thread.c.
CameraInv == CameraTypeOK /\ LengthFits /\ OneWrites /\ StreamsAreSafe

\* The frame does not change under a client that writes it.
FrameIsSteady == [][Sending # {} => devconfp' = devconfp]_cameraVars
=============================================================================

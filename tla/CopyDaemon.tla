----------------------------- MODULE CopyDaemon -----------------------------
(***************************************************************************)
(* Fixed/NoBug1/copy_deamon.c: copyWorker copies the disk of a running     *)
(* virtual machine; each connection asks how far it is.  A connection      *)
(* holds offsetMutex from the moment it sends the offset until its client  *)
(* has answered, so that the copy stands still meanwhile.  Whoever closes  *)
(* the connection has the second file copied and the copy started.         *)
(*                                                                         *)
(* The clients are external: they may say SUSPENDING, CLOSE or anything    *)
(* else ("NEXT") at any time.  copyingDone is read without the mutex.  A   *)
(* file cannot be opened, read or written, or only in part, whenever the   *)
(* model says so; the names and times are left out.                        *)
(***************************************************************************)
EXTENDS Pthreads

CONSTANTS Connection,      \* threads that run sendOffset
          FileSize, BufSize     \* bytes of the source; 4096

ASSUME CopyAssumption ==
  /\ FileSize \in Nat /\ BufSize \in Nat \ {0}
  /\ Connection \cap {"copyWorker", NoThread} = {}

DONE == FileSize + 1       \* as an answer: after every offset

VARIABLES offset, offsetMutex, copyingDone, coPc,
          told,            \* the last answer sent to each connection, or -1
          copied,          \* the bytes of the destination that were written
          readLess,        \* history: did a pread fail, or stop before the end?
          wroteLess        \* history: did a pwrite write less than it was given?

worker == <<offset, copyingDone, copied, readLess, wroteLess>>
copyVars   == <<worker, offsetMutex, coPc, told>>

CopyInit ==
  /\ offset = 0 /\ offsetMutex = NoThread /\ copyingDone = FALSE
  /\ coPc = [t \in Connection \cup {"copyWorker"} |-> IF t = "copyWorker" THEN "open" ELSE "recv"]
  /\ told = [c \in Connection |-> -1]
  /\ copied = {} /\ readLess = FALSE /\ wroteLess = FALSE

CopyGoto(t, label) == coPc' = [coPc EXCEPT ![t] = label]
-----------------------------------------------------------------------------
\* The exits by an error leave copyingDone as it is.
Open ==
  /\ coPc["copyWorker"] = "open"
  /\ CopyGoto("copyWorker", "lock") \/ CopyGoto("copyWorker", "failed")
  /\ UNCHANGED <<worker, offsetMutex, told>>

WorkerLock ==
  /\ coPc["copyWorker"] = "lock" /\ Lock(offsetMutex, "copyWorker")
  /\ CopyGoto("copyWorker", "pread")
  /\ UNCHANGED <<worker, told>>

\* What there is to read, up to a buffer.
rest == IF FileSize - offset < BufSize THEN FileSize - offset ELSE BufSize

IsLast(res) == res < BufSize

\* BUG: the result is added to the offset before it is looked at.
BugNothingRead == offset' = offset - 1

\* pread has failed, with -1.
NothingRead == UNCHANGED offset

\* pread and pwrite: the offset moves on by what was read, whatever was written.
CopyBuffer(res, written) ==
  /\ offset' = offset + res
  /\ copied' = copied \cup (offset .. offset + written - 1)
  /\ readLess' = (readLess \/ (IsLast(res) /\ offset + res < FileSize))
  /\ wroteLess' = (wroteLess \/ written < res)
  /\ CopyGoto("copyWorker", IF IsLast(res) THEN "done" ELSE "lock")

\* One buffer is copied; a pread that fails ends the loop as the end of the file does.
Copy ==
  /\ coPc["copyWorker"] = "pread" /\ Unlock(offsetMutex)
  /\ \/ \E res \in 1 .. rest : \E written \in 0 .. res : CopyBuffer(res, written)
     \/ /\ rest = 0 /\ CopyGoto("copyWorker", "done")
        /\ UNCHANGED <<offset, copied, readLess, wroteLess>>
     \/ /\ CopyGoto("copyWorker", "done") /\ readLess' = TRUE /\ NothingRead
        /\ UNCHANGED <<copied, wroteLess>>
     \/ /\ rest > 0 /\ CopyGoto("copyWorker", "failed")       \* pwrite
        /\ UNCHANGED <<offset, copied, readLess, wroteLess>>
  /\ UNCHANGED <<copyingDone, told>>

Done ==
  /\ coPc["copyWorker"] = "done" /\ copyingDone' = TRUE /\ CopyGoto("copyWorker", "ended")
  /\ UNCHANGED <<offset, copied, readLess, wroteLess, offsetMutex, told>>

copyWorker == Open \/ WorkerLock \/ Copy \/ Done
-----------------------------------------------------------------------------
\* What recv leaves in clientMessage.  If it fails that is nothing, or what was there
\* before; a CLOSE on top of a longer message is not one.
Message == {"NEXT", "SUSPENDING", "CLOSE"}

\* The end of the loop: whoever says CLOSE is done with.
AfterMessage(m) == IF m = "CLOSE" THEN "close" ELSE "recv"

Answer(c, what) == told' = [told EXCEPT ![c] = what]

\* The first recv, and copyingDone without the mutex: the copy may be done when the
\* connection has the lock.
Recv(c, m) ==
  /\ coPc[c] = "recv"
  /\ \/ ~ copyingDone /\ CopyGoto(c, "lock") /\ UNCHANGED told
     \/ /\ copyingDone /\ CopyGoto(c, AfterMessage(m))
        /\ IF m # "SUSPENDING" THEN Answer(c, DONE) ELSE UNCHANGED told
  /\ UNCHANGED <<worker, offsetMutex>>

OffsetLock(c) ==
  /\ coPc[c] = "lock" /\ Lock(offsetMutex, c) /\ CopyGoto(c, "send")
  /\ UNCHANGED <<worker, told>>

\* BUG: the mutex is given back before the client has answered.
BugSend(c) ==
  /\ coPc[c] = "send" /\ Answer(c, offset) /\ Unlock(offsetMutex) /\ CopyGoto(c, "answer")
  /\ UNCHANGED worker

Send(c) ==
  /\ coPc[c] = "send" /\ Answer(c, offset) /\ CopyGoto(c, "answer")
  /\ UNCHANGED <<worker, offsetMutex>>

\* The second recv, with the mutex.
RecvAnswer(c, m) ==
  /\ coPc[c] = "answer" /\ Unlock(offsetMutex) /\ CopyGoto(c, AfterMessage(m))
  /\ UNCHANGED <<worker, told>>

\* close, copyNonFlatFile and runDestinationVM, with what there is of the copy.
RunDestination(c) ==
  /\ coPc[c] = "close" /\ CopyGoto(c, "ended")
  /\ UNCHANGED <<worker, offsetMutex, told>>

sendOffset(c) ==
  \/ \E m \in Message : Recv(c, m) \/ RecvAnswer(c, m)
  \/ OffsetLock(c) \/ Send(c) \/ RunDestination(c)

\* The server waits for connections for ever.
CopyTerminated ==
  /\ \A c \in Connection : coPc[c] = "ended"
  /\ UNCHANGED copyVars

CopyNext == copyWorker \/ CopyTerminated \/ \E c \in Connection : sendOffset(c)

CopySpec == CopyInit /\ [][CopyNext]_copyVars

\* The clients answer, do not say SUSPENDING for ever, and say CLOSE in the end when
\* they have been told DONE; everybody gets the mutex in the end.
GoesOn(c) == Recv(c, IF told[c] = DONE THEN "CLOSE" ELSE "NEXT")

CopyFairSpec ==
  /\ CopySpec /\ SF_copyVars(copyWorker)
  /\ \A c \in Connection : SF_copyVars(sendOffset(c)) /\ SF_copyVars(GoesOn(c))
-----------------------------------------------------------------------------
CopyTypeOK ==
  /\ offset \in 0 .. FileSize /\ offsetMutex \in Connection \cup {"copyWorker", NoThread}
  /\ copyingDone \in BOOLEAN /\ copied \subseteq 0 .. FileSize - 1
  /\ readLess \in BOOLEAN /\ wroteLess \in BOOLEAN
  /\ coPc \in [Connection \cup {"copyWorker"} ->
               {"open", "lock", "pread", "done", "ended", "failed",
                "recv", "send", "answer", "close"}]
  /\ told \in [Connection -> -1 .. DONE]

\* While a client considers the offset it has been sent, the copy stands still.
OffsetHoldsStill == \A c \in Connection : coPc[c] = "answer" => told[c] = offset

\* When a client is told DONE the offset has come to the end of the file, unless a pread
\* failed or came short, and all up to there is written, unless a pwrite came short.
DoneMeansCopied ==
  (\E c \in Connection : told[c] = DONE) => /\ offset = FileSize \/ readLess
                                            /\ copied = 0 .. offset - 1 \/ wroteLess

\* A client never hears of an offset before one it has heard of, nor of an offset
\* after DONE.
NeverBack == [][\A c \in Connection : told'[c] >= told[c]]_copyVars

\* A connection starts the copy when its client closes it, which may be at any time.  The
\* copy then holds at least what the client was told last, unless a pwrite came short.
RunsOnWhatWasTold ==
  \A c \in Connection : coPc[c] \in {"close", "ended"} =>
    /\ told[c] = DONE \/ told[c] <= offset
    /\ copied = 0 .. offset - 1 \/ wroteLess

\* Every connection is closed, unless the worker ended by an error: then the clients
\* may hear of the same offset for ever.
ConnectionsEnd ==
  <>(coPc["copyWorker"] = "failed" \/ \A c \in Connection : coPc[c] = "ended")

\* The safety of copy_deamon.c: what a connection is told while it is told it stays
\* true, and the copy that is started holds what was told.
CopyInv == CopyTypeOK /\ OffsetHoldsStill /\ DoneMeansCopied /\ RunsOnWhatWasTold
=============================================================================

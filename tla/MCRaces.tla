------------------------------- MODULE MCRaces -------------------------------
(***************************************************************************)
(* Programs that use shared data without a lock, for TLC: three of those   *)
(* under Faulty/ManyBugs; udp_server.c, which shares a variable even where *)
(* its locks are in place; and camera_thread.c, which goes on to use what  *)
(* it has read under the lock.  program says which is run.                 *)
(***************************************************************************)
EXTENDS Receivers, UnlockedQueues, Membarrier

VARIABLE program

allVars == <<program, udpVars, itemVars, uaVars, mbVars, cameraVars>>

\* What may be chosen at the start of a program is fixed while another is run.
RacesInit ==
  /\ program \in {"udp_server.c", "os21.c", "queue_cyclic.c", "test-membarrier-shared.c",
                  "camera_thread.c"}
  /\ program # "udp_server.c" => locks = TRUE
  /\ program # "queue_cyclic.c" => senders = {CHOOSE s \in Sender : TRUE}
  /\ program # "test-membarrier-shared.c" => mode = "mb"
  /\ program # "camera_thread.c" => kind = [c \in Client |-> "stream"]
  /\ UdpInit /\ ItemsInit /\ ActorInit /\ UnlockedInit /\ CameraInit
  /\ program # "os21.c" => \A c \in Consumer : itemPc[c] # "uncreated"

\* Steps of one program.
UdpRuns ==
  program = "udp_server.c" /\ UNCHANGED <<program, itemVars, uaVars, mbVars, cameraVars>>
ItemsRun ==
  program = "os21.c" /\ UNCHANGED <<program, udpVars, uaVars, mbVars, cameraVars>>
ActorRuns ==
  program = "queue_cyclic.c" /\ UNCHANGED <<program, udpVars, itemVars, mbVars, cameraVars>>
BarriersRun ==
  /\ program = "test-membarrier-shared.c"
  /\ UNCHANGED <<program, udpVars, itemVars, uaVars, cameraVars>>
FramesRun ==
  program = "camera_thread.c" /\ UNCHANGED <<program, udpVars, itemVars, uaVars, mbVars>>

RacesNext ==
  \/ UdpRuns /\ UdpNext
  \/ ItemsRun /\ ItemsNext
  \/ ActorRuns /\ ActorNext
  \/ BarriersRun /\ UnlockedNext
  \/ FramesRun /\ CameraNext

RacesSpec == RacesInit /\ [][RacesNext]_allVars

\* What is left without locks, as each module states it.
RacesInv ==
  /\ UdpInv /\ ItemBufferInv /\ UnlockedActorInv
  /\ UnlockedMembarrierInv

\* The safety of camera_thread.c: a frame is steady while it is sent.
FramesAreSteady == []CameraInv /\ FrameIsSteady
=============================================================================

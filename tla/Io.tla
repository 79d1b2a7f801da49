----------------------------------- MODULE Io -----------------------------------
(***************************************************************************)
(* What a thread does with the kernel: its event loop (EventLoop, Timers), *)
(* a tcp connection (Tcp), and the files (FileIo).  The parts share no     *)
(* state, so a behaviour uses one of them, `part'.  The event loop is two  *)
(* of them, to bound its instance: in "descriptors" no timer is used, in   *)
(* "timers" one descriptor is in use at a time, in one direction.          *)
(***************************************************************************)
EXTENDS EventLoop, Tcp, FileIo

VARIABLE part

ioVars == <<part, eventVars, tcpVars, fileIoVars>>

IoInit ==
  /\ part \in {"descriptors", "timers", "tcp", "files"}
  /\ EventsInit
  /\ TcpInit
  /\ FileInit

OfEvents ==
  /\ part \in {"descriptors", "timers"}
  /\ EventsNext
  /\ part = "descriptors" => timerVars' = timerVars
  /\ part = "timers" => /\ Cardinality(known') <= 1
                        /\ \A fd \in Fds : "out" \notin Mask(fd)'
  /\ UNCHANGED <<part, tcpVars, fileIoVars>>

OfTcp == part = "tcp" /\ TcpNext /\ UNCHANGED <<part, eventVars, fileIoVars>>
OfFiles == part = "files" /\ FileNext /\ UNCHANGED <<part, eventVars, tcpVars>>

IoNext == OfEvents \/ OfTcp \/ OfFiles
IoSpec == IoInit /\ [][IoNext]_ioVars

\* Properties.

\* The thread sleeps until its first timer is due and no longer, if that is in reach of
\* an int, and no timer rings early or before one that is due earlier.
TimersAreOnTime == [][SleepsUntilTheTimer' /\ RingsInTime]_ioVars

=============================================================================

------------------------ MODULE LeaderElectionProofs ------------------------
(***************************************************************************)
(* Safety of LeaderElection for any number of clients, leaders and lock    *)
(* files, any versions and any number of faults.                           *)
(*                                                                         *)
(* The invariants the runs check are not inductive: whether a pid in a     *)
(* lock file is trustworthy depends on who closes which file when.  LockInv*)
(* ties the control state of each process to the file it has open, and     *)
(* says that a Drop past its first step has that file off the lock path.   *)
(***************************************************************************)
EXTENDS LeaderElection, TLAPS

\* Control states in which a process has no lock file open, in which it owns the
\* flock of the file it has open, and in which it does if it has one open.
LeaderClosed == {"idle", "open", "contended", "popen", "exiting", "gone"}
LeaderOwns == {"trunc", "write", "serving", "dropsock", "dropclose"}
LeaderMayOwn == {"clean", "waitsock", "cancelled"}
ClientClosed == {"start", "fast", "open", "connect", "wait", "done", "failed"}
ClientOwns == {"recheck", "recheckconn", "evictwait", "killwait", "cleanup",
               "spawn", "ready", "droplock", "dropsock", "dropclose"}
ClientMayOwn == {"evict", "vacate"}

Owns(p) == fd[p] # None /\ holder[fd[p]] = p

HolderHasOpen == \A i \in Inodes : holder[i] # None => fd[holder[i]] = i

LeaderFiles ==
  \A l \in Leaders :
    /\ lpc[l] \in LeaderClosed => fd[l] = None
    /\ lpc[l] \in LeaderOwns => Owns(l)
    /\ lpc[l] \in LeaderMayOwn => (fd[l] = None \/ Owns(l))
    /\ lpc[l] \in {"try", "poll"} => fd[l] # None /\ holder[fd[l]] # l
    /\ lpc[l] \in {"dropsock", "dropclose"} => fd[l] # lockPath

ClientFiles ==
  \A c \in Clients :
    /\ cpc[c] \in ClientClosed => fd[c] = None
    /\ cpc[c] \in ClientOwns => Owns(c)
    /\ cpc[c] \in ClientMayOwn => (fd[c] = None \/ Owns(c))
    /\ cpc[c] = "try" => fd[c] # None /\ holder[fd[c]] # c

\* A pid is written by its process, so never before it was spawned.
IdleUnwritten == \A l \in Leaders, i \in Inodes : lpc[l] = "idle" => content[i] # l

ConnOK ==
  \A c \in Clients : cpc[c] \in {"evict", "vacate", "done"} => conn[c] # None

LockInv == HolderHasOpen /\ LeaderFiles /\ ClientFiles
IInv ==
  /\ TypeOK /\ ConnOK /\ LockInv /\ IdleUnwritten
  /\ LivePidNamesHolder /\ EvictionMeansOrphanedLock
-----------------------------------------------------------------------------
(* Typing.                                                                 *)

LEMMA InitType == Init => TypeOK /\ ConnOK
  BY SetsAssumption DEF Init, InitWith, TypeOK, ConnOK, LeaderPcs, ServerPcs,
     ClientPcs, Procs, Versions

LEMMA StepType == TypeOK /\ ConnOK /\ [Next]_vars => TypeOK' /\ ConnOK'
  <1> DEFINE Goal == TypeOK /\ ConnOK
  <1> SUFFICES ASSUME TypeOK, ConnOK, [Next]_vars PROVE Goal'
    OBVIOUS
  <1> USE SetsAssumption, BoundsAssumption DEF Procs, Versions, TypeOK, ConnOK,
       LeaderPcs, ServerPcs, ClientPcs
  <1>1. ASSUME NEW c \in Clients, ClientNext(c) PROVE Goal'
    <2>1. CASE ClientProbe(c)
      BY <2>1 DEF ClientProbe, Goto, PidAtPath, ListenerIsReady, Alive,
          lockVars, leaderVars, envVars
    <2>2. CASE ClientFastConnect(c)
      BY <2>2 DEF ClientFastConnect, Goto, ShouldEvict, Connectable,
          NoneConnectable, lockVars, leaderVars, envVars
    <2>3. CASE ClientOpenLock(c)
      BY <2>3 DEF ClientOpenLock, OpenLockFile, Free, Goto, leaderVars,
          envVars
    <2>4. CASE ClientTryLock(c)
      <3>1. CASE Flock(c) /\ Goto(c, "recheck") /\ UNCHANGED sawErr
        BY <2>4, <3>1 DEF ClientTryLock, Flock, Goto, leaderVars, envVars
      <3>2. CASE CloseLock(c) /\ Goto(c, "wait") /\ sawErr' = [sawErr EXCEPT ![c] = FALSE]
        BY <2>4, <3>2 DEF ClientTryLock, CloseLock, Goto, leaderVars, envVars
      <3>. QED
        BY <2>4, <3>1, <3>2 DEF ClientTryLock
    <2>5. CASE ClientRecheck(c)
      BY <2>5 DEF ClientRecheck, Goto, PidAtPath, ListenerIsReady, Alive,
          lockVars, leaderVars, envVars
    <2>6. CASE ClientRecheckConnect(c)
      BY <2>6 DEF ClientRecheckConnect, CloseLock, Goto, ShouldEvict,
          Connectable, NoneConnectable, lockVars, leaderVars, envVars
    <2>7. CASE ClientReadPid(c)
      BY <2>7 DEF ClientReadPid, Goto, PidAtPath, lockVars, leaderVars,
          envVars
    <2>8. CASE ClientVacate(c)
      <3>1. conn[c] \in Leaders /\ pidRead[c] \in Leaders \cup {None}
        BY <2>8 DEF ClientVacate
      <3>2. relaunching' \subseteq Leaders /\ sigterm' \subseteq Leaders
        BY <2>8, <3>1 DEF ClientVacate, AcceptRelaunch, Kill
      <3>3. cpc' \in [Clients -> ClientPcs] /\ conn' \in [Clients -> Leaders \cup {None}]
        BY <2>8 DEF ClientVacate, Goto
      <3>4. ConnOK'
        BY <2>8 DEF ClientVacate, Goto
      <3>. QED
        BY <2>8, <3>2, <3>3, <3>4 DEF ClientVacate, lockVars, envVars
    <2>9. CASE ClientEvictWait(c)
      <3>1. sigterm' \subseteq Leaders
        BY <2>9 DEF ClientEvictWait, Kill
      <3>2. cpc' \in [Clients -> ClientPcs] /\ ConnOK'
        BY <2>9 DEF ClientEvictWait, Goto
      <3>. QED
        BY <2>9, <3>1, <3>2 DEF ClientEvictWait, lockVars, envVars
    <2>10. CASE ClientKillWait(c)
      BY <2>10 DEF ClientKillWait, Goto, lockVars, leaderVars, envVars
    <2>11. CASE ClientCleanupSocket(c)
      BY <2>11 DEF ClientCleanupSocket, UnlinkSocket, Goto, lockVars,
          leaderVars, envVars
    <2>12. CASE ClientSpawn(c)
      BY <2>12 DEF ClientSpawn, Goto, lockVars, envVars
    <2>13. CASE ClientReady(c)
      BY <2>13 DEF ClientReady, CloseLock, Goto, ListenerIsReady,
          leaderVars, envVars
    <2>14. CASE ClientConnectSpawned(c)
      BY <2>14 DEF ClientConnectSpawned, Goto, Connectable, NoneConnectable,
          lockVars, leaderVars, envVars
    <2>15. CASE ClientWaitTimeout(c)
      BY <2>15 DEF ClientWaitTimeout, Goto, lockVars, leaderVars, envVars
    <2>16. CASE ClientDropLock(c)
      BY <2>16 DEF ClientDropLock, UnlinkLock, Goto, leaderVars, envVars
    <2>17. CASE ClientDropSock(c)
      BY <2>17 DEF ClientDropSock, UnlinkSocket, Goto, lockVars, leaderVars,
          envVars
    <2>18. CASE ClientDropClose(c)
      BY <2>18 DEF ClientDropClose, CloseLock, Goto, leaderVars, envVars
    <2>19. CASE ClientReconnect(c)
      BY <2>19 DEF ClientReconnect, Goto, lockVars, leaderVars, envVars
    <2>20. CASE ClientWaitConnect(c)
      BY <2>20 DEF ClientWaitConnect, Goto, ShouldEvict, Connectable,
          lockVars, leaderVars, envVars
    <2>21. CASE ClientWaitError(c)
      BY <2>21 DEF ClientWaitError, ListenerIsReady, NoneConnectable,
          Connectable, lockVars, leaderVars, envVars
    <2>22. CASE ClientSpawnFails(c)
      BY <2>22 DEF ClientSpawnFails, Goto, lockVars, leaderVars
    <2>23. CASE ClientReadyTimeout(c)
      BY <2>23 DEF ClientReadyTimeout, Goto, DeadlinePasses, BindPending,
          Alive, lockVars, leaderVars
    <2>24. CASE ClientCrash(c)
      BY <2>24 DEF ClientCrash, CloseLock, Goto, leaderVars
    <2>. QED
      BY <1>1, <2>1, <2>2, <2>3, <2>4, <2>5, <2>6, <2>7, <2>8, <2>9, <2>10,
          <2>11, <2>12, <2>13, <2>14, <2>15, <2>16, <2>17, <2>18, <2>19,
          <2>20, <2>21, <2>22, <2>23, <2>24 DEF ClientNext, ClientStep
  <1>2. ASSUME NEW l \in Leaders, LeaderNext(l) PROVE Goal'
    <2>1. CASE LeaderOpenLock(l)
      BY <2>1 DEF LeaderOpenLock, OpenLockFile, Free, LGoto, clientVars,
          envVars
    <2>2. CASE LeaderTryLock(l)
      BY <2>2 DEF LeaderTryLock, Flock, Contended, CloseLock, LGoto,
          clientVars, envVars
    <2>3. CASE LeaderBailCheck(l)
      BY <2>3 DEF LeaderBailCheck, LGoto, ListenerIsReady, lockVars,
          clientVars, envVars
    <2>4. CASE LeaderTruncate(l)
      BY <2>4 DEF LeaderTruncate, LGoto, clientVars, envVars
    <2>5. CASE LeaderWritePid(l)
      BY <2>5 DEF LeaderWritePid, LGoto, clientVars, envVars
    <2>6. CASE LeaderCleanSocket(l)
      BY <2>6 DEF LeaderCleanSocket, UnlinkSocket, LGoto, lockVars,
          clientVars, envVars
    <2>7. CASE LeaderSocketSeen(l)
      BY <2>7 DEF LeaderSocketSeen, LGoto, ListenerIsReady, Holds, lockVars,
          clientVars, envVars
    <2>8. CASE LeaderHandoffOpen(l)
      BY <2>8 DEF LeaderHandoffOpen, OpenLockFile, Free, LGoto, clientVars,
          envVars
    <2>9. CASE LeaderHandoffTimeout(l)
      BY <2>9 DEF LeaderHandoffTimeout, CloseLock, LGoto, clientVars,
          envVars
    <2>10. CASE LeaderDropLock(l)
      BY <2>10 DEF LeaderDropLock, UnlinkLock, LGoto, Holds, lockVars,
          clientVars, envVars
    <2>11. CASE LeaderDropSock(l)
      BY <2>11 DEF LeaderDropSock, UnlinkSocket, LGoto, lockVars,
          clientVars, envVars
    <2>12. CASE LeaderDropClose(l)
      BY <2>12 DEF LeaderDropClose, CloseLock, LGoto, clientVars, envVars
    <2>13. CASE ServerRemove(l)
      BY <2>13 DEF ServerRemove, UnlinkSocket, lockVars, clientVars, envVars
    <2>14. CASE ServerBind(l)
      BY <2>14 DEF ServerBind, lockVars, clientVars, envVars
    <2>15. CASE ServerStop(l)
      BY <2>15 DEF ServerStop, UnlinkSocket, lockVars, clientVars, envVars
    <2>16. CASE LeaderHandoffLock(l)
      BY <2>16 DEF LeaderHandoffLock, Flock, LGoto, clientVars, envVars
    <2>17. CASE LeaderCancel(l)
      BY <2>17 DEF LeaderCancel, LGoto, lockVars, clientVars
    <2>18. CASE LeaderSocketTimeout(l)
      BY <2>18 DEF LeaderSocketTimeout, LGoto, DeadlinePasses, BindPending,
          Alive, lockVars, clientVars
    <2>19. CASE LeaderDie(l)
      BY <2>19 DEF LeaderDie, CloseLock, LGoto, Alive, clientVars
    <2>20. CASE LeaderExit(l)
      BY <2>20 DEF LeaderExit, LGoto, lockVars, clientVars, envVars
    <2>. QED
      BY <1>2, <2>1, <2>2, <2>3, <2>4, <2>5, <2>6, <2>7, <2>8, <2>9, <2>10,
          <2>11, <2>12, <2>13, <2>14, <2>15, <2>16, <2>17, <2>18, <2>19,
          <2>20 DEF LeaderNext, LeaderStep, ServerStep
  <1>3. CASE UNCHANGED vars
    BY <1>3 DEF vars
  <1>. QED
    BY <1>1, <1>2, <1>3 DEF Next
-----------------------------------------------------------------------------
(* Files, pids and the eviction under the flock.                           *)

\* A process that owns a flock owns it on the file it has open.
LEMMA HoldsIsOwns ==
  ASSUME TypeOK, HolderHasOpen, NEW p \in Procs
  PROVE  Holds(p) <=> Owns(p)
  <1>1. ASSUME NEW i \in Inodes, holder[i] = p PROVE fd[p] = i
    BY <1>1, SetsAssumption DEF HolderHasOpen, Procs
  <1>2. Holds(p) => Owns(p)
    BY <1>1, SetsAssumption DEF Holds, Owns
  <1>3. fd[p] \in Inodes \cup {None}
    BY DEF TypeOK
  <1>4. Owns(p) => Holds(p)
    BY <1>3 DEF Holds, Owns
  <1>. QED
    BY <1>2, <1>4

\* Every flock is on the file its owner has open, and the control state says which.
LEMMA StepFiles ==
  ASSUME TypeOK, LockInv, [Next]_vars
  PROVE  LockInv'
  <1> DEFINE Goal == LockInv
  <1> SUFFICES Goal'
    OBVIOUS
    <1> USE SetsAssumption DEF TypeOK, Procs, LockInv, HolderHasOpen,
       LeaderFiles, ClientFiles, Owns, LeaderClosed, LeaderOwns, LeaderMayOwn,
       ClientClosed, ClientOwns, ClientMayOwn
  <1>1. ASSUME NEW c \in Clients, ClientNext(c) PROVE Goal'
    <2>1. CASE ClientProbe(c)
      BY <2>1 DEF ClientProbe, Goto, PidAtPath, ListenerIsReady, Alive,
          lockVars, leaderVars, envVars
    <2>2. CASE ClientFastConnect(c)
      BY <2>2 DEF ClientFastConnect, Goto, ShouldEvict, Connectable,
          NoneConnectable, lockVars, leaderVars, envVars
    <2>3. CASE ClientOpenLock(c)
      BY <2>3 DEF ClientOpenLock, OpenLockFile, Free, Goto, leaderVars,
          envVars
    <2>4. CASE ClientTryLock(c)
      <3>1. CASE Flock(c) /\ Goto(c, "recheck")
        BY <2>4, <3>1 DEF ClientTryLock, Flock, Goto, leaderVars, envVars
      <3>2. CASE CloseLock(c) /\ Goto(c, "wait")
        BY <2>4, <3>2 DEF ClientTryLock, CloseLock, Goto, leaderVars, envVars
      <3>. QED
        BY <2>4, <3>1, <3>2 DEF ClientTryLock
    <2>5. CASE ClientRecheck(c)
      BY <2>5 DEF ClientRecheck, Goto, PidAtPath, ListenerIsReady, Alive,
          lockVars, leaderVars, envVars
    <2>6. CASE ClientRecheckConnect(c)
      <3>1. CASE CloseLock(c) /\ Goto(c, "done")
        BY <2>6, <3>1 DEF ClientRecheckConnect, CloseLock, Goto, leaderVars, envVars
      <3>2. CASE UNCHANGED lockVars /\ (Goto(c, "evict") \/ Goto(c, "cleanup"))
        BY <2>6, <3>2 DEF ClientRecheckConnect, Goto, lockVars, leaderVars, envVars
      <3>. QED
        BY <2>6, <3>1, <3>2 DEF ClientRecheckConnect, lockVars
    <2>7. CASE ClientReadPid(c)
      BY <2>7 DEF ClientReadPid, Goto, PidAtPath, lockVars, leaderVars,
          envVars
    <2>8. CASE ClientVacate(c)
      BY <2>8 DEF ClientVacate, Goto, AcceptRelaunch, Kill, Alive, lockVars,
          envVars
    <2>9. CASE ClientEvictWait(c)
      BY <2>9 DEF ClientEvictWait, Goto, Kill, Alive, lockVars, envVars
    <2>10. CASE ClientKillWait(c)
      BY <2>10 DEF ClientKillWait, Goto, lockVars, leaderVars, envVars
    <2>11. CASE ClientCleanupSocket(c)
      BY <2>11 DEF ClientCleanupSocket, UnlinkSocket, Goto, lockVars,
          leaderVars, envVars
    <2>12. CASE ClientSpawn(c)
      BY <2>12 DEF ClientSpawn, Goto, lockVars, envVars
    <2>13. CASE ClientReady(c)
      BY <2>13 DEF ClientReady, CloseLock, Goto, ListenerIsReady,
          leaderVars, envVars
    <2>14. CASE ClientConnectSpawned(c)
      BY <2>14 DEF ClientConnectSpawned, Goto, Connectable, NoneConnectable,
          lockVars, leaderVars, envVars
    <2>15. CASE ClientWaitTimeout(c)
      BY <2>15 DEF ClientWaitTimeout, Goto, lockVars, leaderVars, envVars
    <2>16. CASE ClientDropLock(c)
      BY <2>16 DEF ClientDropLock, UnlinkLock, Goto, leaderVars, envVars
    <2>17. CASE ClientDropSock(c)
      BY <2>17 DEF ClientDropSock, UnlinkSocket, Goto, lockVars, leaderVars,
          envVars
    <2>18. CASE ClientDropClose(c)
      BY <2>18 DEF ClientDropClose, CloseLock, Goto, leaderVars, envVars
    <2>19. CASE ClientReconnect(c)
      BY <2>19 DEF ClientReconnect, Goto, lockVars, leaderVars, envVars
    <2>20. CASE ClientWaitConnect(c)
      BY <2>20 DEF ClientWaitConnect, Goto, ShouldEvict, Connectable,
          lockVars, leaderVars, envVars
    <2>21. CASE ClientWaitError(c)
      BY <2>21 DEF ClientWaitError, ListenerIsReady, NoneConnectable,
          Connectable, lockVars, leaderVars, envVars
    <2>22. CASE ClientSpawnFails(c)
      BY <2>22 DEF ClientSpawnFails, Goto, lockVars, leaderVars
    <2>23. CASE ClientReadyTimeout(c)
      BY <2>23 DEF ClientReadyTimeout, Goto, DeadlinePasses, BindPending,
          Alive, lockVars, leaderVars
    <2>24. CASE ClientCrash(c)
      BY <2>24 DEF ClientCrash, CloseLock, Goto, leaderVars
    <2>. QED
      BY <1>1, <2>1, <2>2, <2>3, <2>4, <2>5, <2>6, <2>7, <2>8, <2>9, <2>10,
          <2>11, <2>12, <2>13, <2>14, <2>15, <2>16, <2>17, <2>18, <2>19,
          <2>20, <2>21, <2>22, <2>23, <2>24 DEF ClientNext, ClientStep
  <1>2. ASSUME NEW l \in Leaders, LeaderNext(l) PROVE Goal'
    <2>1. CASE LeaderOpenLock(l)
      BY <2>1 DEF LeaderOpenLock, OpenLockFile, Free, LGoto, clientVars,
          envVars
    <2>2. CASE LeaderTryLock(l)
      <3>1. CASE Flock(l) /\ LGoto(l, "trunc")
        BY <2>2, <3>1 DEF LeaderTryLock, Flock, LGoto, clientVars, envVars
      <3>2. CASE CloseLock(l) /\ LGoto(l, "contended")
        BY <2>2, <3>2 DEF LeaderTryLock, CloseLock, LGoto, clientVars, envVars
      <3>. QED
        BY <2>2, <3>1, <3>2 DEF LeaderTryLock
    <2>3. CASE LeaderBailCheck(l)
      BY <2>3 DEF LeaderBailCheck, LGoto, ListenerIsReady, lockVars,
          clientVars, envVars
    <2>4. CASE LeaderTruncate(l)
      BY <2>4 DEF LeaderTruncate, LGoto, clientVars, envVars
    <2>5. CASE LeaderWritePid(l)
      BY <2>5 DEF LeaderWritePid, LGoto, clientVars, envVars
    <2>6. CASE LeaderCleanSocket(l)
      BY <2>6 DEF LeaderCleanSocket, UnlinkSocket, LGoto, lockVars,
          clientVars, envVars
    <2>7. CASE LeaderSocketSeen(l)
      <3>1. Holds(l) <=> Owns(l)
        BY HoldsIsOwns
      <3>2. fd[l] = None \/ Owns(l)
        BY <2>7 DEF LeaderSocketSeen
      <3>. QED
        BY <2>7, <3>1, <3>2 DEF LeaderSocketSeen, LGoto, lockVars, clientVars
    <2>8. CASE LeaderHandoffOpen(l)
      BY <2>8 DEF LeaderHandoffOpen, OpenLockFile, Free, LGoto, clientVars,
          envVars
    <2>9. CASE LeaderHandoffTimeout(l)
      BY <2>9 DEF LeaderHandoffTimeout, CloseLock, LGoto, clientVars,
          envVars
    <2>10. CASE LeaderDropLock(l)
      <3>1. Holds(l) <=> Owns(l)
        BY HoldsIsOwns
      <3>2. fd[l] = None \/ Owns(l)
        BY <2>10 DEF LeaderDropLock
      <3>3. CASE Owns(l)
        BY <2>10, <3>1, <3>3 DEF LeaderDropLock, UnlinkLock, LGoto, clientVars
      <3>4. CASE ~Owns(l)
        BY <2>10, <3>1, <3>2, <3>4 DEF LeaderDropLock, LGoto, lockVars, clientVars
      <3>. QED
        BY <3>3, <3>4
    <2>11. CASE LeaderDropSock(l)
      BY <2>11 DEF LeaderDropSock, UnlinkSocket, LGoto, lockVars,
          clientVars, envVars
    <2>12. CASE LeaderDropClose(l)
      BY <2>12 DEF LeaderDropClose, CloseLock, LGoto, clientVars, envVars
    <2>13. CASE ServerRemove(l)
      BY <2>13 DEF ServerRemove, UnlinkSocket, lockVars, clientVars, envVars
    <2>14. CASE ServerBind(l)
      BY <2>14 DEF ServerBind, lockVars, clientVars, envVars
    <2>15. CASE ServerStop(l)
      BY <2>15 DEF ServerStop, UnlinkSocket, lockVars, clientVars, envVars
    <2>16. CASE LeaderHandoffLock(l)
      BY <2>16 DEF LeaderHandoffLock, Flock, LGoto, clientVars, envVars
    <2>17. CASE LeaderCancel(l)
      BY <2>17 DEF LeaderCancel, LGoto, lockVars, clientVars
    <2>18. CASE LeaderSocketTimeout(l)
      BY <2>18 DEF LeaderSocketTimeout, LGoto, DeadlinePasses, BindPending,
          Alive, lockVars, clientVars
    <2>19. CASE LeaderDie(l)
      BY <2>19 DEF LeaderDie, CloseLock, LGoto, Alive, clientVars
    <2>20. CASE LeaderExit(l)
      BY <2>20 DEF LeaderExit, LGoto, lockVars, clientVars, envVars
    <2>. QED
      BY <1>2, <2>1, <2>2, <2>3, <2>4, <2>5, <2>6, <2>7, <2>8, <2>9, <2>10,
          <2>11, <2>12, <2>13, <2>14, <2>15, <2>16, <2>17, <2>18, <2>19,
          <2>20 DEF LeaderNext, LeaderStep, ServerStep
  <1>3. CASE UNCHANGED vars
    BY <1>3 DEF vars, PidAtPath, Alive
  <1>. QED
    BY <1>1, <1>2, <1>3 DEF Next

\* A pid is trusted only while its process owns the file it is written in, and Drop
\* unlinks that file before it closes it.
LEMMA StepPid ==
  ASSUME TypeOK, LockInv, IdleUnwritten, LivePidNamesHolder, [Next]_vars
  PROVE  IdleUnwritten' /\ LivePidNamesHolder'
  <1> DEFINE Goal == IdleUnwritten /\ LivePidNamesHolder
  <1> SUFFICES Goal'
    OBVIOUS
    <1> USE SetsAssumption DEF TypeOK, Procs, LockInv, HolderHasOpen,
       LeaderFiles, ClientFiles, Owns, LeaderClosed, LeaderOwns, LeaderMayOwn,
       ClientClosed, ClientOwns, ClientMayOwn, IdleUnwritten,
       LivePidNamesHolder, Alive
  <1>1. ASSUME NEW c \in Clients, ClientNext(c) PROVE Goal'
    <2>1. CASE ClientProbe(c)
      BY <2>1 DEF ClientProbe, Goto, PidAtPath, ListenerIsReady, Alive,
          lockVars, leaderVars, envVars
    <2>2. CASE ClientFastConnect(c)
      BY <2>2 DEF ClientFastConnect, Goto, ShouldEvict, Connectable,
          NoneConnectable, lockVars, leaderVars, envVars
    <2>3. CASE ClientOpenLock(c)
      BY <2>3 DEF ClientOpenLock, OpenLockFile, Free, Goto, leaderVars,
          envVars
    <2>4. CASE ClientTryLock(c)
      BY <2>4 DEF ClientTryLock, Flock, Contended, CloseLock, Goto,
          leaderVars, envVars
    <2>5. CASE ClientRecheck(c)
      BY <2>5 DEF ClientRecheck, Goto, PidAtPath, ListenerIsReady, Alive,
          lockVars, leaderVars, envVars
    <2>6. CASE ClientRecheckConnect(c)
      BY <2>6 DEF ClientRecheckConnect, CloseLock, Goto, ShouldEvict,
          Connectable, NoneConnectable, lockVars, leaderVars, envVars
    <2>7. CASE ClientReadPid(c)
      BY <2>7 DEF ClientReadPid, Goto, PidAtPath, lockVars, leaderVars,
          envVars
    <2>8. CASE ClientVacate(c)
      BY <2>8 DEF ClientVacate, Goto, AcceptRelaunch, Kill, Alive, lockVars,
          envVars
    <2>9. CASE ClientEvictWait(c)
      BY <2>9 DEF ClientEvictWait, Goto, Kill, Alive, lockVars, envVars
    <2>10. CASE ClientKillWait(c)
      BY <2>10 DEF ClientKillWait, Goto, lockVars, leaderVars, envVars
    <2>11. CASE ClientCleanupSocket(c)
      BY <2>11 DEF ClientCleanupSocket, UnlinkSocket, Goto, lockVars,
          leaderVars, envVars
    <2>12. CASE ClientSpawn(c)
      BY <2>12 DEF ClientSpawn, Goto, lockVars, envVars
    <2>13. CASE ClientReady(c)
      BY <2>13 DEF ClientReady, CloseLock, Goto, ListenerIsReady,
          leaderVars, envVars
    <2>14. CASE ClientConnectSpawned(c)
      BY <2>14 DEF ClientConnectSpawned, Goto, Connectable, NoneConnectable,
          lockVars, leaderVars, envVars
    <2>15. CASE ClientWaitTimeout(c)
      BY <2>15 DEF ClientWaitTimeout, Goto, lockVars, leaderVars, envVars
    <2>16. CASE ClientDropLock(c)
      BY <2>16 DEF ClientDropLock, UnlinkLock, Goto, leaderVars, envVars
    <2>17. CASE ClientDropSock(c)
      BY <2>17 DEF ClientDropSock, UnlinkSocket, Goto, lockVars, leaderVars,
          envVars
    <2>18. CASE ClientDropClose(c)
      BY <2>18 DEF ClientDropClose, CloseLock, Goto, leaderVars, envVars
    <2>19. CASE ClientReconnect(c)
      BY <2>19 DEF ClientReconnect, Goto, lockVars, leaderVars, envVars
    <2>20. CASE ClientWaitConnect(c)
      BY <2>20 DEF ClientWaitConnect, Goto, ShouldEvict, Connectable,
          lockVars, leaderVars, envVars
    <2>21. CASE ClientWaitError(c)
      BY <2>21 DEF ClientWaitError, ListenerIsReady, NoneConnectable,
          Connectable, lockVars, leaderVars, envVars
    <2>22. CASE ClientSpawnFails(c)
      BY <2>22 DEF ClientSpawnFails, Goto, lockVars, leaderVars
    <2>23. CASE ClientReadyTimeout(c)
      BY <2>23 DEF ClientReadyTimeout, Goto, DeadlinePasses, BindPending,
          Alive, lockVars, leaderVars
    <2>24. CASE ClientCrash(c)
      BY <2>24 DEF ClientCrash, CloseLock, Goto, leaderVars
    <2>. QED
      BY <1>1, <2>1, <2>2, <2>3, <2>4, <2>5, <2>6, <2>7, <2>8, <2>9, <2>10,
          <2>11, <2>12, <2>13, <2>14, <2>15, <2>16, <2>17, <2>18, <2>19,
          <2>20, <2>21, <2>22, <2>23, <2>24 DEF ClientNext, ClientStep
  <1>2. ASSUME NEW l \in Leaders, LeaderNext(l) PROVE Goal'
    <2>1. CASE LeaderOpenLock(l)
      BY <2>1 DEF LeaderOpenLock, OpenLockFile, Free, LGoto, clientVars,
          envVars
    <2>2. CASE LeaderTryLock(l)
      <3>1. CASE Flock(l) /\ LGoto(l, "trunc")
        BY <2>2, <3>1 DEF LeaderTryLock, Flock, LGoto, clientVars, envVars
      <3>2. CASE CloseLock(l) /\ LGoto(l, "contended")
        BY <2>2, <3>2 DEF LeaderTryLock, CloseLock, LGoto, clientVars, envVars
      <3>. QED
        BY <2>2, <3>1, <3>2 DEF LeaderTryLock
    <2>3. CASE LeaderBailCheck(l)
      BY <2>3 DEF LeaderBailCheck, LGoto, ListenerIsReady, lockVars,
          clientVars, envVars
    <2>4. CASE LeaderTruncate(l)
      BY <2>4 DEF LeaderTruncate, LGoto, clientVars, envVars
    <2>5. CASE LeaderWritePid(l)
      BY <2>5 DEF LeaderWritePid, LGoto, clientVars, envVars
    <2>6. CASE LeaderCleanSocket(l)
      BY <2>6 DEF LeaderCleanSocket, UnlinkSocket, LGoto, lockVars,
          clientVars, envVars
    <2>7. CASE LeaderSocketSeen(l)
      BY <2>7 DEF LeaderSocketSeen, LGoto, ListenerIsReady, Holds, lockVars,
          clientVars, envVars
    <2>8. CASE LeaderHandoffOpen(l)
      BY <2>8 DEF LeaderHandoffOpen, OpenLockFile, Free, LGoto, clientVars,
          envVars
    <2>9. CASE LeaderHandoffTimeout(l)
      BY <2>9 DEF LeaderHandoffTimeout, CloseLock, LGoto, clientVars,
          envVars
    <2>10. CASE LeaderDropLock(l)
      <3>1. CASE UnlinkLock /\ LGoto(l, "dropsock")
        BY <2>10, <3>1 DEF LeaderDropLock, UnlinkLock, LGoto
      <3>2. CASE ~Holds(l) /\ LGoto(l, "exiting") /\ UNCHANGED lockVars
        <4>1. \A i \in Inodes : content[i] # l
          BY <2>10, <3>2 DEF LeaderDropLock, Holds
        <4>. QED
          BY <2>10, <3>2, <4>1 DEF LeaderDropLock, LGoto, lockVars
      <3>. QED
        BY <2>10, <3>1, <3>2 DEF LeaderDropLock
    <2>11. CASE LeaderDropSock(l)
      BY <2>11 DEF LeaderDropSock, UnlinkSocket, LGoto, lockVars,
          clientVars, envVars
    <2>12. CASE LeaderDropClose(l)
      BY <2>12 DEF LeaderDropClose, CloseLock, LGoto, clientVars, envVars
    <2>13. CASE ServerRemove(l)
      BY <2>13 DEF ServerRemove, UnlinkSocket, lockVars, clientVars, envVars
    <2>14. CASE ServerBind(l)
      BY <2>14 DEF ServerBind, lockVars, clientVars, envVars
    <2>15. CASE ServerStop(l)
      BY <2>15 DEF ServerStop, UnlinkSocket, lockVars, clientVars, envVars
    <2>16. CASE LeaderHandoffLock(l)
      BY <2>16 DEF LeaderHandoffLock, Flock, LGoto, clientVars, envVars
    <2>17. CASE LeaderCancel(l)
      BY <2>17 DEF LeaderCancel, LGoto, lockVars, clientVars
    <2>18. CASE LeaderSocketTimeout(l)
      BY <2>18 DEF LeaderSocketTimeout, LGoto, DeadlinePasses, BindPending,
          Alive, lockVars, clientVars
    <2>19. CASE LeaderDie(l)
      BY <2>19 DEF LeaderDie, CloseLock, LGoto, Alive, clientVars
    <2>20. CASE LeaderExit(l)
      BY <2>20 DEF LeaderExit, LGoto, lockVars, clientVars, envVars
    <2>. QED
      BY <1>2, <2>1, <2>2, <2>3, <2>4, <2>5, <2>6, <2>7, <2>8, <2>9, <2>10,
          <2>11, <2>12, <2>13, <2>14, <2>15, <2>16, <2>17, <2>18, <2>19,
          <2>20 DEF LeaderNext, LeaderStep, ServerStep
  <1>3. CASE UNCHANGED vars
    BY <1>3 DEF vars, PidAtPath, Alive
  <1>. QED
    BY <1>1, <1>2, <1>3 DEF Next

\* A client that owns a flock and reads a live pid reads it from another file, and
\* an unlinked file never gets its path back.
LEMMA StepEviction ==
  ASSUME TypeOK, LockInv, LivePidNamesHolder, EvictionMeansOrphanedLock, [Next]_vars
  PROVE  EvictionMeansOrphanedLock'
  <1> DEFINE Goal == EvictionMeansOrphanedLock
  <1> SUFFICES Goal'
    OBVIOUS
    <1> USE SetsAssumption DEF TypeOK, Procs, LockInv, HolderHasOpen,
       LeaderFiles, ClientFiles, Owns, LeaderClosed, LeaderOwns, LeaderMayOwn,
       ClientClosed, ClientOwns, ClientMayOwn, LivePidNamesHolder,
       EvictionMeansOrphanedLock
  <1>1. ASSUME NEW c \in Clients, ClientNext(c) PROVE Goal'
    <2>1. CASE ClientProbe(c)
      BY <2>1 DEF ClientProbe, Goto, PidAtPath, ListenerIsReady, Alive,
          lockVars, leaderVars, envVars
    <2>2. CASE ClientFastConnect(c)
      BY <2>2 DEF ClientFastConnect, Goto, ShouldEvict, Connectable,
          NoneConnectable, lockVars, leaderVars, envVars
    <2>3. CASE ClientOpenLock(c)
      BY <2>3 DEF ClientOpenLock, OpenLockFile, Free, Goto, leaderVars,
          envVars
    <2>4. CASE ClientTryLock(c)
      BY <2>4 DEF ClientTryLock, Flock, Contended, CloseLock, Goto,
          leaderVars, envVars
    <2>5. CASE ClientRecheck(c)
      BY <2>5 DEF ClientRecheck, Goto, PidAtPath, ListenerIsReady, Alive,
          lockVars, leaderVars, envVars
    <2>6. CASE ClientRecheckConnect(c)
      BY <2>6 DEF ClientRecheckConnect, CloseLock, Goto, ShouldEvict,
          Connectable, NoneConnectable, lockVars, leaderVars, envVars
    <2>7. CASE ClientReadPid(c)
      BY <2>7 DEF ClientReadPid, Goto, PidAtPath, lockVars, leaderVars,
          envVars
    <2>8. CASE ClientVacate(c)
      BY <2>8 DEF ClientVacate, Goto, AcceptRelaunch, Kill, Alive, lockVars,
          envVars
    <2>9. CASE ClientEvictWait(c)
      BY <2>9 DEF ClientEvictWait, Goto, Kill, Alive, lockVars, envVars
    <2>10. CASE ClientKillWait(c)
      BY <2>10 DEF ClientKillWait, Goto, lockVars, leaderVars, envVars
    <2>11. CASE ClientCleanupSocket(c)
      BY <2>11 DEF ClientCleanupSocket, UnlinkSocket, Goto, lockVars,
          leaderVars, envVars
    <2>12. CASE ClientSpawn(c)
      BY <2>12 DEF ClientSpawn, Goto, lockVars, envVars
    <2>13. CASE ClientReady(c)
      BY <2>13 DEF ClientReady, CloseLock, Goto, ListenerIsReady,
          leaderVars, envVars
    <2>14. CASE ClientConnectSpawned(c)
      BY <2>14 DEF ClientConnectSpawned, Goto, Connectable, NoneConnectable,
          lockVars, leaderVars, envVars
    <2>15. CASE ClientWaitTimeout(c)
      BY <2>15 DEF ClientWaitTimeout, Goto, lockVars, leaderVars, envVars
    <2>16. CASE ClientDropLock(c)
      BY <2>16 DEF ClientDropLock, UnlinkLock, Goto, leaderVars, envVars
    <2>17. CASE ClientDropSock(c)
      BY <2>17 DEF ClientDropSock, UnlinkSocket, Goto, lockVars, leaderVars,
          envVars
    <2>18. CASE ClientDropClose(c)
      BY <2>18 DEF ClientDropClose, CloseLock, Goto, leaderVars, envVars
    <2>19. CASE ClientReconnect(c)
      BY <2>19 DEF ClientReconnect, Goto, lockVars, leaderVars, envVars
    <2>20. CASE ClientWaitConnect(c)
      BY <2>20 DEF ClientWaitConnect, Goto, ShouldEvict, Connectable,
          lockVars, leaderVars, envVars
    <2>21. CASE ClientWaitError(c)
      BY <2>21 DEF ClientWaitError, ListenerIsReady, NoneConnectable,
          Connectable, lockVars, leaderVars, envVars
    <2>22. CASE ClientSpawnFails(c)
      BY <2>22 DEF ClientSpawnFails, Goto, lockVars, leaderVars
    <2>23. CASE ClientReadyTimeout(c)
      BY <2>23 DEF ClientReadyTimeout, Goto, DeadlinePasses, BindPending,
          Alive, lockVars, leaderVars
    <2>24. CASE ClientCrash(c)
      BY <2>24 DEF ClientCrash, CloseLock, Goto, leaderVars
    <2>. QED
      BY <1>1, <2>1, <2>2, <2>3, <2>4, <2>5, <2>6, <2>7, <2>8, <2>9, <2>10,
          <2>11, <2>12, <2>13, <2>14, <2>15, <2>16, <2>17, <2>18, <2>19,
          <2>20, <2>21, <2>22, <2>23, <2>24 DEF ClientNext, ClientStep
  <1>2. ASSUME NEW l \in Leaders, LeaderNext(l) PROVE Goal'
    <2>1. CASE LeaderOpenLock(l)
      BY <2>1 DEF LeaderOpenLock, OpenLockFile, Free, LGoto, clientVars,
          envVars
    <2>2. CASE LeaderTryLock(l)
      BY <2>2 DEF LeaderTryLock, Flock, Contended, CloseLock, LGoto,
          clientVars, envVars
    <2>3. CASE LeaderBailCheck(l)
      BY <2>3 DEF LeaderBailCheck, LGoto, ListenerIsReady, lockVars,
          clientVars, envVars
    <2>4. CASE LeaderTruncate(l)
      BY <2>4 DEF LeaderTruncate, LGoto, clientVars, envVars
    <2>5. CASE LeaderWritePid(l)
      BY <2>5 DEF LeaderWritePid, LGoto, clientVars, envVars
    <2>6. CASE LeaderCleanSocket(l)
      BY <2>6 DEF LeaderCleanSocket, UnlinkSocket, LGoto, lockVars,
          clientVars, envVars
    <2>7. CASE LeaderSocketSeen(l)
      BY <2>7 DEF LeaderSocketSeen, LGoto, ListenerIsReady, Holds, lockVars,
          clientVars, envVars
    <2>8. CASE LeaderHandoffOpen(l)
      BY <2>8 DEF LeaderHandoffOpen, OpenLockFile, Free, LGoto, clientVars,
          envVars
    <2>9. CASE LeaderHandoffTimeout(l)
      BY <2>9 DEF LeaderHandoffTimeout, CloseLock, LGoto, clientVars,
          envVars
    <2>10. CASE LeaderDropLock(l)
      BY <2>10 DEF LeaderDropLock, UnlinkLock, LGoto, Holds, lockVars,
          clientVars, envVars
    <2>11. CASE LeaderDropSock(l)
      BY <2>11 DEF LeaderDropSock, UnlinkSocket, LGoto, lockVars,
          clientVars, envVars
    <2>12. CASE LeaderDropClose(l)
      BY <2>12 DEF LeaderDropClose, CloseLock, LGoto, clientVars, envVars
    <2>13. CASE ServerRemove(l)
      BY <2>13 DEF ServerRemove, UnlinkSocket, lockVars, clientVars, envVars
    <2>14. CASE ServerBind(l)
      BY <2>14 DEF ServerBind, lockVars, clientVars, envVars
    <2>15. CASE ServerStop(l)
      BY <2>15 DEF ServerStop, UnlinkSocket, lockVars, clientVars, envVars
    <2>16. CASE LeaderHandoffLock(l)
      BY <2>16 DEF LeaderHandoffLock, Flock, LGoto, clientVars, envVars
    <2>17. CASE LeaderCancel(l)
      BY <2>17 DEF LeaderCancel, LGoto, lockVars, clientVars
    <2>18. CASE LeaderSocketTimeout(l)
      BY <2>18 DEF LeaderSocketTimeout, LGoto, DeadlinePasses, BindPending,
          Alive, lockVars, clientVars
    <2>19. CASE LeaderDie(l)
      BY <2>19 DEF LeaderDie, CloseLock, LGoto, Alive, clientVars
    <2>20. CASE LeaderExit(l)
      BY <2>20 DEF LeaderExit, LGoto, lockVars, clientVars, envVars
    <2>. QED
      BY <1>2, <2>1, <2>2, <2>3, <2>4, <2>5, <2>6, <2>7, <2>8, <2>9, <2>10,
          <2>11, <2>12, <2>13, <2>14, <2>15, <2>16, <2>17, <2>18, <2>19,
          <2>20 DEF LeaderNext, LeaderStep, ServerStep
  <1>3. CASE UNCHANGED vars
    BY <1>3 DEF vars, PidAtPath, Alive
  <1>. QED
    BY <1>1, <1>2, <1>3 DEF Next
-----------------------------------------------------------------------------
(* The theorems.                                                           *)

LEMMA InitIInv == Init => IInv
  <1> SUFFICES ASSUME Init PROVE IInv
    OBVIOUS
  <1>1. TypeOK /\ ConnOK
    BY InitType
  <1>2. LockInv
    <2>1. HolderHasOpen
      BY SetsAssumption DEF Init, InitWith, HolderHasOpen, Procs
    <2>2. LeaderFiles
      BY SetsAssumption DEF Init, InitWith, LeaderFiles, Owns, LeaderClosed,
         LeaderOwns, LeaderMayOwn, Procs
    <2>3. ASSUME NEW c \in Clients PROVE cpc[c] = "start" /\ fd[c] = None
      <3>1. PICK scenario \in Scenarios, l \in Leaders, i \in Inodes,
                 v \in {ClientVersion[d] : d \in Clients} : InitWith(scenario, l, i, v)
        BY DEF Init
      <3>2. c # l /\ c \in Procs
        BY SetsAssumption DEF Procs
      <3>3. fd[c] = None
        BY <3>1, <3>2 DEF InitWith
      <3>. QED
        BY <3>3 DEF Init
    <2>4. ClientFiles
      BY <2>3 DEF ClientFiles, ClientClosed, ClientOwns, ClientMayOwn
    <2>. QED
      BY <2>1, <2>2, <2>4 DEF LockInv
  <1>3. IdleUnwritten /\ LivePidNamesHolder /\ EvictionMeansOrphanedLock
    BY SetsAssumption DEF Init, InitWith, IdleUnwritten, LivePidNamesHolder,
       EvictionMeansOrphanedLock, Alive, Procs
  <1>. QED
    BY <1>1, <1>2, <1>3 DEF IInv

LEMMA StepIInv == IInv /\ [Next]_vars => IInv'
  BY StepType, StepFiles, StepPid, StepEviction DEF IInv

LEMMA Invariance == Spec => []IInv
  BY InitIInv, StepIInv, PTL DEF Spec

\* Every variable keeps its type, for any parameters of the system.
THEOREM Typing == Spec => []TypeOK
  <1>1. IInv => TypeOK
    BY DEF IInv
  <1>. QED
    BY <1>1, Invariance, PTL

\* write_pid's contract, up to the last moments of a process: a live pid in a lock
\* file names the owner of its flock, or a leader that is exiting after its Drop
\* took the file off the lock path.
THEOREM PidNamesHolder == Spec => []LivePidNamesHolder
  <1>1. IInv => LivePidNamesHolder
    BY DEF IInv
  <1>. QED
    BY <1>1, Invariance, PTL

\* connect_or_spawn evicts under its flock only when that flock is on a file
\* that the lock path no longer names.
THEOREM EvictionIsOrphaned == Spec => []EvictionMeansOrphanedLock
  <1>1. IInv => EvictionMeansOrphanedLock
    BY DEF IInv
  <1>. QED
    BY <1>1, Invariance, PTL

\* At most one serving leader owns the flock of the file at the lock path.
THEOREM OneLinkedLeader == Spec => []SingleLinkedLeader
  <1>1. IInv => SingleLinkedLeader
    BY DEF IInv, LockInv, LeaderFiles, LeaderOwns, Owns, SingleLinkedLeader
  <1>. QED
    BY <1>1, Invariance, PTL
=============================================================================

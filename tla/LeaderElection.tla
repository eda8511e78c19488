--------------------------- MODULE LeaderElection ---------------------------
(***************************************************************************)
(* Election of the leader process: connect_or_spawn (leader/mod.rs) in     *)
(* every client, run_leader (agent/app.rs) in every leader subprocess, and *)
(* the LeaderLock (leader/lock.rs) both of them use.                       *)
(*                                                                         *)
(* The lock is a flock on an open file, so the file system is modelled by  *)
(* inodes: lockPath is the inode the path leader.lock names, fd[p] the     *)
(* inode p has open, holder[i] the process whose flock is on i.  Drop      *)
(* unlinks the path while the file is still open, after which a process    *)
(* may own the flock of a file nobody can open any more.  The socket path  *)
(* names the leader that bound it, which may have died since.              *)
(*                                                                         *)
(* Time is abstracted: a timeout is a step that may be taken.  The         *)
(* timeouts that only a stalled machine meets are taken from a budget.     *)
(***************************************************************************)
EXTENDS Naturals

CONSTANTS
  Clients,         \* processes running connect_or_spawn
  Leaders,         \* pids of the leader processes that may ever run
  Inodes,          \* lock files that may exist at one time
  None,            \* no file, no process, no pid
  ClientVersion,   \* CLIENT_LEADER_VERSION of each client
  Installed,       \* version behind the managed install's symlink
  Relaunchable,    \* leader versions that advertise RelaunchForUpdate
  MaxCrashes,      \* bound: processes that die without running Drop
  MaxStalls,       \* bound: spawns and startups that overrun their deadline
  MaxShutdowns,    \* bound: leaders cancelled by their auto-update checker
  Scenarios        \* what the file system looks like at the start

Procs == Clients \cup Leaders
Versions == Nat

ASSUME SetsAssumption ==
  /\ Leaders \subseteq Nat /\ Inodes \subseteq Nat
  /\ Clients \cap Leaders = {}
  /\ None \notin Clients \cup Leaders \cup Inodes
  /\ ClientVersion \in [Clients -> Versions]
  /\ Installed \in Versions
  /\ Relaunchable \subseteq Versions
  /\ Scenarios \subseteq {"fresh", "crashed", "running"}

ASSUME BoundsAssumption ==
  MaxCrashes \in Nat /\ MaxStalls \in Nat /\ MaxShutdowns \in Nat

VARIABLES
  lockPath,     \* inode at the lock path, or None
  fd,           \* lock_file of each process's LeaderLock (or of the open in progress)
  holder,       \* flock owner of each inode
  content,      \* pid written in each inode
  sockPath,     \* leader whose listener the socket path names, or None
  lpc,          \* control state of run_leader
  srv,          \* state of the leader's IPC server task
  ver,          \* leader_binary_version
  relaunching,  \* leaders that accepted RelaunchForUpdate
  sigterm,      \* leaders signalled by kill_process_by_pid
  cpc,          \* control state of connect_or_spawn
  conn,         \* leader a client is connected to
  pidRead,      \* pid a client read before it asks a leader to vacate
  sawErr,       \* last_error of wait_for_socket_connectable is set
  crashes, stalls, shutdowns   \* faults taken so far

lockVars == <<lockPath, fd, holder, content>>
leaderVars == <<lpc, srv, ver, relaunching, sigterm>>
clientVars == <<cpc, conn, pidRead, sawErr>>
envVars == <<crashes, stalls, shutdowns>>
vars == <<lockPath, fd, holder, content, sockPath, lpc, srv, ver, relaunching,
          sigterm, cpc, conn, pidRead, sawErr, crashes, stalls, shutdowns>>

LeaderPcs ==
  {"idle", "open", "try", "contended", "trunc", "write", "clean", "waitsock",
   "popen", "poll", "serving", "cancelled", "dropsock", "dropclose", "exiting", "gone"}
ServerPcs == {"off", "starting", "removed", "listening", "failed", "stopped"}
ClientPcs ==
  {"start", "fast", "open", "try", "recheck", "recheckconn", "evict", "vacate",
   "evictwait", "killwait", "cleanup", "spawn", "ready", "connect", "wait",
   "droplock", "dropsock", "dropclose", "done", "failed"}

-----------------------------------------------------------------------------
(* LeaderLock.                                                             *)

Alive(l) == lpc[l] \notin {"idle", "gone"}

\* A leader on its way to bind does so within the deadlines of those who wait for
\* the socket, unless the machine stalls. With none on its way they all expire.
BindPending == \E l \in Leaders : Alive(l) /\ srv[l] \in {"off", "starting", "removed"}
DeadlinePasses ==
  \/ sockPath = None /\ ~BindPending /\ UNCHANGED stalls
  \/ stalls < MaxStalls /\ stalls' = stalls + 1

\* read_pid_from_path: the pid written in the file the lock path names now.
PidAtPath == IF lockPath = None THEN None ELSE content[lockPath]

\* listener_is_ready on Unix is path.exists(): a dead leader's socket counts.
ListenerIsReady == sockPath # None
Connectable(l) == sockPath = l /\ srv[l] = "listening"
NoneConnectable == \A l \in Leaders : ~Connectable(l)

Holds(p) == \E i \in Inodes : holder[i] = p

Free(i) == \A p \in Procs : fd[p] # i

\* open_lock_file: open the file at the path, creating it when there is none.
\* An unlinked inode is reused only when no process has it open.
OpenLockFile(p) ==
  \/ /\ lockPath # None
     /\ fd' = [fd EXCEPT ![p] = lockPath]
     /\ UNCHANGED <<lockPath, holder, content>>
  \/ /\ lockPath = None
     /\ \E i \in Inodes :
          /\ Free(i) /\ \A j \in Inodes : Free(j) => i <= j
          /\ lockPath' = i
          /\ fd' = [fd EXCEPT ![p] = i]
          /\ content' = [content EXCEPT ![i] = None]
          /\ UNCHANGED holder

\* try_lock_exclusive succeeds: mark_acquired.
Flock(p) ==
  /\ holder[fd[p]] = None
  /\ holder' = [holder EXCEPT ![fd[p]] = p]
  /\ UNCHANGED <<lockPath, fd, content>>

Contended(p) == holder[fd[p]] # None

\* The file is closed: by release(), by Drop or by the kernel. The flock goes
\* with it and the files stay.
CloseLock(p) ==
  /\ fd' = [fd EXCEPT ![p] = None]
  /\ holder' = [i \in Inodes |-> IF holder[i] = p THEN None ELSE holder[i]]
  /\ UNCHANGED <<lockPath, content>>

\* remove_file(lock_path) in Drop; whichever file the path names now.
UnlinkLock == lockPath' = None /\ UNCHANGED <<fd, holder, content>>
UnlinkSocket == sockPath' = None

-----------------------------------------------------------------------------
(* connect_or_spawn.                                                       *)

Goto(c, pc) == cpc' = [cpc EXCEPT ![c] = pc]
ShouldEvict(c, l) == ver[l] < ClientVersion[c]

\* The fast path looks at the socket only when the pid in the lock file is
\* not that of a dead process.
ClientProbe(c) ==
  /\ cpc[c] = "start"
  /\ Goto(c, IF ListenerIsReady /\ (PidAtPath # None => Alive(PidAtPath))
             THEN "fast" ELSE "open")
  /\ UNCHANGED <<lockVars, sockPath, leaderVars, conn, pidRead, sawErr, envVars>>

ClientFastConnect(c) ==
  /\ cpc[c] = "fast"
  /\ \/ \E l \in Leaders :
          /\ Connectable(l)
          /\ IF ShouldEvict(c, l)
             THEN Goto(c, "open") /\ UNCHANGED conn
             ELSE Goto(c, "done") /\ conn' = [conn EXCEPT ![c] = l]
     \/ NoneConnectable /\ Goto(c, "open") /\ UNCHANGED conn
  /\ UNCHANGED <<lockVars, sockPath, leaderVars, pidRead, sawErr, envVars>>

ClientOpenLock(c) ==
  /\ cpc[c] = "open"
  /\ OpenLockFile(c)
  /\ Goto(c, "try")
  /\ UNCHANGED <<sockPath, leaderVars, conn, pidRead, sawErr, envVars>>

ClientTryLock(c) ==
  /\ cpc[c] = "try"
  /\ \/ Flock(c) /\ Goto(c, "recheck") /\ UNCHANGED sawErr
     \/ /\ Contended(c)
        /\ CloseLock(c)
        /\ Goto(c, "wait")
        /\ sawErr' = [sawErr EXCEPT ![c] = FALSE]
  /\ UNCHANGED <<sockPath, leaderVars, conn, pidRead, envVars>>

\* (mutant) The recheck under the lock looks at the socket only.
RecheckSocketOnly(c) ==
  /\ cpc[c] = "recheck"
  /\ Goto(c, IF ListenerIsReady THEN "recheckconn" ELSE "cleanup")
  /\ UNCHANGED <<lockVars, sockPath, leaderVars, conn, pidRead, sawErr, envVars>>

\* Lock acquired: a sibling may have spawned a leader in the meantime.
ClientRecheck(c) ==
  /\ cpc[c] = "recheck"
  /\ Goto(c, IF ListenerIsReady /\ PidAtPath # None /\ Alive(PidAtPath)
             THEN "recheckconn" ELSE "cleanup")
  /\ UNCHANGED <<lockVars, sockPath, leaderVars, conn, pidRead, sawErr, envVars>>

ClientRecheckConnect(c) ==
  /\ cpc[c] = "recheckconn"
  /\ \/ \E l \in Leaders :
          /\ Connectable(l)
          /\ conn' = [conn EXCEPT ![c] = l]
          /\ IF ShouldEvict(c, l)
             THEN Goto(c, "evict") /\ UNCHANGED lockVars
             ELSE Goto(c, "done") /\ CloseLock(c)
     \/ NoneConnectable /\ Goto(c, "cleanup") /\ UNCHANGED <<lockVars, conn>>
  /\ UNCHANGED <<sockPath, leaderVars, pidRead, sawErr, envVars>>

\* lock.read_pid(), evaluated before request_leader_vacate.
ClientReadPid(c) ==
  /\ cpc[c] = "evict"
  /\ pidRead' = [pidRead EXCEPT ![c] = PidAtPath]
  /\ Goto(c, "vacate")
  /\ UNCHANGED <<lockVars, sockPath, leaderVars, conn, sawErr, envVars>>

\* decide_relaunch_for_update, in the leader on the other end of conn.
AcceptRelaunch(c) ==
  relaunching' = {l \in Leaders :
    \/ l \in relaunching
    \/ l = conn[c] /\ srv[l] = "listening" /\ ver[l] < ClientVersion[c]}

\* (mutant) SIGTERM to whatever pid was read, none included.
KillUnguarded(pid) == sigterm' = sigterm \cup {pid}

Kill(pid) == sigterm' = {l \in Leaders : l \in sigterm \/ (l = pid /\ Alive(l))}

\* request_leader_vacate: RelaunchForUpdate to the leader of conn, or SIGTERM to
\* the pid that was read. Under the flock evict_leader goes on to wait for it.
ClientVacate(c) ==
  /\ cpc[c] = "vacate"
  /\ IF ver[conn[c]] \in Relaunchable
     THEN AcceptRelaunch(c) /\ UNCHANGED sigterm
     ELSE Kill(pidRead[c]) /\ UNCHANGED relaunching
  /\ conn' = [conn EXCEPT ![c] = None]
  /\ Goto(c, IF fd[c] # None THEN "evictwait" ELSE "open")
  /\ UNCHANGED <<lockVars, sockPath, lpc, srv, ver, pidRead, sawErr, envVars>>

\* wait_for_pid_exit returns at the deadline too; then one SIGTERM and a second wait.
ClientEvictWait(c) ==
  /\ cpc[c] = "evictwait"
  /\ IF pidRead[c] = None
     THEN Goto(c, "cleanup") /\ UNCHANGED sigterm
     ELSE \/ ~Alive(pidRead[c]) /\ Goto(c, "cleanup") /\ UNCHANGED sigterm
          \/ Alive(pidRead[c]) /\ Goto(c, "killwait") /\ Kill(pidRead[c])
  /\ UNCHANGED <<lockVars, sockPath, lpc, srv, ver, relaunching, conn, pidRead,
                 sawErr, envVars>>

ClientKillWait(c) ==
  /\ cpc[c] = "killwait"
  /\ Goto(c, "cleanup")
  /\ UNCHANGED <<lockVars, sockPath, leaderVars, conn, pidRead, sawErr, envVars>>

ClientCleanupSocket(c) ==
  /\ cpc[c] = "cleanup"
  /\ UnlinkSocket
  /\ Goto(c, "spawn")
  /\ UNCHANGED <<lockVars, leaderVars, conn, pidRead, sawErr, envVars>>

\* spawn_leader_subprocess: the client's own binary, or the managed symlink.
ClientSpawn(c) ==
  /\ cpc[c] = "spawn"
  /\ \E l \in Leaders, v \in {ClientVersion[c], Installed} :
       /\ lpc[l] = "idle" /\ \A k \in Leaders : lpc[k] = "idle" => l <= k
       /\ v >= ClientVersion[c]
       /\ lpc' = [lpc EXCEPT ![l] = "open"]
       /\ ver' = [ver EXCEPT ![l] = v]
  /\ Goto(c, "ready")
  /\ UNCHANGED <<lockVars, sockPath, srv, relaunching, sigterm, conn, pidRead,
                 sawErr, envVars>>

\* The spawn itself fails: the error is returned and Drop cleans up.
ClientSpawnFails(c) ==
  /\ cpc[c] = "spawn"
  /\ \/ (\A l \in Leaders : lpc[l] # "idle") /\ UNCHANGED stalls
     \/ stalls < MaxStalls /\ stalls' = stalls + 1
  /\ Goto(c, "droplock")
  /\ UNCHANGED <<lockVars, sockPath, leaderVars, conn, pidRead, sawErr, crashes,
                 shutdowns>>

\* wait_for_listener_ready, then release(): no cleanup, the leader takes over.
ClientReady(c) ==
  /\ cpc[c] = "ready"
  /\ ListenerIsReady
  /\ CloseLock(c)
  /\ Goto(c, "connect")
  /\ UNCHANGED <<sockPath, leaderVars, conn, pidRead, sawErr, envVars>>

\* (mutant) The spawner waits for the socket without a deadline.
ReadyNoDeadline(c) == cpc[c] = "ready" /\ UNCHANGED vars

\* The deadline passes. The last poll is up to 100 ms old, so the socket may
\* have appeared since.
ClientReadyTimeout(c) ==
  /\ cpc[c] = "ready"
  /\ DeadlinePasses
  /\ Goto(c, "droplock")
  /\ UNCHANGED <<lockVars, sockPath, leaderVars, conn, pidRead, sawErr, crashes,
                 shutdowns>>

\* The spawner does not ask again who answers, or how old it is.
ClientConnectSpawned(c) ==
  /\ cpc[c] = "connect"
  /\ \/ \E l \in Leaders :
          Connectable(l) /\ conn' = [conn EXCEPT ![c] = l] /\ Goto(c, "done")
     \/ NoneConnectable /\ Goto(c, "failed") /\ UNCHANGED conn
  /\ UNCHANGED <<lockVars, sockPath, leaderVars, pidRead, sawErr, envVars>>

\* wait_for_socket_connectable.
ClientWaitConnect(c) ==
  /\ cpc[c] = "wait"
  /\ \E l \in Leaders :
       /\ Connectable(l)
       /\ conn' = [conn EXCEPT ![c] = l]
       /\ Goto(c, IF ShouldEvict(c, l) THEN "evict" ELSE "done")
  /\ UNCHANGED <<lockVars, sockPath, leaderVars, pidRead, sawErr, envVars>>

ClientWaitError(c) ==
  /\ cpc[c] = "wait"
  /\ ListenerIsReady /\ NoneConnectable /\ ~sawErr[c]
  /\ sawErr' = [sawErr EXCEPT ![c] = TRUE]
  /\ UNCHANGED <<lockVars, sockPath, leaderVars, cpc, conn, pidRead, envVars>>

ClientWaitTimeout(c) ==
  /\ cpc[c] = "wait"
  /\ Goto(c, IF sawErr[c] THEN "failed" ELSE "open")
  /\ UNCHANGED <<lockVars, sockPath, leaderVars, conn, pidRead, sawErr, envVars>>

\* Drop of a client's LeaderLock that still holds the flock.
ClientDropLock(c) ==
  /\ cpc[c] = "droplock"
  /\ UnlinkLock
  /\ Goto(c, "dropsock")
  /\ UNCHANGED <<sockPath, leaderVars, conn, pidRead, sawErr, envVars>>

ClientDropSock(c) ==
  /\ cpc[c] = "dropsock"
  /\ UnlinkSocket
  /\ Goto(c, "dropclose")
  /\ UNCHANGED <<lockVars, leaderVars, conn, pidRead, sawErr, envVars>>

ClientDropClose(c) ==
  /\ cpc[c] = "dropclose"
  /\ CloseLock(c)
  /\ Goto(c, "failed")
  /\ UNCHANGED <<sockPath, leaderVars, conn, pidRead, sawErr, envVars>>

\* LeaderReconnector: the connection is gone, connect_or_spawn again.
ClientReconnect(c) ==
  /\ cpc[c] = "done" /\ srv[conn[c]] # "listening"
  /\ conn' = [conn EXCEPT ![c] = None]
  /\ Goto(c, "start")
  /\ UNCHANGED <<lockVars, sockPath, leaderVars, pidRead, sawErr, envVars>>

\* The client is killed: no Drop, the kernel closes the file.
ClientCrash(c) ==
  /\ cpc[c] \notin {"done", "failed"}
  /\ crashes < MaxCrashes /\ crashes' = crashes + 1
  /\ CloseLock(c)
  /\ conn' = [conn EXCEPT ![c] = None]
  /\ Goto(c, "failed")
  /\ UNCHANGED <<sockPath, leaderVars, pidRead, sawErr, stalls, shutdowns>>

-----------------------------------------------------------------------------
(* run_leader.                                                             *)

LGoto(l, pc) == lpc' = [lpc EXCEPT ![l] = pc]

LeaderOpenLock(l) ==
  /\ lpc[l] = "open"
  /\ OpenLockFile(l)
  /\ LGoto(l, "try")
  /\ UNCHANGED <<sockPath, srv, ver, relaunching, sigterm, clientVars, envVars>>

LeaderTryLock(l) ==
  /\ lpc[l] = "try"
  /\ \/ Flock(l) /\ LGoto(l, "trunc")
     \/ Contended(l) /\ CloseLock(l) /\ LGoto(l, "contended")
  /\ UNCHANGED <<sockPath, srv, ver, relaunching, sigterm, clientVars, envVars>>

\* Lock held: with a socket another leader runs and this one exits, without a
\* socket the spawner holds it.
LeaderBailCheck(l) ==
  /\ lpc[l] = "contended"
  /\ LGoto(l, IF ListenerIsReady THEN "gone" ELSE "clean")
  /\ UNCHANGED <<lockVars, sockPath, srv, ver, relaunching, sigterm, clientVars,
                 envVars>>

\* write_pid: set_len(0), then the pid.
LeaderTruncate(l) ==
  /\ lpc[l] = "trunc"
  /\ content' = [content EXCEPT ![fd[l]] = None]
  /\ LGoto(l, "write")
  /\ UNCHANGED <<lockPath, fd, holder, sockPath, srv, ver, relaunching, sigterm,
                 clientVars, envVars>>

LeaderWritePid(l) ==
  /\ lpc[l] = "write"
  /\ content' = [content EXCEPT ![fd[l]] = l]
  /\ LGoto(l, IF srv[l] = "off" THEN "clean" ELSE "serving")
  /\ UNCHANGED <<lockPath, fd, holder, sockPath, srv, ver, relaunching, sigterm,
                 clientVars, envVars>>

\* Phase 1 removes the socket path; phase 3 starts the server task.
LeaderCleanSocket(l) ==
  /\ lpc[l] = "clean"
  /\ UnlinkSocket
  /\ srv' = [srv EXCEPT ![l] = "starting"]
  /\ LGoto(l, "waitsock")
  /\ UNCHANGED <<lockVars, ver, relaunching, sigterm, clientVars, envVars>>

\* Phase 4: any socket at the path will do.
LeaderSocketSeen(l) ==
  /\ lpc[l] = "waitsock"
  /\ ListenerIsReady
  /\ LGoto(l, IF Holds(l) THEN "serving" ELSE "popen")
  /\ UNCHANGED <<lockVars, sockPath, srv, ver, relaunching, sigterm, clientVars,
                 envVars>>

LeaderSocketTimeout(l) ==
  /\ lpc[l] = "waitsock"
  /\ DeadlinePasses
  /\ LGoto(l, "cancelled")
  /\ UNCHANGED <<lockVars, sockPath, srv, ver, relaunching, sigterm, clientVars,
                 crashes, shutdowns>>

\* Phase 5, try_acquire_timeout: the file is opened once and polled.
LeaderHandoffOpen(l) ==
  /\ lpc[l] = "popen"
  /\ OpenLockFile(l)
  /\ LGoto(l, "poll")
  /\ UNCHANGED <<sockPath, srv, ver, relaunching, sigterm, clientVars, envVars>>

\* (mutant) The hand-off does not look at the result of try_lock_exclusive.
HandoffIgnoresLock(l) ==
  /\ lpc[l] = "poll"
  /\ LGoto(l, "trunc")
  /\ UNCHANGED <<lockVars, sockPath, srv, ver, relaunching, sigterm, clientVars,
                 envVars>>

LeaderHandoffLock(l) ==
  /\ lpc[l] = "poll"
  /\ Flock(l)
  /\ LGoto(l, "trunc")
  /\ UNCHANGED <<sockPath, srv, ver, relaunching, sigterm, clientVars, envVars>>

\* (mutant) After the timeout the leader serves all the same.
HandoffTimeoutServes(l) ==
  /\ lpc[l] = "poll"
  /\ holder[fd[l]] \in Leaders
  /\ LGoto(l, "serving")
  /\ UNCHANGED <<lockVars, sockPath, srv, ver, relaunching, sigterm, clientVars,
                 envVars>>

\* (mutant) acquire_blocking in the place of try_acquire_timeout.
HandoffBlocks(l) ==
  /\ lpc[l] = "poll"
  /\ holder[fd[l]] \in Leaders
  /\ UNCHANGED vars

\* LEADER_LOCK_TIMEOUT (30 s) outlasts the 10 s a spawner holds the lock while
\* it waits, so only another leader's lock outlasts it.
LeaderHandoffTimeout(l) ==
  /\ lpc[l] = "poll"
  /\ holder[fd[l]] \in Leaders
  /\ CloseLock(l)
  /\ LGoto(l, "cancelled")
  /\ UNCHANGED <<sockPath, srv, ver, relaunching, sigterm, clientVars, envVars>>

\* The end of phase 8: the relaunch drain or the auto-update checker cancels, or
\* the server task has ended.
LeaderCancel(l) ==
  /\ lpc[l] = "serving"
  /\ \/ (l \in relaunching \/ srv[l] = "failed") /\ UNCHANGED shutdowns
     \/ shutdowns < MaxShutdowns /\ shutdowns' = shutdowns + 1
  /\ LGoto(l, "cancelled")
  /\ UNCHANGED <<lockVars, sockPath, srv, ver, relaunching, sigterm, clientVars,
                 crashes, stalls>>

\* run_leader returns and drops its LeaderLock; there is nothing to do for one
\* that never got the lock.
LeaderDropLock(l) ==
  /\ lpc[l] = "cancelled"
  /\ \/ Holds(l) /\ UnlinkLock /\ LGoto(l, "dropsock")
     \/ ~Holds(l) /\ LGoto(l, "exiting") /\ UNCHANGED lockVars
  /\ UNCHANGED <<sockPath, srv, ver, relaunching, sigterm, clientVars, envVars>>

LeaderDropSock(l) ==
  /\ lpc[l] = "dropsock"
  /\ UnlinkSocket
  /\ LGoto(l, "dropclose")
  /\ UNCHANGED <<lockVars, srv, ver, relaunching, sigterm, clientVars, envVars>>

\* The file is closed last. The process lives on: its flock is free, its pid is not.
LeaderDropClose(l) ==
  /\ lpc[l] = "dropclose"
  /\ CloseLock(l)
  /\ LGoto(l, "exiting")
  /\ UNCHANGED <<sockPath, srv, ver, relaunching, sigterm, clientVars, envVars>>

\* run_and_shutdown: the runtime goes down, with the server task wherever it is,
\* and abandons what blocks it after a grace period.
LeaderExit(l) ==
  /\ lpc[l] = "exiting"
  /\ LGoto(l, "gone")
  /\ srv' = [srv EXCEPT ![l] = "off"]
  /\ UNCHANGED <<lockVars, sockPath, ver, relaunching, sigterm, clientVars, envVars>>

\* SIGTERM (process::exit in the signal handler) or a crash: no Drop.
LeaderDie(l) ==
  /\ Alive(l)
  /\ \/ l \in sigterm /\ UNCHANGED crashes
     \/ l \notin sigterm /\ crashes < MaxCrashes /\ crashes' = crashes + 1
  /\ CloseLock(l)
  /\ LGoto(l, "gone")
  /\ srv' = [srv EXCEPT ![l] = "off"]
  /\ UNCHANGED <<sockPath, ver, relaunching, sigterm, clientVars, stalls, shutdowns>>

-----------------------------------------------------------------------------
(* run_leader_server, a task of the leader: remove the path, bind, and on  *)
(* cancellation remove the path again, whoever's socket it names.          *)

ServerRemove(l) ==
  /\ srv[l] = "starting"
  /\ UnlinkSocket
  /\ srv' = [srv EXCEPT ![l] = "removed"]
  /\ UNCHANGED <<lockVars, lpc, ver, relaunching, sigterm, clientVars, envVars>>

ServerBind(l) ==
  /\ srv[l] = "removed"
  /\ IF sockPath = None
     THEN sockPath' = l /\ srv' = [srv EXCEPT ![l] = "listening"]
     ELSE UNCHANGED sockPath /\ srv' = [srv EXCEPT ![l] = "failed"]
  /\ UNCHANGED <<lockVars, lpc, ver, relaunching, sigterm, clientVars, envVars>>

ServerStop(l) ==
  /\ srv[l] = "listening"
  /\ lpc[l] \in {"cancelled", "dropsock", "dropclose", "exiting"}
  /\ UnlinkSocket
  /\ srv' = [srv EXCEPT ![l] = "stopped"]
  /\ UNCHANGED <<lockVars, lpc, ver, relaunching, sigterm, clientVars, envVars>>

-----------------------------------------------------------------------------
InitWith(scenario, l, i, v) ==
  /\ lockPath = IF scenario = "fresh" THEN None ELSE i
  /\ fd = [p \in Procs |-> IF p = l /\ scenario = "running" THEN i ELSE None]
  /\ holder = [j \in Inodes |-> IF j = i /\ scenario = "running" THEN l ELSE None]
  /\ content = [j \in Inodes |-> IF j = i /\ scenario # "fresh" THEN l ELSE None]
  /\ sockPath = IF scenario = "fresh" THEN None ELSE l
  /\ lpc = [k \in Leaders |-> IF k # l \/ scenario = "fresh" THEN "idle"
                              ELSE IF scenario = "running" THEN "serving"
                              ELSE "gone"]
  /\ srv = [k \in Leaders |-> IF k = l /\ scenario = "running" THEN "listening"
                              ELSE "off"]
  /\ ver = [k \in Leaders |-> v]

\* Fresh: no files. Crashed: a leader died and left its files. Running: a leader
\* of some version serves.
Init ==
  /\ \E scenario \in Scenarios, l \in Leaders, i \in Inodes,
        v \in {ClientVersion[c] : c \in Clients} :
       /\ \A k \in Leaders : l <= k
       /\ \A j \in Inodes : i <= j
       /\ InitWith(scenario, l, i, v)
  /\ relaunching = {} /\ sigterm = {}
  /\ cpc = [c \in Clients |-> "start"]
  /\ conn = [c \in Clients |-> None]
  /\ pidRead = [c \in Clients |-> None]
  /\ sawErr = [c \in Clients |-> FALSE]
  /\ crashes = 0 /\ stalls = 0 /\ shutdowns = 0

\* The steps a client takes on its own, in program order.
ClientStep(c) ==
  \/ ClientProbe(c) \/ ClientFastConnect(c) \/ ClientOpenLock(c)
  \/ ClientTryLock(c) \/ ClientRecheck(c) \/ ClientRecheckConnect(c)
  \/ ClientReadPid(c) \/ ClientVacate(c) \/ ClientEvictWait(c)
  \/ ClientKillWait(c) \/ ClientCleanupSocket(c) \/ ClientSpawn(c)
  \/ ClientReady(c) \/ ClientConnectSpawned(c) \/ ClientWaitTimeout(c)
  \/ ClientDropLock(c) \/ ClientDropSock(c) \/ ClientDropClose(c)
  \/ ClientReconnect(c)

ClientNext(c) ==
  \/ ClientStep(c) \/ ClientWaitConnect(c) \/ ClientWaitError(c)
  \/ ClientSpawnFails(c) \/ ClientReadyTimeout(c) \/ ClientCrash(c)

LeaderStep(l) ==
  \/ LeaderOpenLock(l) \/ LeaderTryLock(l) \/ LeaderBailCheck(l)
  \/ LeaderTruncate(l) \/ LeaderWritePid(l) \/ LeaderCleanSocket(l)
  \/ LeaderSocketSeen(l) \/ LeaderHandoffOpen(l) \/ LeaderHandoffTimeout(l)
  \/ LeaderDropLock(l) \/ LeaderDropSock(l) \/ LeaderDropClose(l)
  \/ LeaderExit(l)

ServerStep(l) == ServerRemove(l) \/ ServerBind(l) \/ ServerStop(l)

LeaderNext(l) ==
  \/ LeaderStep(l) \/ ServerStep(l) \/ LeaderHandoffLock(l)
  \/ LeaderCancel(l) \/ LeaderSocketTimeout(l) \/ LeaderDie(l)

Next == (\E c \in Clients : ClientNext(c)) \/ (\E l \in Leaders : LeaderNext(l))

Spec == Init /\ [][Next]_vars

(* The runtime runs every task and the kernel every process.  A poll that   *)
(* is enabled again and again is eventually the one that finds the socket   *)
(* or the free lock: strong fairness, for the polls only.                   *)
Fairness ==
  /\ \A c \in Clients :
       /\ WF_vars(ClientStep(c) \/ ClientSpawnFails(c) \/ ClientReadyTimeout(c))
       /\ SF_vars(ClientWaitConnect(c))
  /\ \A l \in Leaders :
       /\ WF_vars(LeaderStep(l) \/ LeaderSocketTimeout(l)) /\ WF_vars(ServerStep(l))
       /\ SF_vars(LeaderHandoffLock(l))
       /\ WF_vars(l \in relaunching /\ LeaderCancel(l))
       /\ WF_vars(l \in sigterm /\ LeaderDie(l))

FairSpec == Spec /\ Fairness
-----------------------------------------------------------------------------
(* Correctness.                                                            *)

\* Every variable keeps its type: pids, inodes and control states stay within
\* what LeaderLock, run_leader and connect_or_spawn can put in them.
TypeOK ==
  /\ lockPath \in Inodes \cup {None}
  /\ fd \in [Procs -> Inodes \cup {None}]
  /\ holder \in [Inodes -> Procs \cup {None}]
  /\ content \in [Inodes -> Leaders \cup {None}]
  /\ sockPath \in Leaders \cup {None}
  /\ lpc \in [Leaders -> LeaderPcs]
  /\ srv \in [Leaders -> ServerPcs]
  /\ ver \in [Leaders -> Versions]
  /\ relaunching \subseteq Leaders /\ sigterm \subseteq Leaders
  /\ cpc \in [Clients -> ClientPcs]
  /\ conn \in [Clients -> Leaders \cup {None}]
  /\ pidRead \in [Clients -> Leaders \cup {None}]
  /\ sawErr \in [Clients -> BOOLEAN]
  /\ crashes \in Nat /\ stalls \in Nat /\ shutdowns \in Nat

\* write_pid is called with the flock held and Drop unlinks the path before it
\* closes the file: a live pid in a lock file is that of the owner of this very
\* file's flock, or of a leader that has dropped its lock and is on its way out.
\* Nobody who opens the lock path finds that second kind of file any more.
LivePidNamesHolder ==
  \A i \in Inodes :
    (content[i] # None /\ Alive(content[i])) =>
      \/ holder[i] = content[i]
      \/ lpc[content[i]] = "exiting" /\ i # lockPath

\* The branch of connect_or_spawn that adopts or evicts a sibling's leader after
\* try_acquire succeeded requires a live pid in the lock file.  It is therefore
\* taken only by a client whose flock is on a file that is no longer at the lock
\* path: it is serialized against nobody who opens the path.
EvictionMeansOrphanedLock ==
  \A c \in Clients :
    (\/ cpc[c] \in {"recheckconn", "evictwait", "killwait"}
     \/ cpc[c] \in {"evict", "vacate"} /\ fd[c] # None) => fd[c] # lockPath

\* Two leaders past phase 5 (flock owned, pid written, agent running) never both
\* own the file at the lock path: split brain takes a Drop that unlinked it.
SingleLinkedLeader ==
  \A k, l \in Leaders :
    (lpc[k] = "serving" /\ lpc[l] = "serving" /\ fd[k] = lockPath /\ fd[l] = lockPath)
      => k = l

\* The module doc of leader/mod.rs: a single leader per machine.
SingleLeader ==
  \A k, l \in Leaders : (lpc[k] = "serving" /\ lpc[l] = "serving") => k = l

\* connect_or_spawn connects to the existing leader, spawns a new one or returns
\* an error; the loop that waits for the lock or for the socket ends.
ReturnsEventually ==
  \A c \in Clients : (cpc[c] = "start") ~> (cpc[c] \in {"done", "failed"})

\* The only way a call can go on forever: from some moment on a leader owns the
\* flock and serves while the socket path does not name it, so "wait for the
\* socket" never ends.
HangsOnlyBehindUnreachableLeader ==
  \A c \in Clients :
    \/ []<>(cpc[c] \in {"done", "failed"})
    \/ <>[](\E l \in Leaders : lpc[l] = "serving" /\ Holds(l) /\ sockPath # l)

\* run_leader never hangs between its phases: it ends up serving or exits, also
\* when its spawner has given up, its socket was removed or a duplicate started.
StartupEnds ==
  \A l \in Leaders : (lpc[l] = "open") ~> (lpc[l] \in {"serving", "gone"})
=============================================================================

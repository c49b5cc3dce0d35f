---------------------------- MODULE ClientService ----------------------------
(***************************************************************************)
(* The client as a service: the configd actions that the GUI, the API and  *)
(* the boot hooks run side by side, the rc.d script they call, the         *)
(* daemon(8) supervisor it starts with -r -R 5, and under the supervisor   *)
(* the client process with the tun backend of FreeBsdTun.                  *)
(*                                                                         *)
(* Jobs are configd threads.  rc.subr and daemon(8) are external, modelled *)
(* from how rc.d/trusttunnel_client uses them: a stop reads the supervisor *)
(* pid, signals it and waits for it; a start tests the pidfile and then    *)
(* runs daemon(8), whose lock on the pidfile is what finally decides.      *)
(***************************************************************************)
EXTENDS FreeBsdTun

CONSTANTS Jobs,        \* configd threads at work at once
          Daemons,     \* supervisor processes alive at once
          Verbs,       \* the actions jobs are asked for
          Nobody,      \* an unlocked pidfile, no victim, no rendered file
          MaxCrashes   \* bound on kills of the client process in a run

\* A supervisor and a rendered file are told from none.
ASSUME ServiceAssumption ==
  /\ Nobody \notin Daemons \cup Settings
  /\ Verbs \subseteq {"apply", "reconfigure", "restart", "stop", "start"}
  /\ MaxCrashes \in Nat

VARIABLES config,   \* what config.xml asks for
          file,     \* what trusttunnel_client.toml says, or Nobody
          daemon,   \* state of each supervisor
          pidfile,  \* the supervisor that holds and wrote the pidfile
          verb, job, victim,   \* per job: its action, its step, the pid it read
          alone,    \* history: no other job was at work since this one began
          calm,     \* history: what the last job, alone, achieved; until the next
          crashes

tun == vars  \* the client process and the kernel it uses
jobs == <<verb, job, victim, alone, calm>>
svc == <<config, file, daemon, pidfile, crashes>>
serviceVars == <<tun, jobs, svc>>

JobSteps == {"idle", "preflight", "render", "readpid", "kill", "wait",
             "isrunning", "daemon"}

\* The types of what the service adds to the client's state; a stop signals, and
\* waits for, a pid that it did read.
OwnTypes == /\ config \in Settings
            /\ file \in Settings \cup {Nobody}
            /\ daemon \in [Daemons -> {"none", "fork", "run", "sleep", "term"}]
            /\ pidfile \in Daemons \cup {Nobody}
            /\ verb \in [Jobs -> Verbs \cup {"none"}]
            /\ job \in [Jobs -> JobSteps]
            /\ victim \in [Jobs -> Daemons \cup {Nobody}]
            /\ \A j \in Jobs : job[j] \in {"kill", "wait"} => victim[j] \in Daemons
            /\ alone \in [Jobs -> BOOLEAN]
            /\ calm \in {"none", "stopped", "applied"}
            /\ crashes \in 0..MaxCrashes

\* The state's types.
ServiceTypeOK == TypeOK /\ OwnTypes

ServiceInit == /\ Init
               /\ config \in Settings
               /\ file = Nobody
               /\ daemon = [d \in Daemons |-> "none"]
               /\ pidfile = Nobody
               /\ verb = [j \in Jobs |-> "none"]
               /\ job = [j \in Jobs |-> "idle"]
               /\ victim = [j \in Jobs |-> Nobody]
               /\ alone = [j \in Jobs |-> FALSE]
               /\ calm = "none"
               /\ crashes = 0

-----------------------------------------------------------------------------
(* Jobs.                                                                   *)

\* The operator saves the client form; it starts nothing by itself.
Configure == /\ config' \in Settings \ {config}
             /\ UNCHANGED <<tun, jobs, file, daemon, pidfile, crashes>>

FirstStep == [apply       |-> "preflight",   \* Apply button: reconfigureAction
              reconfigure |-> "render",      \* service API, start hook
              restart     |-> "readpid",
              stop        |-> "readpid",     \* and the stop hook
              start       |-> "isrunning"]

Submit(j, v) ==
  /\ job[j] = "idle"
  /\ verb' = [verb EXCEPT ![j] = v]
  /\ job' = [job EXCEPT ![j] = FirstStep[v]]
  /\ alone' = [k \in Jobs |-> k = j /\ \A i \in Jobs : job[i] = "idle"]
  /\ calm' = "none"
  /\ UNCHANGED <<tun, svc, victim>>

Goto(j, step) == /\ job' = [job EXCEPT ![j] = step]
                 /\ UNCHANGED <<verb, alone, calm>>

Return(j, answer) ==
  /\ job' = [job EXCEPT ![j] = "idle"]
  /\ verb' = [verb EXCEPT ![j] = "none"]
  /\ alone' = [alone EXCEPT ![j] = FALSE]
  /\ calm' = IF ~alone[j] \/ answer # "ok" THEN "none"
             ELSE IF verb[j] = "stop" THEN "stopped"
             ELSE IF verb[j] \in {"apply", "reconfigure"} THEN "applied"
             ELSE "none"

\* validateRuntimeInterfaces looks at the interfaces there are now; bound_if is
\* taken to be right.
Preflight(j) ==
  /\ job[j] = "preflight"
  /\ LET refused == \/ config.attach /\ config.name = NoTun
                    \/ /\ config.name \in Tuns
                       /\ ~(config.attach <=> iface[config.name] # "absent")
                    \/ config.attach /\ config.name \in Malformed
     IN IF refused THEN Return(j, "failed") ELSE Goto(j, "render")
  /\ UNCHANGED <<tun, svc, victim>>

\* render_client_config.py reads config.xml afresh and may refuse it.
Renderable(s) == /\ s.name \notin Malformed
                 /\ s.attach => s.name # NoTun

\* Mutant of Render: the restart is skipped when the file has not changed.
RenderSkips(j) ==
  /\ job[j] = "render"
  /\ IF ~Renderable(config) THEN UNCHANGED file /\ Return(j, "failed")
     ELSE file' = config /\ (IF file = config THEN Return(j, "ok") ELSE Goto(j, "readpid"))
  /\ UNCHANGED <<tun, config, daemon, pidfile, crashes, victim>>

Render(j) ==
  /\ job[j] = "render"
  /\ IF Renderable(config)
     THEN file' = config /\ Goto(j, "readpid")
     ELSE UNCHANGED file /\ Return(j, "failed")
  /\ UNCHANGED <<tun, config, daemon, pidfile, crashes, victim>>

\* Mutant of ReadPid: the result of check_pidfile is not tested.
ReadPidUnchecked(j) == /\ job[j] = "readpid"
                       /\ victim' = [victim EXCEPT ![j] = pidfile]
                       /\ Goto(j, "kill")
                       /\ UNCHANGED <<tun, svc>>

\* rc.subr stop: no pid, nothing to do; a restart goes on to its start.
ReadPid(j) ==
  /\ job[j] = "readpid"
  /\ victim' = [victim EXCEPT ![j] = pidfile]
  /\ IF pidfile # Nobody THEN Goto(j, "kill")
     ELSE IF verb[j] = "stop" THEN Return(j, "failed")
     ELSE Goto(j, "isrunning")
  /\ UNCHANGED <<tun, svc>>

\* kill -TERM of the pid that was read; it may be gone by now.
SendTerm(j) ==
  /\ job[j] = "kill"
  /\ IF daemon[victim[j]] # "none"
     THEN daemon' = [daemon EXCEPT ![victim[j]] = "term"] /\ Goto(j, "wait")
     ELSE /\ UNCHANGED daemon
          /\ IF verb[j] = "stop" THEN Return(j, "failed") ELSE Goto(j, "isrunning")
  /\ UNCHANGED <<tun, config, file, pidfile, crashes, victim>>

\* Mutant of AwaitExit: the stop returns once the signal is sent.
AwaitNothing(j) ==
  /\ job[j] = "wait"
  /\ IF verb[j] = "stop" THEN Return(j, "ok") ELSE Goto(j, "isrunning")
  /\ UNCHANGED <<tun, svc, victim>>

\* Mutant of AwaitExit: it waits for the pidfile to go, not for the process.
AwaitPidfile(j) ==
  /\ job[j] = "wait"
  /\ pidfile = Nobody
  /\ IF verb[j] = "stop" THEN Return(j, "ok") ELSE Goto(j, "isrunning")
  /\ UNCHANGED <<tun, svc, victim>>

\* wait_for_pids.
AwaitExit(j) ==
  /\ job[j] = "wait"
  /\ daemon[victim[j]] = "none"
  /\ IF verb[j] = "stop" THEN Return(j, "ok") ELSE Goto(j, "isrunning")
  /\ UNCHANGED <<tun, svc, victim>>

\* rc.subr start: "already running?", then required_files.
IsRunning(j) ==
  /\ job[j] = "isrunning"
  /\ IF pidfile # Nobody \/ file = Nobody THEN Return(j, "failed")
     ELSE Goto(j, "daemon")
  /\ UNCHANGED <<tun, svc, victim>>

\* Mutant of PidfileFree: without -P nothing is locked.
NoPidfile == TRUE

\* daemon -P locks the pidfile or gives up.
PidfileFree == pidfile = Nobody

\* The system does not give a new process a pid that a stop is holding.
FreshPids == {d \in Daemons : /\ daemon[d] = "none"
                              /\ \A j \in Jobs : job[j] \in {"kill", "wait"} =>
                                                  victim[j] # d}

StartDaemon(j) ==
  /\ job[j] = "daemon"
  /\ IF PidfileFree
     THEN /\ \E d \in FreshPids :
               /\ daemon' = [daemon EXCEPT ![d] = "fork"]
               /\ pidfile' = d
          /\ Return(j, "ok")
     ELSE UNCHANGED <<daemon, pidfile>> /\ Return(j, "failed")
  /\ UNCHANGED <<tun, config, file, crashes, victim>>

JobStep(j) == \/ Preflight(j) \/ Render(j) \/ ReadPid(j) \/ SendTerm(j)
              \/ AwaitExit(j) \/ IsRunning(j) \/ StartDaemon(j)

-----------------------------------------------------------------------------
(* The supervisor.                                                         *)

\* The child reads the rendered file when it starts.
Fork(d) == /\ daemon[d] = "fork"
           /\ file # Nobody
           /\ Start(file)
           /\ daemon' = [daemon EXCEPT ![d] = "run"]
           /\ UNCHANGED <<jobs, config, file, pidfile, crashes>>

\* -r: the child is gone, whatever its status; sleep, then fork again.
Reap(d) == /\ daemon[d] = "run"
           /\ pc = "down"
           /\ daemon' = [daemon EXCEPT ![d] = "sleep"]
           /\ UNCHANGED <<tun, jobs, config, file, pidfile, crashes>>

\* Mutant of Wake: without -r the supervisor does not fork a second time.
WakeForNothing(d) == /\ daemon[d] = "sleep"
                     /\ daemon' = [daemon EXCEPT ![d] = "run"]
                     /\ UNCHANGED <<tun, jobs, config, file, pidfile, crashes>>

Wake(d) == /\ daemon[d] = "sleep"
           /\ daemon' = [daemon EXCEPT ![d] = "fork"]
           /\ UNCHANGED <<tun, jobs, config, file, pidfile, crashes>>

\* Mutant of ChildGone: the supervisor leaves without awaiting its child.
ChildAbandoned == TRUE

\* After SIGTERM: the signal is passed on, the child awaited, the pidfile removed.
ChildGone == pc = "down"

Leave(d) == /\ daemon[d] = "term"
            /\ ChildGone
            /\ daemon' = [daemon EXCEPT ![d] = "none"]
            /\ pidfile' = Nobody
            /\ UNCHANGED <<tun, jobs, config, file, crashes>>

DaemonStep(d) == Fork(d) \/ Reap(d) \/ Wake(d) \/ Leave(d)

-----------------------------------------------------------------------------
(* The client process.                                                     *)

\* The partial failures inside tun_open are FreeBsdTun's subject: the supervisor
\* sees the same exit whichever call failed.
ChildRuns == /\ \/ CheckName \/ OpenDevice \/ OpenFails \/ SetHead
                \/ GetName \/ GetIndex \/ SetupIf \/ SetupFails
                \/ AddRoute \/ AddFails \/ RoutesDone \/ Teardown
             /\ UNCHANGED <<jobs, svc>>

\* It stops on the supervisor's signal, or on a fatal error of its own.
ChildSignalled == /\ \E d \in Daemons : daemon[d] = "term"
                  /\ Stop
                  /\ UNCHANGED <<jobs, svc>>

ChildQuits == /\ Stop
              /\ UNCHANGED <<jobs, svc>>

\* SIGKILL, or any death without the orderly teardown.
ChildCrashes == /\ crashes < MaxCrashes
                /\ Crash
                /\ crashes' = crashes + 1
                /\ UNCHANGED <<jobs, config, file, daemon, pidfile>>

ServiceNext == \/ Configure
               \/ \E j \in Jobs, v \in Verbs : Submit(j, v)
               \/ \E j \in Jobs : JobStep(j)
               \/ \E d \in Daemons : DaemonStep(d)
               \/ ChildRuns \/ ChildSignalled \/ ChildQuits \/ ChildCrashes

\* Every process that can take a step takes one; nobody has to submit a job,
\* edit the configuration or crash.
ServiceFairness == /\ \A j \in Jobs : WF_serviceVars(JobStep(j))
                   /\ \A d \in Daemons : WF_serviceVars(DaemonStep(d))
                   /\ WF_serviceVars(ChildRuns)
                   /\ WF_serviceVars(ChildSignalled)

ServiceSpec == ServiceInit /\ [][ServiceNext]_serviceVars /\ ServiceFairness

-----------------------------------------------------------------------------
\* Concurrent starts and restarts never leave two supervisors, and the one there
\* is can always be found by the next stop.
OneSupervisor == \A d \in Daemons : daemon[d] # "none" => pidfile = d

\* No client process outlives the supervisor that would stop it.
NoOrphan == pc # "down" => \E d \in Daemons : daemon[d] \in {"run", "term"}

\* A stop that nothing overlapped and that reported success leaves no process,
\* no interface and no route of the client: "supervised lifecycle left a TUN
\* interface behind" is the failure message of the supervision smoke test.
StoppedIsClean ==
  calm = "stopped" =>
    /\ \A d \in Daemons : daemon[d] = "none"
    /\ pc = "down"
    /\ \A n \in Tuns : iface[n] # "client"
    /\ \A r \in Routes : route[r].by # "client"

\* After an Apply or reconfigure that nothing overlapped and that said OK, the
\* process that runs, and any restart of it, runs what was rendered.
AppliedIsRun ==
  calm = "applied" =>
    /\ \E d \in Daemons : daemon[d] # "none"
    /\ pc # "down" => settings = file

\* A supervisor whose client died, for whatever reason, has the tunnel up again
\* unless it is told to stop.
Supervised == \E d \in Daemons : daemon[d] \in {"fork", "run", "sleep"}
Recovers == Supervised /\ pc = "down" ~> pc = "up" \/ ~Supervised

\* No interleaving of jobs leaves an action hanging: every stop, start, restart
\* and reconfigure returns to its caller, unless the client it stops is stuck in the
\* kernel.
JobsReturn == \A j \in Jobs : job[j] # "idle" ~> job[j] = "idle" \/ pc = "hung"
=============================================================================

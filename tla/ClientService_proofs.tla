------------------------ MODULE ClientService_proofs ------------------------
(***************************************************************************)
(* Proofs about the client service, for any number of jobs, supervisors    *)
(* and kills and any settings and failures: types, one supervisor, no      *)
(* orphan, what an undisturbed Apply and stop have achieved.               *)
(*                                                                         *)
(* Every step of the service is a step of the tun backend or leaves it     *)
(* alone (ChildKeeps, TunKept), so that the backend's invariant, CleanInv, *)
(* holds here too, and with ServiceRunsBackend the backend's theorems.     *)
(***************************************************************************)
EXTENDS ClientService, FreeBsdTun_proofs

\* A stop never comes to start a supervisor.
Starting == \A j \in Jobs : job[j] \in {"isrunning", "daemon"} => verb[j] # "stop"

\* While a job is alone no other is at work, and the supervisor whose pid a
\* stop has read is the only one there can be.
Solitude ==
  \A j \in Jobs : alone[j] =>
    /\ job[j] # "idle" /\ \A k \in Jobs \ {j} : job[k] = "idle"
    /\ job[j] \in {"kill", "wait"} =>
         \A d \in Daemons : daemon[d] # "none" => d = victim[j]

\* What the last job achieved, until the next one begins.
Calm ==
  /\ calm # "none" => \A j \in Jobs : job[j] = "idle"
  /\ calm = "stopped" => \A d \in Daemons : daemon[d] = "none"
  /\ calm = "applied" => /\ \E d \in Daemons : daemon[d] # "none"
                         /\ \A d \in Daemons : daemon[d] # "term"
                         /\ pc # "down" => settings = file

Supervision == OneSupervisor /\ NoOrphan

ServiceInv == /\ CleanInv /\ OwnTypes /\ Supervision
              /\ Starting /\ Solitude /\ Calm

-----------------------------------------------------------------------------
(* The backend's part of a step. *)

ChildStep == \/ CheckName \/ OpenDevice \/ OpenFails \/ SetHead \/ GetName \/ GetIndex
             \/ SetupIf \/ SetupFails \/ AddRoute \/ AddFails \/ RoutesDone
             \/ DeleteRoute \/ RoutesGone \/ CloseFd \/ Destroy
             \/ DestroyHangs \/ Exit

\* A child's step is one of a process that is there, and leaves its settings.
LEMMA Running ==
  ASSUME ChildStep \/ Stop \/ Crash
  PROVE  pc # "down" /\ settings' = settings
<1>1. CASE CheckName \/ OpenDevice \/ OpenFails \/ SetHead \/ GetName \/ GetIndex
           \/ SetupIf \/ SetupFails
  BY <1>1 DEF CheckName, OpenDevice, OpenFails, SetHead, GetName, GetIndex, SetupIf,
              SetupFails
<1>2. CASE AddRoute \/ AddFails \/ RoutesDone \/ DeleteRoute \/ RoutesGone \/ CloseFd
           \/ Destroy \/ DestroyHangs \/ Stop
  BY <1>2 DEF AddRoute, AddFails, RoutesDone, DeleteRoute, RoutesGone, CloseFd, Destroy,
              DestroyHangs, Stop
<1>3. CASE Exit \/ Crash
  BY <1>3 DEF Exit, Crash, Gone
<1> QED  BY <1>1, <1>2, <1>3 DEF ChildStep

\* The service's own variables during a step of the child.
ServiceSame == UNCHANGED <<config, file, daemon, pidfile, jobs>>

LEMMA ChildKeeps ==
  ASSUME ServiceInv, ChildStep \/ Stop \/ Crash, ServiceSame, crashes' \in 0..MaxCrashes
  PROVE  ServiceInv'
<1>1. CleanInv'
  BY CleanNext DEF ServiceInv, ChildStep, ClientStep, Next
<1>2. pc # "down" /\ settings' = settings
  BY Running
<1>3. OwnTypes' /\ Starting' /\ Solitude'
  BY DEF ServiceInv, ServiceSame, jobs, OwnTypes, Starting, Solitude
<1>4. Supervision'
  BY <1>2 DEF ServiceInv, ServiceSame, Supervision, OneSupervisor, NoOrphan
<1>5. Calm'
  BY <1>2 DEF ServiceInv, ServiceSame, jobs, Calm
<1> QED  BY <1>1, <1>3, <1>4, <1>5 DEF ServiceInv

LEMMA TunKept ==
  ASSUME ServiceInv, UNCHANGED tun
  PROVE  CleanInv' /\ pc' = pc /\ settings' = settings
<1>1. UNCHANGED vars
  BY DEF tun, vars, kernel, process, members
<1> QED  BY <1>1, CleanNext DEF ServiceInv, vars, process

-----------------------------------------------------------------------------
(* The jobs. *)

\* A job's step that leaves the supervisors alone.
LEMMA GotoKeeps ==
  ASSUME ServiceInv, NEW j \in Jobs, NEW s \in JobSteps \ {"idle"}, job[j] # "idle",
         Goto(j, s), UNCHANGED tun, UNCHANGED <<config, pidfile, crashes>>,
         file' \in Settings \cup {Nobody},
         victim' \in [Jobs -> Daemons \cup {Nobody}],
         \A k \in Jobs \ {j} : victim'[k] = victim[k],
         UNCHANGED daemon,
         s \in {"isrunning", "daemon"} => verb[j] # "stop",
         s \in {"kill", "wait"} =>
           /\ victim'[j] \in Daemons
           /\ alone[j] => \A d \in Daemons : daemon[d] # "none" => d = victim'[j]
  PROVE  ServiceInv'
<1>1. CleanInv' /\ pc' = pc /\ settings' = settings
  BY TunKept
<1>2. /\ job'[j] = s /\ \A k \in Jobs \ {j} : job'[k] = job[k]
      /\ job' \in [Jobs -> JobSteps]
      /\ UNCHANGED <<verb, alone, calm>>
  BY DEF Goto, ServiceInv, OwnTypes
<1>3. calm = "none"
  BY DEF ServiceInv, Calm, OwnTypes
<1>4. OwnTypes' /\ Starting'
  BY <1>2 DEF ServiceInv, OwnTypes, Starting
<1>5. Supervision'
  BY <1>1 DEF ServiceInv, Supervision, OneSupervisor, NoOrphan
<1>6. Solitude'
  BY <1>2 DEF ServiceInv, Solitude
<1>7. Calm'
  BY <1>2, <1>3 DEF Calm
<1> QED  BY <1>1, <1>4, <1>5, <1>6, <1>7 DEF ServiceInv

\* A job returns; what it claims to have achieved has to be so.
LEMMA ReturnKeeps ==
  ASSUME ServiceInv, NEW j \in Jobs, NEW answer, job[j] # "idle",
         Return(j, answer), UNCHANGED tun,
         UNCHANGED <<config, file, crashes>>,
         victim' \in [Jobs -> Daemons \cup {Nobody}],
         \A k \in Jobs \ {j} : victim'[k] = victim[k],
         OwnTypes', Supervision',
         \A k \in Jobs \ {j}, d \in Daemons : job[k] = "idle" \/ ~alone[k]
              \/ daemon'[d] = daemon[d],
         alone[j] /\ answer = "ok" /\ verb[j] = "stop" =>
           \A d \in Daemons : daemon'[d] = "none",
         alone[j] /\ answer = "ok" /\ verb[j] \in {"apply", "reconfigure"} =>
           /\ \E d \in Daemons : daemon'[d] # "none"
           /\ \A d \in Daemons : daemon'[d] # "term"
           /\ pc = "down"
  PROVE  ServiceInv'
<1>1. CleanInv' /\ pc' = pc /\ settings' = settings
  BY TunKept
<1>2. /\ job'[j] = "idle" /\ \A k \in Jobs \ {j} : job'[k] = job[k]
      /\ ~alone'[j] /\ \A k \in Jobs \ {j} : alone'[k] = alone[k]
      /\ \A k \in Jobs \ {j} : verb'[k] = verb[k]
  BY DEF Return, ServiceInv, OwnTypes
<1>3. Starting'
  BY <1>2 DEF ServiceInv, Starting
<1>4. Solitude'
  BY <1>2 DEF ServiceInv, Solitude
<1>5. calm' # "none" => \A k \in Jobs : job'[k] = "idle"
  BY <1>2 DEF Return, ServiceInv, Solitude
<1>6. Calm'
  BY <1>1, <1>5 DEF Return, Calm
<1> QED  BY <1>1, <1>3, <1>4, <1>6 DEF ServiceInv

LEMMA JobKeeps ==
  ASSUME ServiceInv, NEW j \in Jobs, JobStep(j)
  PROVE  ServiceInv'
<1> USE ServiceAssumption DEF svc
<1>1. OwnTypes /\ pidfile \in Daemons \cup {Nobody} /\ Supervision
  BY DEF ServiceInv, OwnTypes
<1>2. job[j] # "idle"
  BY DEF JobStep, Preflight, Render, ReadPid,
         SendTerm, AwaitExit, IsRunning, StartDaemon
\* What a refusal leaves.
<1>3. ASSUME Return(j, "failed"), UNCHANGED <<tun, svc>>,
             victim' \in [Jobs -> Daemons \cup {Nobody}],
             \A k \in Jobs \ {j} : victim'[k] = victim[k]
      PROVE  ServiceInv'
  <2>1. OwnTypes'
    BY <1>1, <1>3 DEF OwnTypes, Return, JobSteps
  <2>2. Supervision'
    BY <1>1, <1>3, TunKept DEF Supervision, OneSupervisor, NoOrphan
  <2> QED  BY <1>2, <1>3, <2>1, <2>2, ReturnKeeps
<1>4. CASE Preflight(j)
  <2>1. job[j] = "preflight" /\ UNCHANGED <<tun, svc, victim>>
        /\ (Return(j, "failed") \/ Goto(j, "render"))
    BY <1>4 DEF Preflight
  <2>2. "render" \in JobSteps \ {"idle"}
    BY DEF JobSteps
  <2> QED  BY <1>1, <1>2, <1>3, <2>1, <2>2, GotoKeeps DEF OwnTypes
<1>5. CASE Render(j)
  <2>1. "readpid" \in JobSteps \ {"idle"}
    BY DEF JobSteps
  <2>2. CASE Renderable(config)
    <3>1. Goto(j, "readpid") /\ file' = config
          /\ UNCHANGED <<tun, config, daemon, pidfile, crashes, victim>>
      BY <1>5, <2>2 DEF Render
    <3> QED  BY <1>1, <1>2, <2>1, <3>1, GotoKeeps DEF OwnTypes
  <2>3. CASE ~Renderable(config)
    BY <1>1, <1>3, <1>5, <2>3 DEF Render, OwnTypes
  <2> QED  BY <2>2, <2>3
<1>6. CASE ReadPid(j)
  <2>1. /\ victim' = [victim EXCEPT ![j] = pidfile]
        /\ UNCHANGED <<tun, svc>>
    BY <1>6 DEF ReadPid
  <2>2. /\ victim' \in [Jobs -> Daemons \cup {Nobody}] /\ victim'[j] = pidfile
        /\ \A k \in Jobs \ {j} : victim'[k] = victim[k]
    BY <1>1, <2>1 DEF OwnTypes
  <2>3. "kill" \in JobSteps \ {"idle"} /\ "isrunning" \in JobSteps \ {"idle"}
    BY DEF JobSteps
  <2>4. CASE pidfile # Nobody
    <3>1. Goto(j, "kill")
      BY <1>6, <2>4 DEF ReadPid
    <3>2. \A d \in Daemons : daemon[d] # "none" => d = victim'[j]
      BY <1>1, <2>2 DEF Supervision, OneSupervisor
    <3> QED  BY <1>1, <1>2, <2>1, <2>2, <2>3, <2>4, <3>1, <3>2, GotoKeeps DEF OwnTypes
  <2>5. CASE pidfile = Nobody
    <3>1. \/ Return(j, "failed")
          \/ Goto(j, "isrunning") /\ verb[j] # "stop"
      BY <1>6, <2>5 DEF ReadPid
    <3> QED  BY <1>1, <1>2, <1>3, <2>1, <2>2, <2>3, <3>1, GotoKeeps DEF OwnTypes
  <2> QED  BY <2>4, <2>5
<1>7. CASE SendTerm(j)
  <2>1. victim[j] \in Daemons /\ job[j] = "kill"
        /\ UNCHANGED <<tun, config, file, pidfile, crashes, victim>>
    BY <1>7 DEF SendTerm, ServiceInv, OwnTypes
  <2>2. CASE daemon[victim[j]] # "none"
    <3>1. Goto(j, "wait") /\ daemon' = [daemon EXCEPT ![victim[j]] = "term"]
      BY <1>7, <2>2 DEF SendTerm
    <3>2. \A d \in Daemons : /\ d = victim[j] => daemon'[d] = "term"
                             /\ d # victim[j] => daemon'[d] = daemon[d]
      BY <1>1, <2>1, <3>1 DEF OwnTypes
    <3>3. CleanInv' /\ pc' = pc
      BY <2>1, TunKept
    <3>4. /\ job'[j] = "wait" /\ \A k \in Jobs \ {j} : job'[k] = job[k]
          /\ UNCHANGED <<verb, alone, calm>>
      BY <1>1, <3>1 DEF Goto, OwnTypes
    <3>5. calm = "none"
      BY <1>1, <1>2 DEF ServiceInv, Calm, OwnTypes
    <3>6. OwnTypes'
      BY <1>1, <2>1, <3>1, <3>4 DEF OwnTypes, Goto, JobSteps
    <3>7. Starting'
      BY <2>1, <3>4 DEF ServiceInv, Starting
    <3>8. Solitude'
      BY <2>1, <2>2, <3>2, <3>4 DEF ServiceInv, Solitude
    <3>9. Supervision'
      BY <1>1, <2>1, <2>2, <3>2, <3>3 DEF Supervision, OneSupervisor, NoOrphan
    <3>10. Calm'
      BY <3>4, <3>5 DEF Calm
    <3> QED  BY <3>3, <3>6, <3>7, <3>8, <3>9, <3>10 DEF ServiceInv
  <2>3. CASE daemon[victim[j]] = "none"
    <3>1. \/ Return(j, "failed")
          \/ Goto(j, "isrunning") /\ verb[j] # "stop"
      BY <1>7, <2>3 DEF SendTerm
    <3>2. UNCHANGED daemon
      BY <1>7, <2>3 DEF SendTerm
    <3>3. "isrunning" \in JobSteps \ {"idle"}
      BY DEF JobSteps
    <3> QED  BY <1>1, <1>2, <1>3, <2>1, <3>1, <3>2, <3>3, GotoKeeps DEF OwnTypes
  <2> QED  BY <2>2, <2>3
<1>8. CASE AwaitExit(j)
  <2>1. /\ job[j] = "wait" /\ daemon[victim[j]] = "none"
        /\ UNCHANGED <<tun, svc, victim>>
    BY <1>8 DEF AwaitExit
  <2>2. CASE verb[j] = "stop"
    <3>1. Return(j, "ok")
      BY <1>8, <2>2 DEF AwaitExit
    <3>2. OwnTypes'
      BY <1>1, <2>1, <3>1 DEF OwnTypes, Return, JobSteps
    <3>3. Supervision'
      BY <1>1, <2>1, TunKept DEF Supervision, OneSupervisor, NoOrphan
    <3>4. alone[j] => \A d \in Daemons : daemon[d] = "none"
      BY <2>1 DEF ServiceInv, Solitude
    <3> QED  BY <1>1, <1>2, <2>1, <2>2, <3>1, <3>2, <3>3, <3>4, ReturnKeeps DEF OwnTypes
  <2>3. CASE verb[j] # "stop"
    <3>1. Goto(j, "isrunning") /\ "isrunning" \in JobSteps \ {"idle"}
      BY <1>8, <2>3 DEF AwaitExit, JobSteps
    <3> QED  BY <1>1, <1>2, <2>1, <2>3, <3>1, GotoKeeps DEF OwnTypes
  <2> QED  BY <2>2, <2>3
<1>9. CASE IsRunning(j)
  <2>1. /\ UNCHANGED <<tun, svc, victim>>
        /\ Return(j, "failed") \/ Goto(j, "daemon")
        /\ verb[j] # "stop"
    BY <1>9 DEF IsRunning, ServiceInv, Starting
  <2>2. "daemon" \in JobSteps \ {"idle"}
    BY DEF JobSteps
  <2> QED  BY <1>1, <1>2, <1>3, <2>1, <2>2, GotoKeeps DEF OwnTypes
<1>10. CASE StartDaemon(j)
  <2>1. job[j] = "daemon" /\ UNCHANGED <<tun, config, file, crashes, victim>>
    BY <1>10 DEF StartDaemon
  <2>2. CASE pidfile = Nobody
    <3>1. PICK d \in {e \in Daemons : daemon[e] = "none"} :
             daemon' = [daemon EXCEPT ![d] = "fork"] /\ pidfile' = d
      BY <1>10, <2>2 DEF StartDaemon, PidfileFree, FreshPids
    <3>2. Return(j, "ok")
      BY <1>10, <2>2 DEF StartDaemon, PidfileFree
    <3>3. \A e \in Daemons : daemon[e] = "none"
      BY <1>1, <2>2 DEF Supervision, OneSupervisor
    <3>4. pc = "down"
      BY <1>1, <3>3 DEF Supervision, NoOrphan
    <3>5. \A e \in Daemons : daemon'[e] = IF e = d THEN "fork" ELSE "none"
      BY <1>1, <3>1, <3>3 DEF OwnTypes
    <3>6. OwnTypes'
      BY <1>1, <2>1, <3>1, <3>2 DEF OwnTypes, Return, JobSteps
    <3>7. Supervision'
      BY <2>1, <3>1, <3>4, <3>5, TunKept
         DEF Supervision, OneSupervisor, NoOrphan
    <3>8. \A k \in Jobs \ {j} : ~alone[k]
      BY <1>2 DEF ServiceInv, Solitude
    <3>9. verb[j] # "stop"
      BY <2>1 DEF ServiceInv, Starting
    <3> QED
      BY <1>1, <1>2, <2>1, <3>2, <3>4, <3>5, <3>6, <3>7, <3>8, <3>9, ReturnKeeps DEF OwnTypes
  <2>3. CASE pidfile # Nobody
    BY <1>1, <1>3, <1>10, <2>1, <2>3 DEF StartDaemon, PidfileFree, OwnTypes
  <2> QED  BY <2>2, <2>3
<1> QED
  BY <1>4, <1>5, <1>6, <1>7, <1>8, <1>9, <1>10 DEF JobStep

\* A new job is alone when no other is at work.
LEMMA SubmitKeeps ==
  ASSUME ServiceInv, NEW j \in Jobs, NEW v \in Verbs,
         Submit(j, v)
  PROVE  ServiceInv'
<1>1. /\ job[j] = "idle" /\ UNCHANGED <<tun, svc, victim>>
      /\ verb' = [verb EXCEPT ![j] = v]
      /\ job' = [job EXCEPT ![j] = FirstStep[v]]
      /\ alone' = [k \in Jobs |-> k = j /\ \A i \in Jobs : job[i] = "idle"]
      /\ calm' = "none"
  BY DEF Submit
<1>2. /\ FirstStep[v] \in {"preflight", "render", "readpid", "isrunning"}
      /\ v = "stop" => FirstStep[v] = "readpid"
  BY ServiceAssumption DEF FirstStep
<1>3. /\ \A k \in Jobs : job'[k] = IF k = j THEN FirstStep[v] ELSE job[k]
      /\ \A k \in Jobs : verb'[k] = IF k = j THEN v ELSE verb[k]
  BY <1>1 DEF ServiceInv, OwnTypes
<1>4. CleanInv' /\ pc' = pc
  BY <1>1, TunKept
<1>5. OwnTypes'
  BY <1>1, <1>2 DEF ServiceInv, OwnTypes, svc, JobSteps
<1>6. Supervision'
  BY <1>1, <1>4
     DEF ServiceInv, Supervision, OneSupervisor, NoOrphan, svc
<1>7. Starting'
  BY <1>1, <1>2, <1>3 DEF ServiceInv, Starting
<1>8. Solitude'
  BY <1>1, <1>2, <1>3, ZenonT(60) DEF Solitude
<1>9. Calm'
  BY <1>1 DEF Calm
<1> QED  BY <1>4, <1>5, <1>6, <1>7, <1>8, <1>9 DEF ServiceInv

LEMMA ConfigureKeeps == ASSUME ServiceInv, Configure PROVE ServiceInv'
<1>1. /\ UNCHANGED <<tun, verb, job, victim, alone, calm>>
      /\ UNCHANGED <<file, daemon, pidfile, crashes>> /\ config' \in Settings
  BY DEF Configure, jobs
<1>2. CleanInv' /\ pc' = pc /\ settings' = settings
  BY <1>1, TunKept
<1>3. OwnTypes' /\ Starting' /\ Solitude'
  BY <1>1 DEF ServiceInv, OwnTypes, Starting, Solitude
<1>4. Supervision' /\ Calm'
  BY <1>1, <1>2
     DEF ServiceInv, Supervision, OneSupervisor, NoOrphan, Calm
<1> QED  BY <1>2, <1>3, <1>4 DEF ServiceInv

-----------------------------------------------------------------------------
(* The supervisor.  Only the one that holds the pidfile can take a step, and *)
(* while it does every other is none.                                        *)

LEMMA DaemonKeeps ==
  ASSUME ServiceInv, NEW d \in Daemons, DaemonStep(d)
  PROVE  ServiceInv'
<1>1. OwnTypes /\ Supervision
  BY DEF ServiceInv
<1>2. daemon[d] # "none" /\ \A e \in Daemons \ {d} : daemon[e] = "none"
  <2>1. daemon[d] # "none"
    BY DEF DaemonStep, Fork, Reap, Wake, Leave
  <2> QED  BY <1>1, <2>1 DEF Supervision, OneSupervisor
<1>3. UNCHANGED <<verb, job, victim, alone, calm, config, file, crashes>>
  BY DEF DaemonStep, Fork, Reap, Wake, Leave,
         jobs
<1>4. Starting'
  BY <1>3 DEF ServiceInv, Starting
<1>5. ASSUME NEW s \in {"none", "fork", "run", "sleep"},
             daemon' = [daemon EXCEPT ![d] = s]
      PROVE  /\ \A e \in Daemons : daemon'[e] = IF e = d THEN s ELSE "none"
             /\ Solitude'
  <2>1. \A e \in Daemons : daemon'[e] = IF e = d THEN s ELSE "none"
    BY <1>1, <1>2, <1>5 DEF OwnTypes
  <2>2. Solitude'
    BY <1>2, <1>3, <2>1 DEF ServiceInv, Solitude
  <2> QED  BY <2>1, <2>2
<1>6. CASE Fork(d)
  <2>1. /\ daemon' = [daemon EXCEPT ![d] = "run"] /\ UNCHANGED pidfile
        /\ file \in Settings /\ Start(file)
    BY <1>1, <1>6 DEF Fork, OwnTypes
  <2>2. CleanInv' /\ settings' = file
    BY <2>1, CleanNext DEF ServiceInv, Next, ClientStep, Start
  <2>3. Solitude' /\ \A e \in Daemons : daemon'[e] = IF e = d THEN "run" ELSE "none"
    BY <1>5, <2>1
  <2>4. OwnTypes'
    BY <1>1, <1>3, <2>1 DEF OwnTypes
  <2>5. Supervision'
    BY <1>1, <1>2, <2>1, <2>3 DEF Supervision, OneSupervisor, NoOrphan
  <2>6. Calm'
    BY <1>2, <1>3, <2>2, <2>3 DEF ServiceInv, Calm
  <2> QED  BY <1>4, <2>2, <2>3, <2>4, <2>5, <2>6 DEF ServiceInv
<1>7. CASE Reap(d) \/ Wake(d)
  <2>1. PICK s \in {"fork", "sleep"} : daemon' = [daemon EXCEPT ![d] = s]
    BY <1>7 DEF Reap, Wake
  <2>2. pc = "down" /\ UNCHANGED <<tun, pidfile>>
    <3>1. daemon[d] = "sleep" => pc = "down"
      BY <1>2 DEF ServiceInv, Supervision, NoOrphan
    <3> QED  BY <1>7, <3>1 DEF Reap, Wake
  <2>3. CleanInv' /\ pc' = pc /\ settings' = settings
    BY <2>2, TunKept
  <2>4. Solitude' /\ \A e \in Daemons : daemon'[e] = IF e = d THEN s ELSE "none"
    BY <1>5, <2>1
  <2>5. OwnTypes'
    BY <1>1, <1>3, <2>1, <2>2 DEF OwnTypes
  <2>6. Supervision'
    BY <1>1, <1>2, <2>2, <2>3, <2>4 DEF Supervision, OneSupervisor, NoOrphan
  <2>7. Calm'
    BY <1>2, <1>3, <2>3, <2>4, <2>2 DEF ServiceInv, Calm
  <2> QED  BY <1>4, <2>3, <2>4, <2>5, <2>6, <2>7 DEF ServiceInv
<1>8. CASE Leave(d)
  <2>1. /\ daemon' = [daemon EXCEPT ![d] = "none"] /\ pidfile' = Nobody
        /\ daemon[d] = "term" /\ pc = "down" /\ UNCHANGED tun
    BY <1>8 DEF Leave, ChildGone
  <2>2. CleanInv' /\ pc' = pc /\ settings' = settings
    BY <2>1, TunKept
  <2>3. Solitude' /\ \A e \in Daemons : daemon'[e] = "none"
    BY <1>5, <2>1
  <2>4. OwnTypes'
    BY <1>1, <1>3, <2>1 DEF OwnTypes
  <2>5. Supervision'
    BY <2>1, <2>2, <2>3 DEF Supervision, OneSupervisor, NoOrphan
  <2>6. Calm'
    BY <1>2, <1>3, <2>1, <2>3 DEF ServiceInv, Calm
  <2> QED  BY <1>4, <2>2, <2>3, <2>4, <2>5, <2>6 DEF ServiceInv
<1> QED  BY <1>6, <1>7, <1>8 DEF DaemonStep

-----------------------------------------------------------------------------
LEMMA ServiceInvInit == ServiceInit => ServiceInv
<1> SUFFICES ASSUME ServiceInit PROVE ServiceInv
  OBVIOUS
<1>1. Init
  BY DEF ServiceInit
<1>2. CleanInv /\ pc = "down"
  BY <1>1, CleanInit DEF Init
<1>3. OwnTypes
  BY ServiceAssumption DEF ServiceInit, OwnTypes, JobSteps
<1>4. Supervision /\ Starting /\ Solitude /\ Calm
  BY <1>2 DEF ServiceInit, Supervision, OneSupervisor, NoOrphan,
              Starting, Solitude, Calm
<1> QED  BY <1>2, <1>3, <1>4 DEF ServiceInv

LEMMA ServiceInvNext == ServiceInv /\ [ServiceNext]_serviceVars => ServiceInv'
<1> SUFFICES ASSUME ServiceInv, [ServiceNext]_serviceVars PROVE ServiceInv'
  OBVIOUS
<1>1. CASE Configure
  BY <1>1, ConfigureKeeps
<1>2. ASSUME NEW j \in Jobs, NEW v \in Verbs, Submit(j, v) PROVE ServiceInv'
  BY <1>2, SubmitKeeps
<1>3. ASSUME NEW j \in Jobs, JobStep(j) PROVE ServiceInv'
  BY <1>3, JobKeeps
<1>4. ASSUME NEW d \in Daemons, DaemonStep(d) PROVE ServiceInv'
  BY <1>4, DaemonKeeps
<1>5. crashes \in 0..MaxCrashes
  BY DEF ServiceInv, OwnTypes
<1>6. CASE ChildRuns \/ ChildSignalled \/ ChildQuits
  <2>1. ChildStep \/ Stop
    BY <1>6 DEF ChildRuns, Teardown, ChildStep, ChildSignalled, ChildQuits
  <2>2. ServiceSame /\ UNCHANGED crashes
    BY <1>6 DEF ChildRuns, ChildSignalled, ChildQuits, ServiceSame,
                svc
  <2> QED  BY <1>5, <2>1, <2>2, ChildKeeps
<1>7. CASE ChildCrashes
  <2>1. Crash /\ ServiceSame
    BY <1>7 DEF ChildCrashes, ServiceSame
  <2>2. crashes' \in 0..MaxCrashes
    BY <1>5, <1>7, ServiceAssumption DEF ChildCrashes
  <2> QED  BY <2>1, <2>2, ChildKeeps
<1>8. CASE UNCHANGED serviceVars
  <2>1. UNCHANGED <<tun, jobs, svc>>
    BY <1>8 DEF serviceVars
  <2>2. CleanInv' /\ pc' = pc /\ settings' = settings
    BY <2>1, TunKept
  <2>3. OwnTypes' /\ Starting' /\ Solitude'
    BY <2>1 DEF ServiceInv, OwnTypes, Starting, Solitude, jobs, svc
  <2>4. Supervision' /\ Calm'
    BY <2>1, <2>2 DEF ServiceInv, Supervision, OneSupervisor, NoOrphan, Calm,
                      jobs, svc
  <2> QED  BY <2>2, <2>3, <2>4 DEF ServiceInv
<1> QED
  BY <1>1, <1>2, <1>3, <1>4, <1>6, <1>7, <1>8 DEF ServiceNext

\* Every variable of the service and of the tun backend keeps its type through
\* every interleaving of jobs, supervisors and client.
THEOREM ServiceTypes == ServiceSpec => []ServiceTypeOK
<1>1. ServiceInv => ServiceTypeOK
  BY DEF ServiceInv, CleanInv, TypeInv, OwnTypes, ServiceTypeOK
<1> QED  BY <1>1, ServiceInvInit, ServiceInvNext, PTL DEF ServiceSpec

\* However many jobs start, stop and restart the client at once, no two
\* supervisors are alive, and the pidfile names the one that is.
THEOREM SingleSupervisor == ServiceSpec => []OneSupervisor
<1>1. ServiceInv => OneSupervisor
  BY DEF ServiceInv, Supervision
<1> QED  BY <1>1, ServiceInvInit, ServiceInvNext, PTL DEF ServiceSpec

\* A client process always has a supervisor that will stop it or await it.
THEOREM ClientIsSupervised == ServiceSpec => []NoOrphan
<1>1. ServiceInv => NoOrphan
  BY DEF ServiceInv, Supervision
<1> QED  BY <1>1, ServiceInvInit, ServiceInvNext, PTL DEF ServiceSpec

\* After an Apply that nothing overlapped and that reported success there is a
\* supervisor, and the client that runs has the rendered settings.
THEOREM AppliedSettingsRun == ServiceSpec => []AppliedIsRun
<1>1. ServiceInv => AppliedIsRun
  BY DEF ServiceInv, Calm, AppliedIsRun
<1> QED  BY <1>1, ServiceInvInit, ServiceInvNext, PTL DEF ServiceSpec

-----------------------------------------------------------------------------
(* What a stop leaves.  In a service that nothing kills and on a kernel that *)
(* does not refuse the commands of deinit nothing is ever spoilt: the routes *)
(* to delete are those that were added, and no other tool is there to remove *)
(* the interface that attach mode has found.                                 *)

Undisturbed == MaxCrashes = 0 /\ {"delete", "destroy"} \cap Failures = {}

Unspoilt == /\ ~spoilt
            /\ pc = "open" /\ settings.attach =>
                 settings.name \in Tuns /\ iface[settings.name] # "absent"

LEMMA ChildUnspoilt ==
  ASSUME Undisturbed, CleanInv, Unspoilt, ChildStep \/ Stop PROVE Unspoilt'
<1>1. CASE CheckName
  BY <1>1 DEF CheckName, NameAccepted, Unspoilt, members, kernel
<1>2. CASE OpenDevice
  <2>1. PICK n \in Openable : spoilt' = (spoilt \/ (settings.attach /\ iface[n] = "absent"))
    BY <1>2 DEF OpenDevice
  <2>2. ~(settings.attach /\ iface[n] = "absent")
    <3> SUFFICES ASSUME settings.attach PROVE iface[n] # "absent"
      OBVIOUS
    <3>1. settings.name \in Tuns /\ iface[settings.name] # "absent"
      BY <1>2 DEF OpenDevice, Unspoilt
    <3> QED  BY <3>1, TunAssumption DEF Openable
  <2>3. ~spoilt'
    BY <2>1, <2>2 DEF Unspoilt
  <2> QED  BY <1>2, <2>3 DEF OpenDevice, Unspoilt
<1>3. CASE OpenFails \/ SetHead \/ GetName \/ GetIndex \/ SetupIf \/ SetupFails
  BY <1>3 DEF OpenFails, SetHead, GetName, GetIndex, SetupIf, SetupFails, Unspoilt, members
<1>4. CASE AddRoute \/ AddFails \/ RoutesDone \/ RoutesGone \/ CloseFd \/ DestroyHangs
           \/ Stop
  BY <1>4 DEF AddRoute, AddFails, RoutesDone, RoutesGone, CloseFd, DestroyHangs, Stop,
              Unspoilt, members
<1>5. CASE DeleteRoute
  <2>1. route[recorded[Len(recorded)]].via = name
    <3>1. Len(recorded) \in 1..Len(recorded)
      BY <1>5, DeletedIsOurs
    <3> QED  BY <3>1 DEF CleanInv, Recorded
  <2> QED  BY <1>5, <2>1 DEF DeleteRoute, Undisturbed, Unspoilt
<1>6. CASE Destroy \/ Exit
  BY <1>6 DEF Destroy, Exit, Gone, Undisturbed, Unspoilt
<1> QED  BY <1>1, <1>2, <1>3, <1>4, <1>5, <1>6 DEF ChildStep

LEMMA ServiceUnspoilt ==
  ASSUME Undisturbed, ServiceInv, Unspoilt, [ServiceNext]_serviceVars
  PROVE  Unspoilt'
<1>1. CASE UNCHANGED tun
  BY <1>1 DEF tun, vars, kernel, process, members, Unspoilt
<1>2. CASE ChildRuns \/ ChildSignalled \/ ChildQuits
  BY <1>2, ChildUnspoilt
     DEF ChildRuns, Teardown, ChildStep, ChildSignalled, ChildQuits, ServiceInv
<1>3. CASE ChildCrashes
  BY <1>3 DEF ChildCrashes, ServiceInv, OwnTypes, Undisturbed
<1>4. ASSUME NEW d \in Daemons, Fork(d) PROVE Unspoilt'
  BY <1>4 DEF Fork, Start, Unspoilt, members
<1>5. ASSUME NEW d \in Daemons, DaemonStep(d), ~Fork(d)
      PROVE  UNCHANGED tun
  BY <1>5 DEF DaemonStep, Reap, Wake, Leave
<1>6. ASSUME NEW j \in Jobs, JobStep(j) PROVE UNCHANGED tun
  BY <1>6 DEF JobStep, Preflight, Render, ReadPid,
              SendTerm, AwaitExit, IsRunning, StartDaemon
<1> QED
  BY <1>1, <1>2, <1>3, <1>4, <1>5, <1>6
     DEF ServiceNext, Submit, Configure, serviceVars

\* A stop that nothing overlapped and that reported success leaves no process,
\* no interface and no route, whichever calls of the start-up failed before.
THEOREM StopLeavesNothing ==
  ASSUME Undisturbed
  PROVE  ServiceSpec => []StoppedIsClean
<1>1. ServiceInit => Unspoilt
  BY DEF ServiceInit, Init, Unspoilt
<1>2. ServiceInv /\ Unspoilt /\ [ServiceNext]_serviceVars => Unspoilt'
  BY ServiceUnspoilt
<1>3. ServiceInv /\ Unspoilt => StoppedIsClean
  <2> SUFFICES ASSUME ServiceInv, ~spoilt, calm = "stopped"
               PROVE  /\ \A d \in Daemons : daemon[d] = "none"
                      /\ pc = "down"
                      /\ \A n \in Tuns : iface[n] # "client"
                      /\ \A r \in Routes : route[r].by # "client"
    BY DEF StoppedIsClean, Unspoilt
  <2>1. \A d \in Daemons : daemon[d] = "none"
    BY DEF ServiceInv, Calm
  <2>2. pc = "down"
    BY <2>1 DEF ServiceInv, Supervision, NoOrphan
  <2>3. recorded = <<>>
    BY <2>2 DEF ServiceInv, CleanInv, Recorded, Routed
  <2>4. \A r \in Routes : route[r].by # "client"
    BY <2>3 DEF ServiceInv, CleanInv, Recorded
  <2>5. \A n \in Tuns : iface[n] # "client"
    BY <2>2 DEF ServiceInv, CleanInv, Ours, Standing
  <2> QED  BY <2>1, <2>2, <2>4, <2>5
<1> QED  BY <1>1, <1>2, <1>3, ServiceInvInit, ServiceInvNext, PTL DEF ServiceSpec

-----------------------------------------------------------------------------
(* What the tun backend promises by itself it promises under the supervisor. *)

\* Whatever jobs, supervisors and kills do: the client process starts from
\* nothing, with settings that are there, and takes the backend's steps only.
THEOREM ServiceRunsBackend == ServiceSpec => Init /\ [][Next]_vars
<1>1. ServiceInit => Init
  BY DEF ServiceInit
<1>2. ServiceInv /\ [ServiceNext]_serviceVars => [Next]_vars
  <2> SUFFICES ASSUME ServiceInv, [ServiceNext]_serviceVars, ~(UNCHANGED vars) PROVE Next
    OBVIOUS
  <2>1. ~(UNCHANGED tun)
    BY DEF tun, vars
  <2>2. CASE ChildRuns \/ ChildSignalled \/ ChildQuits \/ ChildCrashes
    BY <2>2 DEF ChildRuns, ChildSignalled, ChildQuits, ChildCrashes, Teardown, ClientStep,
                Next
  <2>3. ASSUME NEW d \in Daemons, DaemonStep(d) PROVE Next
    <3>1. Fork(d)
      BY <2>1, <2>3 DEF DaemonStep, Reap, Wake, Leave
    <3>2. file \in Settings /\ Start(file)
      BY <3>1 DEF Fork, ServiceInv, OwnTypes
    <3> QED  BY <3>2 DEF ClientStep, Next
  <2>4. ASSUME NEW j \in Jobs, JobStep(j) PROVE FALSE
    BY <2>1, <2>4 DEF JobStep, Preflight, Render, ReadPid, SendTerm, AwaitExit, IsRunning,
                      StartDaemon
  <2> QED
    BY <2>1, <2>2, <2>3, <2>4 DEF ServiceNext, Submit, Configure, serviceVars
<1> QED  BY <1>1, <1>2, ServiceInvInit, ServiceInvNext, PTL DEF ServiceSpec

\* A client that is stopped, restarted, killed or started again by its
\* supervisor at any moment still has exactly its recorded routes while it
\* stands, ...
THEOREM ServiceRoutesTracked == ServiceSpec => []RoutesTracked
BY ServiceRunsBackend, CleanInit, CleanNext, CleanTracked, PTL

\* ... leaves nothing when it is gone and nothing was spoilt, ...
THEOREM ServiceExitsClean == ServiceSpec => []CleanExit
BY ServiceRunsBackend, CleanInit, CleanNext, CleanAtExit, PTL

\* ... removes no route of another tool on its way down, ...
THEOREM ServiceForeignRoutes == ServiceSpec => ForeignRoutesKept
<1> DEFINE Kept == \A r \in Routes : route[r].by = "other" => route'[r] = route[r]
<1>1. CleanInv /\ [Next]_vars => [DeleteRoute => Kept]_vars
  BY DeletedStaysForeign
<1>2. ServiceSpec => [][DeleteRoute => Kept]_vars
  BY <1>1, ServiceRunsBackend, CleanInit, CleanNext, PTL
<1> QED  BY <1>2 DEF ForeignRoutesKept

\* ... and, unless a named interface is to be created, no interface of theirs,
\* over any number of supervised restarts.
THEOREM ServiceForeignInterfaces ==
  ASSUME NoNamedCreate
  PROVE  ServiceSpec => NoForeignDestroy
<1> DEFINE Safe == \A n \in Tuns : iface[n] = "other" => iface'[n] = "other"
<1>1. OwnInv /\ [Next]_vars => [ClientStep => Safe]_vars
  BY OwnClient
<1>2. ServiceSpec => [][ClientStep => Safe]_vars
  BY <1>1, ServiceRunsBackend, OwnInit, OwnNext, PTL
<1> QED  BY <1>2 DEF NoForeignDestroy
=============================================================================

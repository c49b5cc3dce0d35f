----------------------- MODULE EndpointApply_proofs -----------------------
(***************************************************************************)
(* Proofs about the reconfigure chain, for any sets of users, certificates *)
(* and configurations.  With any number of jobs and with faults: types,    *)
(* and that an undisturbed chain that said OK has applied the whole        *)
(* configuration.  With one job at a time: that a deletion stays in        *)
(* effect.  With one job at a time and no fault: that the certificate      *)
(* files and the TOML files stay in step and an endpoint restartable.      *)
(***************************************************************************)
EXTENDS EndpointApply, TLAPS

\* What a link of the chain leaves of a job when it ends or goes on.
LEMMA GotoType ==
  ASSUME TypeOK, NEW j \in Jobs, NEW s \in Steps, Goto(j, s)
  PROVE  /\ verb' \in [Jobs -> {"none", "reconfigure", "restart", "start", "stop"}]
         /\ user' \in [Jobs -> Users \cup {Nothing}]
         /\ job' \in [Jobs -> Steps]
         /\ revoked' \in [Users -> {"no", "reported", "done"}]
         /\ calm' \in {"none", "running", "applied"}
  BY DEF TypeOK, Goto

LEMMA ReturnType ==
  ASSUME TypeOK, NEW j \in Jobs, NEW ok \in BOOLEAN, Return(j, ok)
  PROVE  /\ verb' \in [Jobs -> {"none", "reconfigure", "restart", "start", "stop"}]
         /\ user' \in [Jobs -> Users \cup {Nothing}]
         /\ job' \in [Jobs -> Steps]
         /\ pem' \in [Jobs -> Pems]
         /\ seen' \in [Jobs -> Configs \cup {Nothing}]
         /\ revoked' \in [Users -> {"no", "reported", "done"}]
         /\ calm' \in {"none", "running", "applied"}
  BY DEF TypeOK, Return, Steps, Pems

LEMMA BeginType ==
  ASSUME TypeOK, NEW j \in Jobs, NEW v \in {"reconfigure", "restart", "start", "stop"},
         NEW u \in Users \cup {Nothing}, Begin(j, v, u)
  PROVE  /\ verb' \in [Jobs -> {"none", "reconfigure", "restart", "start", "stop"}]
         /\ user' \in [Jobs -> Users \cup {Nothing}]
         /\ job' \in [Jobs -> Steps]
         /\ calm' \in {"none", "running", "applied"}
         /\ UNCHANGED <<store, disk, endpoint, pem, seen>>
<1>1. FirstStep[v] \in Steps
  BY DEF FirstStep, Steps
<1>2. QED
  BY <1>1 DEF TypeOK, Begin

\* A process that starts has loaded users and a certificate it was given.
LEMMA LoadedType ==
  ASSUME TypeOK, RequiredFiles, Loadable
  PROVE  Loaded \in Processes
<1>1. toml["vpn"] \in Configs /\ toml["credentials"] \in Configs \cup {Nothing}
  BY DEF TypeOK, RequiredFiles, Rendered
<1>2. Loaded.users \in SUBSET Users
  BY <1>1, ConfigAssumption DEF Loaded, Loadable, AllConfigs
<1>3. Loaded.pem \in Pems \ {Nothing}
  BY DEF TypeOK, Loaded, Loadable
<1>4. QED
  BY <1>2, <1>3 DEF Loaded, Processes

LEMMA TypeInductive == TypeOK /\ [Next]_vars => TypeOK'
<1> SUFFICES ASSUME TypeOK, [Next]_vars PROVE TypeOK'
  OBVIOUS
<1>1. CASE Edit
  BY <1>1, ConfigAssumption DEF TypeOK, Edit, disk, AllConfigs
<1>2. CASE EditStore
  BY <1>2, BoundAssumption DEF TypeOK, EditStore, disk
<1>3. ASSUME NEW j \in Jobs, NEW v \in {"reconfigure", "restart", "start", "stop"},
             Request(j, v)
      PROVE  TypeOK'
  BY <1>3, BeginType DEF TypeOK, Request, disk
<1>4. ASSUME NEW j \in Jobs, NEW u \in Users, DelUser(j, u)
      PROVE  TypeOK'
  <2>1. config' \in Configs
    BY <1>4, ConfigAssumption DEF TypeOK, DelUser
  <2>2. QED
    BY <1>4, <2>1, BeginType DEF TypeOK, DelUser, disk
<1>5. ASSUME NEW j \in Jobs, Materialize(j) PROVE TypeOK'
  <2>1. CASE config.cert \in Certs /\ store[config.cert] = 0
    BY <1>5, <2>1, ReturnType DEF TypeOK, Materialize, xml, disk
  <2>2. CASE ~(config.cert \in Certs /\ store[config.cert] = 0)
    <3>1. config.cert \in Certs \cup {Nothing}
      BY ConfigAssumption DEF TypeOK, AllConfigs
    <3>2. config.cert \in Certs => store[config.cert] \in 1..MaxVersion
      BY <2>2, BoundAssumption DEF TypeOK
    <3>3. (IF config.cert = Nothing THEN Nothing
           ELSE <<config.cert, store[config.cert]>>) \in Pems
      BY <3>1, <3>2 DEF Pems
    <3>4. pem' \in [Jobs -> Pems]
      BY <1>5, <2>2, <3>3 DEF TypeOK, Materialize
    <3>5. QED
      BY <1>5, <2>2, <3>4, GotoType DEF TypeOK, Materialize, xml, disk, Steps
  <2>3. QED
    BY <2>1, <2>2
<1>6. ASSUME NEW j \in Jobs, WriteCert(j) PROVE TypeOK'
  BY <1>6, GotoType DEF TypeOK, WriteCert, xml, Steps
<1>7. ASSUME NEW j \in Jobs, WriteKey(j) PROVE TypeOK'
  BY <1>7, GotoType DEF TypeOK, WriteKey, xml, Steps
<1>8. ASSUME NEW j \in Jobs, Render(j) PROVE TypeOK'
  <2>1. CASE Accepts(config)
    BY <1>8, <2>1, GotoType DEF TypeOK, Render, xml, disk, Steps
  <2>2. CASE ~Accepts(config)
    BY <1>8, <2>2, ReturnType DEF TypeOK, Render, xml, disk
  <2>3. QED
    BY <2>1, <2>2
<1>9. ASSUME NEW j \in Jobs, WriteToml(j) PROVE TypeOK'
  <2>1. NextFile[job[j]] \in Steps
    BY <1>9 DEF WriteToml, Rendered, NextFile, Steps
  <2>2. QED
    BY <1>9, <2>1, GotoType DEF TypeOK, WriteToml, xml
<1>10. ASSUME NEW j \in Jobs, StopEndpoint(j) PROVE TypeOK'
  <2>1. endpoint' \in Processes
    BY <1>10 DEF StopEndpoint, Processes
  <2>2. (endpoint # Nothing) \in BOOLEAN
    OBVIOUS
  <2>3. CASE verb[j] = "stop"
    BY <1>10, <2>1, <2>2, <2>3, ReturnType DEF TypeOK, StopEndpoint, xml, disk
  <2>4. CASE verb[j] # "stop"
    BY <1>10, <2>1, <2>4, GotoType DEF TypeOK, StopEndpoint, xml, disk, Steps
  <2>5. QED
    BY <2>3, <2>4
<1>11. ASSUME NEW j \in Jobs, StartEndpoint(j) PROVE TypeOK'
  <2>1. endpoint' \in Processes
    BY <1>11, LoadedType DEF TypeOK, StartEndpoint, Processes
  <2>2. QED
    BY <1>11, <2>1, ReturnType DEF TypeOK, StartEndpoint, xml, disk
<1>12. ASSUME NEW j \in Jobs, Fault(j) PROVE TypeOK'
  BY <1>12, ReturnType DEF TypeOK, Fault, xml, disk
<1>13. CASE EndpointDies
  BY <1>13 DEF TypeOK, EndpointDies, xml, disk, Processes
<1>14. CASE UNCHANGED vars
  BY <1>14 DEF TypeOK, vars, xml, disk
<1>15. QED
  BY <1>1, <1>2, <1>3, <1>4, <1>5, <1>6, <1>7, <1>8, <1>9, <1>10, <1>11, <1>12,
     <1>13, <1>14 DEF Next, JobStep

\* TypeCorrect: whatever the edits, jobs, faults and deaths, every file, process
\* and job of the reconfigure chain holds a value of its type.
THEOREM TypeCorrect == Spec => []TypeOK
<1>1. Init => TypeOK
  BY BoundAssumption DEF Init, TypeOK, Pems, Processes, Steps
<1>2. QED
  BY <1>1, TypeInductive, PTL DEF Spec

-----------------------------------------------------------------------------
(* One job at a time, and neither a failed write nor a killed link: what     *)
(* configd does not enforce, and what the two files of a pair depend on.     *)
Alone == /\ \A j, k \in Jobs : j = k
         /\ Faults = FALSE

\* Where each link of the chain has brought the files it writes.
CertWritten == \A j \in Jobs : job[j] = "key" => certpem = pem[j]
TomlWritten ==
  /\ \A j \in Jobs : job[j] \in {"hosts", "credentials"} => toml["vpn"] = seen[j]
  /\ \A j \in Jobs : job[j] = "credentials" => toml["hosts"] = seen[j]
  /\ \A j \in Jobs : job[j] = "hosts" => toml["hosts"] = toml["credentials"]
FilesInv == TypeOK /\ CertWritten /\ PairMatches /\ TomlWritten /\ SameGeneration

\* A step that leaves the certificate files alone, and takes no job to the second
\* of the two writes, keeps them a pair.
LEMMA PairKept ==
  ASSUME FilesInv, UNCHANGED <<certpem, keypem>>,
         \A k \in Jobs : job'[k] = "key" <=> job[k] = "key",
         \A k \in Jobs : job'[k] = "key" => pem'[k] = pem[k]
  PROVE  CertWritten' /\ PairMatches'
  BY DEF FilesInv, CertWritten, PairMatches

LEMMA TomlKept ==
  ASSUME FilesInv, UNCHANGED toml,
         \A k \in Jobs : job'[k] \in {"hosts", "credentials"} =>
                           job'[k] = job[k] /\ seen'[k] = seen[k],
         \A k \in Jobs : job[k] \in {"hosts", "credentials"} => job'[k] = job[k]
  PROVE  TomlWritten' /\ SameGeneration'
<1>1. TomlWritten'
  BY DEF FilesInv, TomlWritten
<1>2. Writing' <=> Writing
  BY DEF Writing
<1>3. SameGeneration'
  BY <1>2 DEF FilesInv, SameGeneration
<1>4. QED
  BY <1>1, <1>3

\* The links that write no file, taken by a job at a step of its own.
Elsewhere == Steps \ {"key", "hosts", "credentials"}
LEMMA Quiet ==
  ASSUME FilesInv, UNCHANGED disk, NEW j \in Jobs, job[j] \in Elsewhere,
         NEW s \in Elsewhere, job' = [job EXCEPT ![j] = s],
         \A k \in Jobs : k # j => pem'[k] = pem[k] /\ seen'[k] = seen[k]
  PROVE  CertWritten' /\ PairMatches' /\ TomlWritten' /\ SameGeneration'
<1>1. \A k \in Jobs : job'[k] = IF k = j THEN s ELSE job[k]
  BY DEF FilesInv, TypeOK
<1>2. s # "key" /\ s \notin {"hosts", "credentials"}
      /\ job[j] # "key" /\ job[j] \notin {"hosts", "credentials"}
  BY DEF Elsewhere
<1>3. CertWritten' /\ PairMatches'
  BY <1>1, <1>2, PairKept DEF disk
<1>4. TomlWritten' /\ SameGeneration'
  BY <1>1, <1>2, TomlKept DEF disk
<1>5. QED
  BY <1>3, <1>4

LEMMA FilesInductive ==
  ASSUME Alone, FilesInv, [Next]_vars
  PROVE  FilesInv'
<1>1. TypeOK'
  BY TypeInductive DEF FilesInv
<1> DEFINE Goal == CertWritten' /\ PairMatches' /\ TomlWritten' /\ SameGeneration'
<1>2. ASSUME UNCHANGED <<disk, job, pem, seen>> PROVE Goal
  BY <1>2, PairKept, TomlKept DEF disk
<1>3. ASSUME NEW j \in Jobs, NEW v \in {"reconfigure", "restart", "start", "stop"},
             NEW u \in Users \cup {Nothing}, Begin(j, v, u)
      PROVE  Goal
  <2>1. FirstStep[v] \in Elsewhere
    BY DEF FirstStep, Elsewhere, Steps
  <2>2. job[j] \in Elsewhere
    BY <1>3 DEF Begin, Elsewhere, Steps
  <2>3. UNCHANGED disk /\ job' = [job EXCEPT ![j] = FirstStep[v]]
        /\ UNCHANGED <<pem, seen>>
    BY <1>3 DEF Begin
  <2>4. QED
    BY <2>1, <2>2, <2>3, Quiet
<1>4. ASSUME NEW j \in Jobs,
             Materialize(j) \/ Render(j) \/ StopEndpoint(j) \/ StartEndpoint(j)
      PROVE  Goal
  <2>1. job[j] \in Elsewhere
    BY <1>4 DEF Materialize, Render, StopEndpoint, StartEndpoint, Elsewhere, Steps
  <2>2. UNCHANGED disk
    BY <1>4 DEF Materialize, Render, StopEndpoint, StartEndpoint
  <2>3. \A k \in Jobs : k # j => pem'[k] = pem[k] /\ seen'[k] = seen[k]
    BY <1>4 DEF FilesInv, TypeOK, Materialize, Render, StopEndpoint, StartEndpoint,
                Return
  <2>4. \E s \in Elsewhere : job' = [job EXCEPT ![j] = s]
    BY <1>4 DEF Materialize, Render, StopEndpoint, StartEndpoint, Return, Goto,
                Elsewhere, Steps
  <2>5. QED
    BY <2>1, <2>2, <2>3, <2>4, Quiet
<1>5. ASSUME NEW j \in Jobs, WriteCert(j) PROVE Goal
  <2>1. \A k \in Jobs : k = j
    BY DEF Alone
  <2>2. job'[j] = "key" /\ job[j] = "cert" /\ certpem' = pem[j] /\ UNCHANGED <<toml, pem, seen>>
    BY <1>5 DEF FilesInv, TypeOK, WriteCert, Goto
  <2>3. CertWritten' /\ PairMatches'
    BY <2>1, <2>2 DEF CertWritten, PairMatches
  <2>4. TomlWritten' /\ SameGeneration'
    BY <2>1, <2>2, TomlKept
  <2>5. QED
    BY <2>3, <2>4
<1>6. ASSUME NEW j \in Jobs, WriteKey(j) PROVE Goal
  <2>1. \A k \in Jobs : k = j
    BY DEF Alone
  <2>2. job'[j] = "render" /\ job[j] = "key" /\ keypem' = pem[j]
        /\ UNCHANGED <<certpem, toml, pem, seen>>
    BY <1>6 DEF FilesInv, TypeOK, WriteKey, Goto
  <2>3. CertWritten' /\ PairMatches'
    BY <2>1, <2>2 DEF FilesInv, CertWritten, PairMatches
  <2>4. TomlWritten' /\ SameGeneration'
    BY <2>1, <2>2, TomlKept
  <2>5. QED
    BY <2>3, <2>4
<1>7. ASSUME NEW j \in Jobs, WriteToml(j) PROVE Goal
  <2>1. \A k \in Jobs : k = j
    BY DEF Alone
  <2>2. /\ job[j] \in Rendered /\ job'[j] = NextFile[job[j]]
        /\ toml' = [toml EXCEPT ![job[j]] = seen[j]]
        /\ UNCHANGED <<certpem, keypem, pem, seen>>
    BY <1>7 DEF FilesInv, TypeOK, WriteToml, Goto
  <2>3. CertWritten' /\ PairMatches'
    <3>1. job[j] # "key" /\ job'[j] # "key"
      BY <2>2 DEF Rendered, NextFile
    <3>2. QED
      BY <2>1, <2>2, <3>1, PairKept
  <2>4. toml \in [Rendered -> Configs \cup {Nothing}]
    BY DEF FilesInv, TypeOK
  <2>5. CASE job[j] = "vpn"
    <3>1. job'[j] = "hosts"
      BY <2>2, <2>5 DEF NextFile
    <3>2. toml["hosts"] = toml["credentials"]
      BY <2>1, <2>5 DEF FilesInv, SameGeneration, Writing, Rendered
    <3>3. QED
      BY <2>1, <2>2, <2>3, <2>4, <2>5, <3>1, <3>2
         DEF TomlWritten, SameGeneration, Writing, Rendered
  <2>6. CASE job[j] = "hosts"
    <3>1. job'[j] = "credentials"
      BY <2>2, <2>6 DEF NextFile
    <3>2. toml["vpn"] = seen[j]
      BY <2>6 DEF FilesInv, TomlWritten
    <3>3. QED
      BY <2>1, <2>2, <2>3, <2>4, <2>6, <3>1, <3>2
         DEF TomlWritten, SameGeneration, Writing, Rendered
  <2>7. CASE job[j] = "credentials"
    <3>1. job'[j] = "stop"
      BY <2>2, <2>7 DEF NextFile
    <3>2. toml["vpn"] = seen[j] /\ toml["hosts"] = seen[j]
      BY <2>7 DEF FilesInv, TomlWritten
    <3>3. \A f \in Rendered : toml'[f] = seen[j]
      BY <2>2, <2>4, <2>7, <3>2 DEF Rendered
    <3>4. QED
      BY <2>1, <2>3, <3>1, <3>3 DEF TomlWritten, SameGeneration
  <2>8. QED
    BY <2>2, <2>5, <2>6, <2>7 DEF Rendered
<1>8. Goal
  <2>1. ASSUME Edit \/ EditStore \/ EndpointDies \/ UNCHANGED vars PROVE Goal
    BY <2>1, <1>2 DEF Edit, EditStore, EndpointDies, vars, xml, disk
  <2>2. ASSUME NEW j \in Jobs, Fault(j) PROVE FALSE
    BY <2>2 DEF Alone, Fault
  <2>3. ASSUME NEW j \in Jobs, NEW v \in {"reconfigure", "restart", "start", "stop"},
               Request(j, v)
        PROVE  Goal
    BY <2>3, <1>3 DEF Request
  <2>4. ASSUME NEW j \in Jobs, NEW u \in Users, DelUser(j, u) PROVE Goal
    BY <2>4, <1>3 DEF DelUser
  <2>5. QED
    BY <2>1, <2>2, <2>3, <2>4, <1>4, <1>5, <1>6, <1>7 DEF Next, JobStep
<1>9. QED
  BY <1>1, <1>8 DEF FilesInv

LEMMA FilesInit == Init => FilesInv
<1>1. Init => TypeOK
  BY BoundAssumption DEF Init, TypeOK, Pems, Processes, Steps
<1>2. QED
  BY <1>1 DEF Init, FilesInv, CertWritten, PairMatches, TomlWritten, SameGeneration

\* PairStaysTogether: one job at a time and no fault, the key on disk is the
\* certificate's except between the two writes of materialize_certs.php.
THEOREM PairStaysTogether ==
  ASSUME Alone
  PROVE  Spec => []PairMatches
<1>1. FilesInv /\ [Next]_vars => FilesInv'
  BY FilesInductive
<1>2. FilesInv => PairMatches
  BY DEF FilesInv
<1>3. QED
  BY FilesInit, <1>1, <1>2, PTL DEF Spec

\* OneGeneration: one job at a time and no fault, the TOML files are all of one
\* configuration whenever render_server_config.py is not between two writes.
THEOREM OneGeneration ==
  ASSUME Alone
  PROVE  Spec => []SameGeneration
<1>1. FilesInv /\ [Next]_vars => FilesInv'
  BY FilesInductive
<1>2. FilesInv => SameGeneration
  BY DEF FilesInv
<1>3. QED
  BY FilesInit, <1>1, <1>2, PTL DEF Spec
-----------------------------------------------------------------------------
(* A revocation that took effect, with one job at a time (faults allowed).   *)
OneJob == \A j, k \in Jobs : j = k

\* No source from which a later start could take the user.
Gone(u) == /\ u \notin config.users
           /\ \A j \in Jobs : seen[j] # Nothing => u \notin seen[j].users
           /\ toml["credentials"] # Nothing => u \notin toml["credentials"].users
           /\ endpoint # Nothing => u \notin endpoint.users

\* How far the chain run for a deletion has removed the user.
Going(j, u) ==
  /\ verb[j] = "reconfigure"
  /\ job[j] # "idle"
  /\ u \notin config.users
  /\ seen[j] # Nothing => u \notin seen[j].users
  /\ job[j] \in {"stop", "start"} =>
       /\ toml["credentials"] # Nothing
       /\ u \notin toml["credentials"].users
  /\ job[j] = "start" => endpoint = Nothing

RevokeInv == /\ TypeOK
             /\ \A u \in Users : revoked[u] = "done" => Gone(u)
             /\ \A j \in Jobs, u \in Users : user[j] = u => Going(j, u)
             /\ \A j \in Jobs : job[j] = "idle" => seen[j] = Nothing
             /\ \A j \in Jobs : job[j] \in Rendered => seen[j] # Nothing

\* Adding a user again withdraws its revocation, done or under way.
LEMMA RevokeEdit == OneJob /\ RevokeInv /\ TypeOK' /\ Edit => RevokeInv'
<1> SUFFICES ASSUME RevokeInv, TypeOK', Edit PROVE RevokeInv'
  OBVIOUS
<1>1. \A u \in Users : u \in config'.users => revoked'[u] = "no"
  BY DEF Edit
<1>2. \A j \in Jobs, u \in Users :
        user'[j] = u => user[j] = u /\ u \notin config'.users
  BY NothingAssumption DEF Edit, RevokeInv, TypeOK
<1>3. \A u \in Users : revoked'[u] = "done" =>
                         revoked[u] = "done" /\ u \notin config'.users
  BY <1>1 DEF Edit
<1>4. UNCHANGED <<disk, endpoint, verb, job, seen>>
  BY DEF Edit
<1>5. \A u \in Users : revoked'[u] = "done" => Gone(u)'
  BY <1>3, <1>4 DEF RevokeInv, Gone, disk
<1>6. \A j \in Jobs, u \in Users : user'[j] = u => Going(j, u)'
  BY <1>2, <1>4 DEF RevokeInv, Going, disk
<1>7. QED
  BY <1>4, <1>5, <1>6 DEF RevokeInv

\* A new job starts with nothing read; users only leave the configuration.
LEMMA RevokeBegin ==
  ASSUME RevokeInv, TypeOK', NEW i \in Jobs,
         NEW v \in {"reconfigure", "restart", "start", "stop"},
         NEW x \in Users \cup {Nothing}, Begin(i, v, x), UNCHANGED revoked,
         config'.users \subseteq config.users,
         x # Nothing => x \notin config'.users /\ v = "reconfigure"
  PROVE  RevokeInv'
<1>1. UNCHANGED <<disk, endpoint, seen>> /\ seen[i] = Nothing
  BY DEF Begin, RevokeInv
<1>2. FirstStep[v] \in {"materialize", "stop", "start"}
      /\ (v = "reconfigure" => FirstStep[v] = "materialize")
  BY DEF FirstStep
<1>3. \A u \in Users : revoked'[u] = "done" => Gone(u)'
  BY <1>1 DEF RevokeInv, Gone, disk
<1>4. ASSUME NEW j \in Jobs, NEW u \in Users, user'[j] = u PROVE Going(j, u)'
  <2>1. CASE j = i
    <3>1. u = x /\ x # Nothing
      BY <1>4, <2>1, NothingAssumption DEF Begin, RevokeInv, TypeOK
    <3>2. verb'[i] = "reconfigure" /\ job'[i] = "materialize"
      BY <1>2, <3>1 DEF Begin, RevokeInv, TypeOK
    <3>3. QED
      BY <1>1, <2>1, <3>1, <3>2 DEF Going, Rendered
  <2>2. CASE j # i
    <3>1. user[j] = u /\ UNCHANGED <<verb[j], job[j], seen[j]>>
      BY <1>1, <1>4, <2>2 DEF Begin, RevokeInv, TypeOK
    <3>2. QED
      BY <1>1, <3>1 DEF RevokeInv, Going, disk
  <2>3. QED
    BY <2>1, <2>2
<1>5. \A j \in Jobs : job'[j] = "idle" => seen'[j] = Nothing
  BY <1>1, <1>2 DEF Begin, RevokeInv, TypeOK
<1>6. \A j \in Jobs : job'[j] \in Rendered => seen'[j] # Nothing
  BY <1>1, <1>2 DEF Begin, RevokeInv, TypeOK, Rendered
<1>7. \A j \in Jobs, u \in Users : user'[j] = u => Going(j, u)'
  BY <1>4
<1>8. QED
  BY <1>3, <1>5, <1>6, <1>7 DEF RevokeInv

\* The only job ends: a deletion that ends with OK has to have left no source.
LEMMA RevokeReturn ==
  ASSUME OneJob, RevokeInv, TypeOK', NEW j \in Jobs, NEW ok \in BOOLEAN,
         Return(j, ok), UNCHANGED <<config, toml>>,
         \A u \in Users : (ok /\ user[j] = u) \/ revoked[u] = "done" =>
            /\ toml["credentials"] # Nothing => u \notin toml["credentials"].users
            /\ endpoint' # Nothing => u \notin endpoint'.users
  PROVE  RevokeInv'
<1>1. \A k \in Jobs : k = j
  BY DEF OneJob
<1>2. seen'[j] = Nothing /\ user'[j] = Nothing /\ job'[j] \notin Rendered
  BY DEF Return, RevokeInv, TypeOK, Rendered
<1>3. ASSUME NEW u \in Users, revoked'[u] = "done" PROVE Gone(u)'
  <2>1. (ok /\ user[j] = u) \/ revoked[u] = "done"
    BY <1>3 DEF Return
  <2>2. u \notin config.users
    BY <2>1 DEF RevokeInv, Gone, Going
  <2>3. QED
    BY <1>1, <1>2, <2>1, <2>2 DEF Gone
<1>4. \A k \in Jobs, u \in Users : user'[k] # u
  BY <1>1, <1>2, NothingAssumption
<1>5. QED
  BY <1>1, <1>2, <1>3, <1>4 DEF RevokeInv

\* A link that goes on, having read at most what config.xml says now.
LEMMA RevokeGoto ==
  ASSUME OneJob, RevokeInv, TypeOK', NEW j \in Jobs, NEW s \in Steps \ {"idle"},
         Goto(j, s), UNCHANGED config, job[j] # "idle",
         seen'[j] \in {seen[j], config},
         endpoint' \in {endpoint, Nothing},
         toml'["credentials"] \in {toml["credentials"], seen[j]},
         s \in Rendered => seen'[j] # Nothing,
         (/\ s \in {"stop", "start"} /\ job[j] \notin {"stop", "start"}
          /\ verb[j] = "reconfigure") =>
            toml'["credentials"] = seen[j] /\ seen[j] # Nothing,
         s = "start" => endpoint' = Nothing /\ job[j] = "stop",
         job[j] \in {"stop", "start"} => UNCHANGED toml
  PROVE  RevokeInv'
<1>1. \A k \in Jobs : k = j
  BY DEF OneJob
<1>2. UNCHANGED <<verb, user, revoked>> /\ job'[j] = s
  BY DEF Goto, RevokeInv, TypeOK
<1>3. ASSUME NEW u \in Users, revoked'[u] = "done" PROVE Gone(u)'
  <2>1. Gone(u)
    BY <1>2, <1>3 DEF RevokeInv
  <2>2. QED
    BY <1>1, <2>1 DEF Gone
<1>4. ASSUME NEW u \in Users, user'[j] = u PROVE Going(j, u)'
  <2>1. Going(j, u)
    BY <1>2, <1>4 DEF RevokeInv
  <2>2. u \notin config'.users /\ (seen'[j] # Nothing => u \notin seen'[j].users)
    BY <2>1 DEF Going
  <2>3. ASSUME s \in {"stop", "start"}
        PROVE  toml'["credentials"] # Nothing /\ u \notin toml'["credentials"].users
    BY <2>1, <2>3 DEF Going
  <2>4. QED
    BY <1>2, <2>1, <2>2, <2>3 DEF Going
<1>5. QED
  BY <1>1, <1>2, <1>3, <1>4 DEF RevokeInv

LEMMA RevokeInductive ==
  ASSUME OneJob, RevokeInv, [Next]_vars
  PROVE  RevokeInv'
<1>1. TypeOK'
  BY TypeInductive DEF RevokeInv
<1>2. config.users \in SUBSET Users /\ config # Nothing
  BY ConfigAssumption, NothingAssumption DEF RevokeInv, TypeOK, AllConfigs
<1>3. CASE Edit
  BY <1>1, <1>3, RevokeEdit
<1>4. CASE EditStore \/ EndpointDies \/ UNCHANGED vars
  <2>1. UNCHANGED <<config, toml, verb, user, job, seen, revoked>>
        /\ endpoint' \in {endpoint, Nothing}
    BY <1>4 DEF EditStore, EndpointDies, vars, xml, disk
  <2>2. \A u \in Users : Gone(u) => Gone(u)'
    BY <2>1 DEF Gone
  <2>3. \A j \in Jobs, u \in Users : Going(j, u) => Going(j, u)'
    BY <2>1 DEF Going
  <2>4. QED
    BY <1>1, <2>1, <2>2, <2>3 DEF RevokeInv
<1>5. ASSUME NEW j \in Jobs, NEW v \in {"reconfigure", "restart", "start", "stop"},
             Request(j, v)
      PROVE  RevokeInv'
  BY <1>1, <1>5, RevokeBegin DEF Request
<1>6. ASSUME NEW j \in Jobs, NEW u \in Users, DelUser(j, u) PROVE RevokeInv'
  <2>1. config'.users = config.users \ {u}
    BY <1>6, ConfigAssumption DEF DelUser, RevokeInv, TypeOK, AllConfigs
  <2>2. QED
    BY <1>1, <1>6, <2>1, RevokeBegin DEF DelUser
<1>7. ASSUME NEW j \in Jobs,
             Return(j, FALSE), UNCHANGED <<config, toml, endpoint>>
      PROVE  RevokeInv'
  <2>1. \A u \in Users : revoked[u] = "done" => Gone(u)
    BY DEF RevokeInv
  <2>2. QED
    BY <1>1, <1>7, <2>1, RevokeReturn DEF Gone
<1>8. ASSUME NEW j \in Jobs, Materialize(j) PROVE RevokeInv'
  BY <1>1, <1>7, <1>8, RevokeGoto DEF Materialize, xml, disk, Steps, Rendered
<1>9. ASSUME NEW j \in Jobs, WriteCert(j) \/ WriteKey(j) PROVE RevokeInv'
  BY <1>1, <1>9, RevokeGoto DEF WriteCert, WriteKey, xml, Steps, Rendered
<1>10. ASSUME NEW j \in Jobs, Render(j) PROVE RevokeInv'
  <2>1. CASE Accepts(config)
    <3>1. seen'[j] = config
      BY <1>10, <2>1 DEF Render, RevokeInv, TypeOK
    <3>2. QED
      BY <1>1, <1>2, <1>10, <2>1, <3>1, RevokeGoto DEF Render, xml, disk, Steps, Rendered
  <2>2. CASE ~Accepts(config)
    BY <1>7, <1>10, <2>2 DEF Render, xml, disk
  <2>3. QED
    BY <2>1, <2>2
<1>11. ASSUME NEW j \in Jobs, WriteToml(j) PROVE RevokeInv'
  <2>1. toml'["credentials"] = IF job[j] = "credentials" THEN seen[j]
                               ELSE toml["credentials"]
    BY <1>11 DEF WriteToml, RevokeInv, TypeOK, Rendered
  <2>2. NextFile[job[j]] \in Steps \ {"idle", "start"}
        /\ (NextFile[job[j]] = "stop" <=> job[j] = "credentials")
    BY <1>11 DEF WriteToml, Rendered, NextFile, Steps
  <2>3. job[j] \notin {"idle", "stop", "start"} /\ UNCHANGED <<config, endpoint, seen>>
    BY <1>11 DEF WriteToml, Rendered, xml
  <2>4. seen[j] # Nothing
    BY <1>11 DEF WriteToml, RevokeInv
  <2>5. QED
    BY <1>1, <1>11, <2>1, <2>2, <2>3, <2>4, RevokeGoto DEF WriteToml
<1>12. ASSUME NEW j \in Jobs, StopEndpoint(j) PROVE RevokeInv'
  <2>1. CASE verb[j] = "stop"
    <3>1. \A u \in Users : user[j] # u
      BY <2>1 DEF RevokeInv, Going
    <3>2. (endpoint # Nothing) \in BOOLEAN /\ endpoint' = Nothing
          /\ UNCHANGED <<config, toml>>
      BY <1>12 DEF StopEndpoint, xml, disk
    <3>3. QED
      BY <1>1, <1>12, <2>1, <3>1, <3>2, RevokeReturn DEF StopEndpoint, RevokeInv, Gone
  <2>2. CASE verb[j] # "stop"
    BY <1>1, <1>12, <2>2, RevokeGoto DEF StopEndpoint, xml, disk, Steps, Rendered
  <2>3. QED
    BY <2>1, <2>2
<1>13. ASSUME NEW j \in Jobs, StartEndpoint(j) PROVE RevokeInv'
  <2>1. CASE endpoint = Nothing /\ RequiredFiles
    <3>1. endpoint' # Nothing => endpoint'.users = {}
            \/ (toml["credentials"] # Nothing
                /\ endpoint'.users = toml["credentials"].users)
      BY <1>13, <2>1 DEF StartEndpoint, Loadable, Loaded
    <3>2. \A u \in Users : user[j] = u \/ revoked[u] = "done" =>
            (toml["credentials"] # Nothing => u \notin toml["credentials"].users)
      BY <1>13 DEF StartEndpoint, RevokeInv, Gone, Going
    <3>3. QED
      BY <1>1, <1>13, <2>1, <3>1, <3>2, RevokeReturn DEF StartEndpoint, xml, disk
  <2>2. CASE ~(endpoint = Nothing /\ RequiredFiles)
    BY <1>7, <1>13, <2>2 DEF StartEndpoint, xml, disk
  <2>3. QED
    BY <2>1, <2>2
<1>14. ASSUME NEW j \in Jobs, Fault(j) PROVE RevokeInv'
  BY <1>7, <1>14 DEF Fault, xml, disk
<1>15. QED
  BY <1>3, <1>4, <1>5, <1>6, <1>8, <1>9, <1>10, <1>11, <1>12, <1>13, <1>14
     DEF Next, JobStep

\* RevocationEffective: with one job at a time, even one that is killed or fails to
\* write, a user whose deletion ended with OK is served no more until it is added
\* again.
THEOREM RevocationEffective ==
  ASSUME OneJob
  PROVE  Spec => []RevokedIsGone
<1>1. Init => RevokeInv
  <2>1. Init => TypeOK
    BY BoundAssumption DEF Init, TypeOK, Pems, Processes, Steps
  <2>2. QED
    BY <2>1, NothingAssumption DEF Init, RevokeInv, Rendered
<1>2. RevokeInv /\ [Next]_vars => RevokeInv'
  BY RevokeInductive
<1>3. RevokeInv => RevokedIsGone
  <2>1. RevokeInv /\ endpoint # Nothing => endpoint.users \subseteq Users
    BY DEF RevokeInv, TypeOK, Processes
  <2>2. QED
    BY <2>1 DEF RevokeInv, RevokedIsGone, Gone
<1>4. QED
  BY <1>1, <1>2, <1>3, PTL DEF Spec

-----------------------------------------------------------------------------
(* A running endpoint can be restarted, as long as a certificate is chosen.  *)
CertChosen == \A c \in Configs : c.cert # Nothing

\* What the chain holds and what a running endpoint has is never nothing.
RestartInv ==
  /\ FilesInv
  /\ \A j \in Jobs : job[j] \in {"cert", "key"} => pem[j] # Nothing
  /\ \A j \in Jobs : job[j] \in Rendered => seen[j] # Nothing
  /\ endpoint # Nothing => /\ certpem # Nothing /\ keypem # Nothing
                           /\ \A f \in Rendered : toml[f] # Nothing

LEMMA RestartInductive ==
  ASSUME Alone, CertChosen, RestartInv, [Next]_vars
  PROVE  RestartInv'
<1> USE DEF RestartInv
<1>1. FilesInv'
  BY FilesInductive
<1>2. TypeOK
  BY DEF FilesInv
<1>3. config \in Configs /\ config # Nothing /\ config.cert \in Certs
  BY <1>2, ConfigAssumption, NothingAssumption DEF TypeOK, AllConfigs, CertChosen
<1> DEFINE Step(j) == job[j] \in {"cert", "key"} => pem[j] # Nothing
           Read(j) == job[j] \in Rendered => seen[j] # Nothing
<1>4. CASE Edit \/ EditStore \/ EndpointDies \/ UNCHANGED vars
  BY <1>1, <1>4 DEF Edit, EditStore, EndpointDies, vars, xml, disk
<1>5. ASSUME NEW j \in Jobs, NEW v \in {"reconfigure", "restart", "start", "stop"},
             NEW u \in Users \cup {Nothing}, Begin(j, v, u)
      PROVE  RestartInv'
  <2>1. UNCHANGED <<disk, endpoint, pem, seen>> /\ job' = [job EXCEPT ![j] = FirstStep[v]]
    BY <1>5 DEF Begin
  <2>2. FirstStep[v] \notin {"cert", "key"} \cup Rendered
    BY DEF FirstStep, Rendered
  <2> QED  BY <1>1, <1>2, <2>1, <2>2 DEF TypeOK, disk
<1>6. ASSUME NEW j \in Jobs, NEW ok \in BOOLEAN, Return(j, ok), UNCHANGED disk,
             endpoint' \in {endpoint, Nothing}
      PROVE  RestartInv'
  <2>1. \A k \in Jobs : /\ k = j => job'[k] = "idle"
                        /\ k # j => UNCHANGED <<job[k], pem[k], seen[k]>>
    BY <1>2, <1>6 DEF Return, TypeOK
  <2> QED  BY <1>1, <1>6, <2>1 DEF disk, Rendered
<1>7. ASSUME NEW j \in Jobs, Materialize(j) PROVE RestartInv'
  <2>1. CASE store[config.cert] = 0
    BY <1>3, <1>6, <1>7, <2>1 DEF Materialize
  <2>2. CASE store[config.cert] # 0
    <3>1. <<config.cert, store[config.cert]>> # Nothing
      BY <1>2, <1>3, <2>2, BoundAssumption, NothingAssumption DEF TypeOK
    <3>2. /\ UNCHANGED <<disk, endpoint, seen>> /\ job' = [job EXCEPT ![j] = "cert"]
          /\ pem' = [pem EXCEPT ![j] = <<config.cert, store[config.cert]>>]
      BY <1>3, <1>7, <2>2, NothingAssumption DEF Materialize, Goto
    <3> QED  BY <1>1, <1>2, <3>1, <3>2 DEF TypeOK, disk, Rendered
  <2> QED  BY <2>1, <2>2
<1>8. ASSUME NEW j \in Jobs, WriteCert(j) PROVE RestartInv'
  <2>1. /\ job[j] = "cert" /\ certpem' = pem[j] /\ job' = [job EXCEPT ![j] = "key"]
        /\ UNCHANGED <<keypem, toml, endpoint, pem, seen>>
    BY <1>8 DEF WriteCert, Goto
  <2> QED  BY <1>1, <1>2, <2>1 DEF TypeOK, Rendered
<1>9. ASSUME NEW j \in Jobs, WriteKey(j) PROVE RestartInv'
  <2>1. /\ job[j] = "key" /\ keypem' = pem[j] /\ job' = [job EXCEPT ![j] = "render"]
        /\ UNCHANGED <<certpem, toml, endpoint, pem, seen>>
    BY <1>9 DEF WriteKey, Goto
  <2> QED  BY <1>1, <1>2, <2>1 DEF TypeOK, Rendered
<1>10. ASSUME NEW j \in Jobs, Render(j) PROVE RestartInv'
  <2>1. CASE Accepts(config)
    <3>1. /\ seen' = [seen EXCEPT ![j] = config] /\ job' = [job EXCEPT ![j] = "vpn"]
          /\ UNCHANGED <<disk, endpoint, pem>>
      BY <1>10, <2>1 DEF Render, Goto
    <3> QED  BY <1>1, <1>2, <1>3, <3>1 DEF TypeOK, disk, Rendered
  <2>2. CASE ~Accepts(config)
    BY <1>6, <1>10, <2>2 DEF Render
  <2> QED  BY <2>1, <2>2
<1>11. ASSUME NEW j \in Jobs, WriteToml(j) PROVE RestartInv'
  <2>1. /\ job[j] \in Rendered /\ toml' = [toml EXCEPT ![job[j]] = seen[j]]
        /\ job' = [job EXCEPT ![j] = NextFile[job[j]]]
        /\ UNCHANGED <<certpem, keypem, endpoint, pem, seen>>
    BY <1>11 DEF WriteToml, Goto
  <2>2. NextFile[job[j]] \notin {"cert", "key"}
    BY <2>1 DEF Rendered, NextFile
  <2> QED  BY <1>1, <1>2, <2>1, <2>2 DEF TypeOK
<1>12. ASSUME NEW j \in Jobs, StopEndpoint(j) PROVE RestartInv'
  <2>1. CASE verb[j] = "stop"
    BY <1>6, <1>12, <2>1 DEF StopEndpoint, disk
  <2>2. CASE verb[j] # "stop"
    <3>1. /\ endpoint' = Nothing /\ job' = [job EXCEPT ![j] = "start"]
          /\ UNCHANGED <<disk, pem, seen>>
      BY <1>12, <2>2 DEF StopEndpoint, Goto
    <3> QED  BY <1>1, <1>2, <3>1 DEF TypeOK, Rendered
  <2> QED  BY <2>1, <2>2
<1>13. ASSUME NEW j \in Jobs, StartEndpoint(j) PROVE RestartInv'
  <2>1. CASE endpoint = Nothing /\ RequiredFiles /\ Loadable
    <3>1. \A f \in Rendered : toml[f] # Nothing
      <4>1. \A k \in Jobs : job[k] = "start"
        BY <1>13 DEF Alone, StartEndpoint
      <4> QED  BY <2>1, <4>1 DEF FilesInv, SameGeneration, Writing, Rendered, RequiredFiles
    <3>2. UNCHANGED disk
      BY <1>13 DEF StartEndpoint
    <3>3. \A k \in Jobs : job'[k] = "idle"
      BY <1>2, <1>13, <2>1 DEF Alone, StartEndpoint, Return, TypeOK
    <3> QED  BY <1>1, <2>1, <3>1, <3>2, <3>3 DEF Loadable, disk, Rendered
  <2>2. CASE ~(endpoint = Nothing /\ RequiredFiles /\ Loadable)
    BY <1>6, <1>13, <2>2 DEF StartEndpoint
  <2> QED  BY <2>1, <2>2
<1>14. ASSUME NEW j \in Jobs, Fault(j) PROVE RestartInv'
  BY <1>14 DEF Alone, Fault
<1> QED
  BY <1>4, <1>5, <1>7, <1>8, <1>9, <1>10, <1>11, <1>12, <1>13, <1>14
     DEF Next, JobStep, Request, DelUser

\* StaysRestartable: one job at a time and no fault, a running endpoint finds, as
\* long as a certificate stays chosen, files it can be restarted with.
THEOREM StaysRestartable ==
  ASSUME Alone, CertChosen
  PROVE  Spec => []StillRestartable
<1>1. Init => RestartInv
  BY FilesInit DEF Init, RestartInv, Rendered
<1>2. RestartInv /\ [Next]_vars => RestartInv'
  BY RestartInductive
<1>3. RestartInv => StillRestartable
  BY DEF RestartInv, FilesInv, PairMatches, StillRestartable, RequiredFiles, Loadable,
         Rendered
<1>4. QED
  BY <1>1, <1>2, <1>3, PTL DEF Spec

-----------------------------------------------------------------------------
(* What an undisturbed reconfigure has applied, with any number of jobs.     *)
Chosen == IF config.cert = Nothing THEN Nothing ELSE <<config.cert, store[config.cert]>>

\* How far the chain has brought the configuration as it is.
Applying(j) ==
  /\ verb[j] = "reconfigure" /\ job[j] # "idle"
  /\ \A k \in Jobs : k # j => job[k] = "idle"
  /\ job[j] \in {"cert", "key"} => pem[j] = Chosen
  /\ job[j] \notin {"materialize", "cert"} => certpem = Chosen
  /\ job[j] \notin {"materialize", "cert", "key"} => keypem = Chosen
  /\ job[j] \in Rendered => seen[j] = config
  /\ job[j] \in {"hosts", "credentials", "stop", "start"} => toml["vpn"] = config
  /\ job[j] \in {"stop", "start"} => toml["credentials"] = config

ApplyInv ==
  /\ TypeOK
  /\ calm = "running" => \E j \in Jobs : Applying(j)
  /\ calm = "applied" => \A k \in Jobs : job[k] = "idle"
  /\ AppliedIsServed

LEMMA ApplyInductive ==
  ASSUME ApplyInv, [Next]_vars
  PROVE  ApplyInv'
<1> USE DEF ApplyInv
<1>1. TypeOK'
  BY TypeInductive
<1>2. CASE Edit \/ EditStore
  BY <1>1, <1>2 DEF Edit, EditStore, AppliedIsServed
<1>3. CASE EndpointDies \/ UNCHANGED vars
  <2>1. UNCHANGED <<xml, disk, verb, job, pem, seen, calm>> /\ endpoint' \in {endpoint, Nothing}
    BY <1>3 DEF EndpointDies, vars
  <2>2. \A j \in Jobs : Applying(j) => Applying(j)'
    BY <2>1 DEF Applying, Chosen, xml, disk
  <2>3. AppliedIsServed'
    BY <2>1 DEF AppliedIsServed, xml
  <2> QED  BY <1>1, <2>1, <2>2, <2>3
<1>4. ASSUME NEW j \in Jobs, NEW v \in {"reconfigure", "restart", "start", "stop"},
             NEW u \in Users \cup {Nothing}, Begin(j, v, u)
      PROVE  ApplyInv'
  <2>1. CASE calm' = "none"
    BY <1>1, <2>1 DEF AppliedIsServed
  <2>2. CASE calm' # "none"
    <3>1. v = "reconfigure" /\ (\A k \in Jobs : job[k] = "idle") /\ calm' = "running"
      BY <1>4, <2>2 DEF Begin
    <3>2. job' = [job EXCEPT ![j] = "materialize"] /\ verb' = [verb EXCEPT ![j] = v]
      BY <1>4, <3>1 DEF Begin, FirstStep
    <3>3. Applying(j)'
      BY <3>1, <3>2 DEF TypeOK, Applying, Rendered
    <3> QED  BY <1>1, <3>1, <3>3 DEF AppliedIsServed
  <2> QED  BY <2>1, <2>2
<1>5. ASSUME NEW j \in Jobs, Return(j, FALSE), job[j] # "idle" PROVE ApplyInv'
  <2>1. calm' = "none"
    BY <1>5 DEF Return, TypeOK
  <2> QED  BY <1>1, <2>1 DEF AppliedIsServed
<1>6. ASSUME NEW j \in Jobs, NEW s, Goto(j, s), job[j] # "idle", Applying(j) => Applying(j)'
      PROVE  ApplyInv'
  <2>1. calm' = calm /\ calm # "applied"
    BY <1>6 DEF Goto
  <2>2. calm = "running" => Applying(j)
    BY <1>6 DEF Applying
  <2> QED  BY <1>1, <1>6, <2>1, <2>2 DEF AppliedIsServed
<1>7. ASSUME NEW j \in Jobs, Materialize(j) PROVE ApplyInv'
  <2>1. CASE config.cert \in Certs /\ store[config.cert] = 0
    BY <1>5, <1>7, <2>1 DEF Materialize
  <2>2. CASE ~(config.cert \in Certs /\ store[config.cert] = 0)
    <3>1. /\ Goto(j, "cert") /\ job[j] = "materialize"
          /\ pem' = [pem EXCEPT ![j] = Chosen] /\ UNCHANGED <<xml, disk, seen>>
      BY <1>7, <2>2 DEF Materialize, Chosen
    <3>2. Applying(j) => Applying(j)'
      BY <3>1 DEF Goto, TypeOK, Applying, Chosen, xml, Rendered
    <3> QED  BY <1>6, <3>1, <3>2
  <2> QED  BY <2>1, <2>2
<1>8. ASSUME NEW j \in Jobs, WriteCert(j) PROVE ApplyInv'
  <2>1. Applying(j) => Applying(j)'
    BY <1>8 DEF WriteCert, Goto, TypeOK, Applying, Chosen, xml, Rendered
  <2> QED  BY <1>6, <1>8, <2>1 DEF WriteCert
<1>9. ASSUME NEW j \in Jobs, WriteKey(j) PROVE ApplyInv'
  <2>1. Applying(j) => Applying(j)'
    BY <1>9 DEF WriteKey, Goto, TypeOK, Applying, Chosen, xml, Rendered
  <2> QED  BY <1>6, <1>9, <2>1 DEF WriteKey
<1>10. ASSUME NEW j \in Jobs, Render(j) PROVE ApplyInv'
  <2>1. CASE Accepts(config)
    <3>1. Applying(j) => Applying(j)'
      BY <1>10, <2>1 DEF Render, Goto, TypeOK, Applying, Chosen, xml, disk, Rendered
    <3> QED  BY <1>6, <1>10, <2>1, <3>1 DEF Render
  <2>2. CASE ~Accepts(config)
    BY <1>5, <1>10, <2>2 DEF Render
  <2> QED  BY <2>1, <2>2
<1>11. ASSUME NEW j \in Jobs, WriteToml(j) PROVE ApplyInv'
  <2>1. /\ Goto(j, NextFile[job[j]]) /\ job[j] \in Rendered
        /\ toml' = [toml EXCEPT ![job[j]] = seen[j]]
        /\ UNCHANGED <<xml, certpem, keypem, pem, seen>>
    BY <1>11 DEF WriteToml
  <2>2. ASSUME Applying(j) PROVE Applying(j)'
    <3>1. /\ certpem = Chosen /\ keypem = Chosen /\ seen[j] = config
          /\ verb[j] = "reconfigure" /\ \A k \in Jobs : k # j => job[k] = "idle"
          /\ job[j] \in {"hosts", "credentials"} => toml["vpn"] = config
      BY <2>1, <2>2 DEF Applying, Rendered
    <3>2. /\ verb' = verb /\ job'[j] = NextFile[job[j]] /\ seen'[j] = config
          /\ \A k \in Jobs : k # j => job'[k] = "idle"
      BY <2>1, <3>1 DEF Goto, TypeOK
    <3>3. \A f \in Rendered : toml'[f] = IF f = job[j] THEN config ELSE toml[f]
      BY <2>1, <3>1 DEF TypeOK
    <3>4. Chosen' = Chosen /\ config' = config
      BY <2>1 DEF Chosen, xml
    <3>5. CASE job[j] = "vpn"
      BY <2>1, <3>1, <3>2, <3>3, <3>4, <3>5 DEF Applying, NextFile, Rendered
    <3>6. CASE job[j] = "hosts"
      BY <2>1, <3>1, <3>2, <3>3, <3>4, <3>6 DEF Applying, NextFile, Rendered
    <3>7. CASE job[j] = "credentials"
      BY <2>1, <3>1, <3>2, <3>3, <3>4, <3>7 DEF Applying, NextFile, Rendered
    <3> QED  BY <2>1, <3>5, <3>6, <3>7 DEF Rendered
  <2>3. job[j] # "idle"
    BY <2>1 DEF Rendered
  <2> QED  BY <1>6, <2>1, <2>2, <2>3
<1>12. ASSUME NEW j \in Jobs, StopEndpoint(j) PROVE ApplyInv'
  <2>1. CASE verb[j] = "stop"
    <3>1. calm # "running"
      BY <1>12, <2>1 DEF StopEndpoint, Applying
    <3>2. calm' = "none"
      BY <1>12, <2>1, <3>1 DEF StopEndpoint, Return, TypeOK
    <3> QED  BY <1>1, <3>2 DEF AppliedIsServed
  <2>2. CASE verb[j] # "stop"
    <3>1. Applying(j) => Applying(j)'
      BY <1>12, <2>2 DEF StopEndpoint, Goto, TypeOK, Applying, Chosen, xml, disk, Rendered
    <3> QED  BY <1>6, <1>12, <2>2, <3>1 DEF StopEndpoint
  <2> QED  BY <2>1, <2>2
<1>13. ASSUME NEW j \in Jobs, StartEndpoint(j) PROVE ApplyInv'
  <2>1. CASE endpoint = Nothing /\ RequiredFiles
    <3>1. /\ Return(j, TRUE) /\ UNCHANGED <<xml, disk>> /\ job[j] = "start"
          /\ endpoint' = IF Loadable THEN Loaded ELSE Nothing
      BY <1>13, <2>1 DEF StartEndpoint
    <3>2. CASE calm = "running"
      <4>1. Applying(j)
        BY <3>1, <3>2 DEF Applying
      <4>2. /\ certpem = Chosen /\ toml["vpn"] = config /\ toml["credentials"] = config
            /\ \A k \in Jobs : k # j => job[k] = "idle"
        BY <3>1, <4>1 DEF Applying, Rendered
      <4>3. \A k \in Jobs : job'[k] = "idle"
        BY <3>1, <4>2 DEF Return, TypeOK
      <4>4. Loadable => Loaded.users = config.users
                        /\ Loaded.pem = <<config.cert, store[config.cert]>>
        BY <4>2 DEF Loadable, Loaded, Chosen
      <4>5. calm' = "applied"
        BY <3>1, <3>2 DEF Return
      <4> QED  BY <1>1, <3>1, <4>3, <4>4, <4>5 DEF AppliedIsServed, xml
    <3>3. CASE calm # "running"
      <4>1. calm' = "none"
        BY <3>1, <3>3 DEF Return, TypeOK
      <4> QED  BY <1>1, <4>1 DEF AppliedIsServed
    <3> QED  BY <3>2, <3>3
  <2>2. CASE ~(endpoint = Nothing /\ RequiredFiles)
    BY <1>5, <1>13, <2>2 DEF StartEndpoint
  <2> QED  BY <2>1, <2>2
<1>14. ASSUME NEW j \in Jobs, Fault(j) PROVE ApplyInv'
  BY <1>5, <1>14 DEF Fault
<1> QED
  BY <1>2, <1>3, <1>4, <1>7, <1>8, <1>9, <1>10, <1>11, <1>12, <1>13, <1>14
     DEF Next, JobStep, Request, DelUser

\* AppliedEffective: whatever files earlier faults and overlapping jobs have left,
\* an undisturbed reconfigure that said OK has left no process that serves anything
\* but the configuration as it is.
THEOREM AppliedEffective == Spec => []AppliedIsServed
<1>1. Init => ApplyInv
  <2>1. Init => TypeOK
    BY BoundAssumption DEF Init, TypeOK, Pems, Processes, Steps
  <2> QED  BY <2>1 DEF Init, ApplyInv, AppliedIsServed
<1>2. ApplyInv /\ [Next]_vars => ApplyInv'
  BY ApplyInductive
<1>3. ApplyInv => AppliedIsServed
  BY DEF ApplyInv
<1>4. QED
  BY <1>1, <1>2, <1>3, PTL DEF Spec
=============================================================================

---------------------------- MODULE EndpointApply ----------------------------
(***************************************************************************)
(* From config.xml to a serving endpoint.  A reconfigure is the chain      *)
(*   materialize_certs.php && render_server_config.py && onerestart        *)
(* run by configd for the Apply button, for a user's deletion, for the     *)
(* service API and for the boot hook; each link reads config.xml for       *)
(* itself, so edits and other jobs fall between the links and between the  *)
(* files a link writes.                                                    *)
(*                                                                         *)
(* A configuration is abstracted to what decides the outcome: the users,   *)
(* the certificate chosen, and whether the renderer accepts the rest (the  *)
(* listen address, the protocols, allowed_sni, every user's password).     *)
(* Each file is replaced in one step: that is AtomicWrite's subject.       *)
(* rules.toml is left out, its text is the same in every render.           *)
(***************************************************************************)
EXTENDS Naturals, FiniteSets

CONSTANTS Users,
          Certs,      \* entries of the trust store
          Configs,    \* what config.xml may be edited to
          Jobs,       \* configd threads at work at once
          Nothing,    \* no certificate chosen; no file; no process; no user
          Faults,     \* BOOLEAN: a write may fail, a job may be killed
          MaxVersion, \* bound on renewals of a certificate
          StoreEdits  \* BOOLEAN: certificates may be renewed and deleted

AllConfigs == [users : SUBSET Users, cert : Certs \cup {Nothing}, ok : BOOLEAN]
ASSUME ConfigAssumption ==
         /\ Configs \subseteq AllConfigs
         /\ \A c \in Configs, u \in Users :
              [c EXCEPT !.users = @ \ {u}] \in Configs
ASSUME BoundAssumption == MaxVersion \in Nat \ {0}
                          /\ {Faults, StoreEdits} \subseteq BOOLEAN
ASSUME NothingAssumption ==
         Nothing \notin Certs \cup Users \cup AllConfigs \cup (Certs \X (1..MaxVersion))

VARIABLES config,     \* config.xml
          store,      \* version of each certificate, 0 once deleted
          certpem, keypem,  \* which certificate and version each file is of
          toml,       \* the configuration each TOML file was rendered from
          endpoint,   \* what the running process has loaded, or Nothing
          verb, user, \* per job: its action, and the user its answer will
                      \* report as deleted
          job,        \* per job: the next link of the chain
          pem,        \* per job: what materialize_certs.php will write
          seen,       \* per job: config.xml as render_server_config.py read it
          revoked,    \* history: how the deletion of each user ended, until
                      \* it is added again
          calm        \* history: the state of the last undisturbed reconfigure

disk == <<certpem, keypem, toml>>
xml == <<config, store>>
vars == <<xml, disk, endpoint, verb, user, job, pem, seen, revoked, calm>>

Pems == (Certs \X (1..MaxVersion)) \cup {Nothing}
Rendered == {"vpn", "hosts", "credentials"}
Steps == {"idle", "materialize", "cert", "key", "render", "vpn", "hosts",
          "credentials", "stop", "start"}
Processes == [users : SUBSET Users, pem : Pems \ {Nothing}] \cup {Nothing}

TypeOK == /\ config \in Configs
          /\ store \in [Certs -> 0..MaxVersion]
          /\ certpem \in Pems /\ keypem \in Pems
          /\ toml \in [Rendered -> Configs \cup {Nothing}]
          /\ endpoint \in Processes
          /\ verb \in [Jobs -> {"none", "reconfigure", "restart", "start", "stop"}]
          /\ user \in [Jobs -> Users \cup {Nothing}]
          /\ job \in [Jobs -> Steps]
          /\ pem \in [Jobs -> Pems]
          /\ seen \in [Jobs -> Configs \cup {Nothing}]
          /\ revoked \in [Users -> {"no", "reported", "done"}]
          /\ calm \in {"none", "running", "applied"}

Init == /\ config \in Configs
        /\ store = [c \in Certs |-> 1]
        /\ certpem = Nothing /\ keypem = Nothing
        /\ toml = [f \in Rendered |-> Nothing]
        /\ endpoint = Nothing
        /\ verb = [j \in Jobs |-> "none"]
        /\ user = [j \in Jobs |-> Nothing]
        /\ job = [j \in Jobs |-> "idle"]
        /\ pem = [j \in Jobs |-> Nothing]
        /\ seen = [j \in Jobs |-> Nothing]
        /\ revoked = [u \in Users |-> "no"]
        /\ calm = "none"

-----------------------------------------------------------------------------
(* The GUI, the API and the trust store.                                   *)

\* server/set, addUser, setUser (which may rename), a restored backup: saved,
\* nothing else.  Adding a user again takes back its revocation.
Edit == /\ \E c \in Configs \ {config} :
             /\ config' = c
             /\ revoked' = [u \in Users |-> IF u \in c.users THEN "no" ELSE revoked[u]]
             /\ user' = [j \in Jobs |-> IF user[j] \in c.users THEN Nothing ELSE user[j]]
        /\ calm' = "none"
        /\ UNCHANGED <<store, disk, endpoint, verb, job, pem, seen>>

\* System: Trust: a certificate is renewed in place, or deleted.
EditStore == /\ StoreEdits
             /\ \E c \in Certs :
                  /\ store[c] # 0
                  /\ \E v \in {0} \cup {n \in 1..MaxVersion : n = store[c] + 1} :
                       store' = [store EXCEPT ![c] = v]
             /\ calm' = "none"
             /\ UNCHANGED <<config, disk, endpoint, verb, user, job, pem, seen, revoked>>

FirstStep == [reconfigure |-> "materialize", restart |-> "stop",
              start |-> "start", stop |-> "stop"]

Begin(j, v, u) ==
  /\ job[j] = "idle"
  /\ verb' = [verb EXCEPT ![j] = v]
  /\ user' = [user EXCEPT ![j] = u]
  /\ job' = [job EXCEPT ![j] = FirstStep[v]]
  /\ calm' = IF v = "reconfigure" /\ \A k \in Jobs : job[k] = "idle"
             THEN "running" ELSE "none"
  /\ UNCHANGED <<store, disk, endpoint, pem, seen>>

\* The service API, the Apply button and the hooks.
Request(j, v) == Begin(j, v, Nothing) /\ UNCHANGED <<config, revoked>>

\* Mutant of DelUser: the endpoint is restarted, nothing is rendered.
DelUserRestarts(j, u) == /\ u \in config.users
                         /\ config' = [config EXCEPT !.users = @ \ {u}]
                         /\ Begin(j, "restart", u)
                         /\ UNCHANGED revoked

\* delUserAction: the user is deleted and saved, then the chain is run.
DelUser(j, u) == /\ u \in config.users
                 /\ config' = [config EXCEPT !.users = @ \ {u}]
                 /\ Begin(j, "reconfigure", u)
                 /\ UNCHANGED revoked

\* The chain ends, with OK or without; delUserAction does not look: it answers
\* deleted and reconfigured in either case.
Return(j, ok) ==
  /\ job' = [job EXCEPT ![j] = "idle"]
  /\ verb' = [verb EXCEPT ![j] = "none"]
  /\ user' = [user EXCEPT ![j] = Nothing]
  /\ pem' = [pem EXCEPT ![j] = Nothing]
  /\ seen' = [seen EXCEPT ![j] = Nothing]
  /\ revoked' = [u \in Users |-> IF user[j] # u THEN revoked[u]
                                 ELSE IF ok THEN "done" ELSE "reported"]
  /\ calm' = IF calm = "running" THEN (IF ok THEN "applied" ELSE "none") ELSE calm

Goto(j, step) == /\ job' = [job EXCEPT ![j] = step]
                 /\ UNCHANGED <<verb, user, revoked, calm>>

-----------------------------------------------------------------------------
(* materialize_certs.php.                                                  *)

\* Mutants of Materialize: files that are there are kept; a certificate that is
\* gone is treated as none chosen, or written with what is left of it.
MaterializeOnce(j) ==
  /\ job[j] = "materialize"
  /\ IF config.cert \in Certs /\ store[config.cert] = 0
     THEN Return(j, FALSE)
     ELSE /\ pem' = [pem EXCEPT ![j] = IF config.cert = Nothing THEN Nothing
                                       ELSE <<config.cert, store[config.cert]>>]
          /\ Goto(j, IF config.cert # Nothing /\ certpem # Nothing THEN "render"
                     ELSE "cert")
          /\ UNCHANGED seen
  /\ UNCHANGED <<xml, disk, endpoint>>

MaterializeGone(j) ==
  /\ job[j] = "materialize"
  /\ pem' = [pem EXCEPT ![j] = IF config.cert = Nothing \/ store[config.cert] = 0
                               THEN Nothing ELSE <<config.cert, store[config.cert]>>]
  /\ Goto(j, "cert")
  /\ UNCHANGED <<xml, disk, endpoint, seen>>

MaterializeUnchecked(j) ==
  /\ job[j] = "materialize"
  /\ pem' = [pem EXCEPT ![j] = IF config.cert = Nothing THEN Nothing
                               ELSE <<config.cert, store[config.cert]>>]
  /\ Goto(j, "cert")
  /\ UNCHANGED <<xml, disk, endpoint, seen>>

\* It refuses a certificate that is no longer in the trust store; with none
\* chosen it goes on to remove both files.
Materialize(j) ==
  /\ job[j] = "materialize"
  /\ IF config.cert \in Certs /\ store[config.cert] = 0
     THEN Return(j, FALSE)
     ELSE /\ pem' = [pem EXCEPT ![j] = IF config.cert = Nothing THEN Nothing
                                       ELSE <<config.cert, store[config.cert]>>]
          /\ Goto(j, "cert")
          /\ UNCHANGED seen
  /\ UNCHANGED <<xml, disk, endpoint>>

WriteCert(j) == /\ job[j] = "cert"
                /\ certpem' = pem[j]
                /\ Goto(j, "key")
                /\ UNCHANGED <<xml, keypem, toml, endpoint, pem, seen>>

\* Mutant of WriteKey: a key that is there is kept.
WriteKeyOnce(j) == /\ job[j] = "key"
                   /\ keypem' = IF keypem = Nothing THEN pem[j] ELSE keypem
                   /\ Goto(j, "render")
                   /\ UNCHANGED <<xml, certpem, toml, endpoint, pem, seen>>

WriteKey(j) == /\ job[j] = "key"
               /\ keypem' = pem[j]
               /\ Goto(j, "render")
               /\ UNCHANGED <<xml, certpem, toml, endpoint, pem, seen>>

-----------------------------------------------------------------------------
(* render_server_config.py.                                                *)

\* Everything is rendered, hence validated, before anything is written.
Accepts(c) == /\ c.ok
              /\ c.cert # Nothing => certpem # Nothing /\ keypem # Nothing

Render(j) ==
  /\ job[j] = "render"
  /\ IF Accepts(config)
     THEN /\ seen' = [seen EXCEPT ![j] = config]
          /\ Goto(j, "vpn")
          /\ UNCHANGED pem
     ELSE Return(j, FALSE)
  /\ UNCHANGED <<xml, disk, endpoint>>

NextFile == [vpn |-> "hosts", hosts |-> "credentials", credentials |-> "stop"]

\* Mutant of WriteToml: config.xml is read again for every file.
WriteTomlAfresh(j) ==
  /\ job[j] \in Rendered
  /\ toml' = [toml EXCEPT ![job[j]] = config]
  /\ Goto(j, NextFile[job[j]])
  /\ UNCHANGED <<xml, certpem, keypem, endpoint, pem, seen>>

WriteToml(j) ==
  /\ job[j] \in Rendered
  /\ toml' = [toml EXCEPT ![job[j]] = seen[j]]
  /\ Goto(j, NextFile[job[j]])
  /\ UNCHANGED <<xml, certpem, keypem, endpoint, pem, seen>>

\* A write raises, or the link at work is killed: the chain ends here.
Fault(j) == /\ Faults
            /\ job[j] # "idle"
            /\ Return(j, FALSE)
            /\ UNCHANGED <<xml, disk, endpoint>>

-----------------------------------------------------------------------------
(* rc.d/trusttunnel_endpoint.                                              *)

StopEndpoint(j) ==
  /\ job[j] = "stop"
  /\ endpoint' = Nothing
  /\ IF verb[j] = "stop" THEN Return(j, endpoint # Nothing)
     ELSE Goto(j, "start") /\ UNCHANGED <<pem, seen>>
  /\ UNCHANGED <<xml, disk>>

\* The process reads its files once; it dies at once on a missing file or on a
\* key that is not the certificate's.  daemon(8) without -r does not notice.
Loadable == /\ certpem # Nothing
            /\ certpem = keypem
            /\ \/ toml["vpn"].users = {}      \* no credentials_file then
               \/ toml["credentials"] # Nothing

Loaded == [users |-> IF toml["vpn"].users = {} THEN {}
                     ELSE toml["credentials"].users,
           pem   |-> certpem]

RequiredFiles == toml["vpn"] # Nothing /\ toml["hosts"] # Nothing

StartEndpoint(j) ==
  /\ job[j] = "start"
  /\ IF endpoint = Nothing /\ RequiredFiles
     THEN /\ endpoint' = IF Loadable THEN Loaded ELSE Nothing
          /\ Return(j, TRUE)
     ELSE UNCHANGED endpoint /\ Return(j, FALSE)
  /\ UNCHANGED <<xml, disk>>

EndpointDies == /\ endpoint # Nothing
                /\ endpoint' = Nothing
                /\ UNCHANGED <<xml, disk, verb, user, job, pem, seen, revoked, calm>>

JobStep(j) == \/ Materialize(j) \/ WriteCert(j) \/ WriteKey(j) \/ Render(j)
              \/ WriteToml(j) \/ StopEndpoint(j) \/ StartEndpoint(j)

Next == \/ Edit \/ EditStore
        \/ \E j \in Jobs : \/ \E v \in {"reconfigure", "restart", "start", "stop"} :
                                Request(j, v)
                           \/ \E u \in Users : DelUser(j, u)
                           \/ JobStep(j)
                           \/ Fault(j)
        \/ EndpointDies

Spec == Init /\ [][Next]_vars

-----------------------------------------------------------------------------
\* Between runs of the chain the TOML files are all of one configuration: a
\* render that is refused replaces none of them (the test
\* test_invalid_allowed_sni_does_not_partially_replace_outputs).
Writing == \E j \in Jobs : job[j] \in {"hosts", "credentials"}
SameGeneration == ~Writing => \A f, g \in Rendered : toml[f] = toml[g]

\* Except between its two writes the key on disk is the certificate's.
PairMatches == (\A j \in Jobs : job[j] # "key") => certpem = keypem

\* An undisturbed reconfigure that said OK, up to the next edit, leaves no
\* process that serves anything but the configuration as it is.
AppliedIsServed ==
  calm = "applied" /\ endpoint # Nothing =>
    /\ endpoint.users = config.users
    /\ endpoint.pem = <<config.cert, store[config.cert]>>

\* As long as a certificate stays chosen, refused reconfigures never take from a
\* running endpoint the files it needs to be restarted or rebooted.
StillRestartable ==
  endpoint # Nothing /\ (\A j \in Jobs : job[j] # "key") => RequiredFiles /\ Loadable

\* A user is served no more once the chain of its deletion has ended with OK,
\* through all later edits, refusals, faults and deaths.
RevokedIsGone == endpoint # Nothing =>
                   \A u \in endpoint.users : revoked[u] # "done"

\* A user is served no more once its deletion was answered: "Any connected client
\* using this account will be disconnected on next handshake" (server.volt).
RevocationHolds == endpoint # Nothing =>
                     \A u \in endpoint.users : revoked[u] = "no"
=============================================================================

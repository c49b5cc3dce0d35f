----------------------------- MODULE FreeBsdTun -----------------------------
(***************************************************************************)
(* The FreeBSD tun(4) backend that the port overlay adds to the client:    *)
(* net/src/os_tunnel_freebsd.cpp, as carried by the overlay's patch.  One  *)
(* client process opens a tun device, configures it, adds its managed      *)
(* routes, and undoes that on stop or on failure, one system call or       *)
(* command at a time, while other tools create and destroy interfaces and  *)
(* routes of the same kernel.                                              *)
(*                                                                         *)
(* The kernel side (devfs cloning, exclusive open, routes, ifconfig) is    *)
(* external: modelled from how the backend uses it.                        *)
(***************************************************************************)
EXTENDS Naturals, Sequences

CONSTANTS Tuns,       \* interface names of the form tun<N>
          Malformed,  \* other strings a device_name may be
          NoTun,      \* the empty name; no descriptor; a route via no tun
          Routes,     \* destination networks
          Settings,   \* the settings the client may be started with
          Existing,   \* names the operator may have created beforehand
          Failures,   \* the system calls and commands that may fail
          Foreign,    \* names other tools may create while the client runs
          Crashes     \* the process may be killed without its teardown

AllSettings == [attach : BOOLEAN,                        \* use_existing
                name   : Tuns \cup Malformed \cup {NoTun},  \* device_name
                routes : Seq(Routes)]                    \* get_setup_routes()
Calls == {"open", "ioctl", "index", "setup", "add", "delete", "destroy",
          "hang"}  \* of the destroy command, which the kernel may not finish

ASSUME TunAssumption == NoTun \notin Tuns /\ Malformed \cap Tuns = {}
                        /\ NoTun \notin Malformed
ASSUME SettingsAssumption == Settings \subseteq AllSettings
ASSUME BoundAssumption == /\ Failures \subseteq Calls
                          /\ Foreign \subseteq Tuns
                          /\ Existing \subseteq Tuns
                          /\ Crashes \in BOOLEAN

VARIABLES iface,     \* who created the interface of each name, if any
          holder,    \* which process has each device open
          route,     \* the kernel's route to each destination
          pc, settings,
          dev,       \* tun_open's local fd
          fd,        \* m_tun_fd
          name,      \* m_tun_name
          owned,     \* m_owned
          recorded,  \* m_ipv4_routes
          pending,   \* routes setup_routes has still to add
          active,    \* mark_tunnel_active / clear_tunnel_active
          spoilt     \* history: a kill, or a failure that the code does not undo

kernel == <<iface, holder, route>>
members == <<fd, name, owned, recorded, active, spoilt>>
process == <<pc, settings, dev, pending, members>>
vars == <<kernel, process>>

NoRoute == [via |-> NoTun, by |-> "none"]
Handles == Tuns \cup {NoTun}

\* Types; from tun_open on, m_tun_fd is the device that m_tun_name names.
TypeOK ==
  /\ iface \in [Tuns -> {"absent", "client", "other"}]
  /\ holder \in [Tuns -> {"none", "client", "other"}]
  /\ route \in [Routes -> [via : Handles, by : {"none", "client", "other"}]]
  /\ pc \in {"down", "check", "open", "head", "ifname", "index", "setup",
             "routes", "up", "undo", "close", "destroy", "hung", "exit"}
  /\ settings \in Settings
  /\ dev \in Handles /\ fd \in Handles /\ name \in Handles
  /\ owned \in BOOLEAN /\ active \in BOOLEAN /\ spoilt \in BOOLEAN
  /\ recorded \in Seq(Routes) /\ pending \in Seq(Routes)
  /\ pc \in {"head", "ifname"} => dev \in Tuns
  /\ pc \in {"index", "setup", "routes", "up", "undo", "close"} =>
       fd \in Tuns /\ name = fd

\* The operator's own interfaces and routes may be there before the client is.
Init == /\ iface \in {f \in [Tuns -> {"absent", "other"}] :
                       \A n \in Tuns \ Existing : f[n] = "absent"}
        /\ holder = [n \in Tuns |-> "none"]
        /\ route \in [Routes -> {NoRoute, [via |-> NoTun, by |-> "other"]}]
        /\ settings \in Settings
        /\ pc = "down"
        /\ dev = NoTun /\ fd = NoTun /\ name = NoTun
        /\ owned = FALSE /\ active = FALSE /\ spoilt = FALSE
        /\ recorded = <<>> /\ pending = <<>>

-----------------------------------------------------------------------------
(* The kernel.                                                             *)
Purge(rt, n) == [r \in Routes |-> IF rt[r].via = n THEN NoRoute ELSE rt[r]]

\* Closing a tun brings it down; whether the kernel then keeps static routes
\* through it is left open.
CloseDevice(n) == /\ holder' = [holder EXCEPT ![n] = "none"]
                  /\ route' \in {route, Purge(route, n)}

-----------------------------------------------------------------------------
(* init(): tun_open, setup_if, setup_routes.                               *)

Start(s) == /\ pc = "down"
            /\ settings' = s
            /\ pc' = "check"
            /\ UNCHANGED <<kernel, dev, pending, members>>

\* is_valid_tun_name, and the test of the name against the interfaces there
\* are at this moment.
NameAccepted ==
  IF settings.name = NoTun THEN ~settings.attach
  ELSE /\ settings.name \in Tuns
       /\ settings.attach <=> iface[settings.name] # "absent"

CheckName == /\ pc = "check"
             /\ pc' = IF NameAccepted THEN "open" ELSE "exit"
             /\ UNCHANGED <<kernel, settings, dev, pending, members>>

\* open("/dev/tun<N>") creates the interface when it is absent at this moment
\* and takes over the one that is there otherwise; "/dev/tun" clones a new one.
\* An interface that attach mode brings into being, because it vanished after the
\* name check, is never removed.
Openable == IF settings.name = NoTun
            THEN {n \in Tuns : iface[n] = "absent"}
            ELSE {n \in {settings.name} : holder[n] = "none"}

OpenDevice ==
  /\ pc = "open"
  /\ \E n \in Openable :
       /\ iface' = [iface EXCEPT ![n] = IF @ = "absent" THEN "client" ELSE @]
       /\ holder' = [holder EXCEPT ![n] = "client"]
       /\ dev' = n
       /\ spoilt' = (spoilt \/ (settings.attach /\ iface[n] = "absent"))
  /\ pc' = "head"
  /\ UNCHANGED <<route, settings, pending, fd, name, owned, recorded, active>>

OpenFails == /\ pc = "open"
             /\ Openable = {} \/ "open" \in Failures
             /\ pc' = "exit"
             /\ UNCHANGED <<kernel, settings, dev, pending, members>>

\* TUNSIFHEAD.
SetHead == /\ pc = "head"
           /\ pc' = "ifname"
           /\ UNCHANGED <<kernel, settings, dev, pending, members>>

\* Either ioctl fails: close(fd) and nothing else.
IoctlFails == /\ pc \in {"head", "ifname"}
              /\ "ioctl" \in Failures
              /\ CloseDevice(dev)
              /\ dev' = NoTun
              /\ pc' = "exit"
              /\ spoilt' = TRUE
              /\ UNCHANGED <<iface, settings, pending, fd, name, owned, recorded, active>>

\* Mutant of GetName: m_owned does not depend on use_existing.
GetNameOwnsAll == /\ pc = "ifname"
                  /\ fd' = dev
                  /\ name' = dev
                  /\ owned' = TRUE
                  /\ dev' = NoTun
                  /\ pc' = "index"
                  /\ UNCHANGED <<kernel, settings, pending, recorded, active, spoilt>>

\* Mutant of GetName: m_tun_name is what was asked for, not what the kernel chose.
GetNameAsked == /\ pc = "ifname"
                /\ fd' = dev
                /\ name' = settings.name
                /\ owned' = ~settings.attach
                /\ dev' = NoTun
                /\ pc' = "index"
                /\ UNCHANGED <<kernel, settings, pending, recorded, active, spoilt>>

\* TUNGIFNAME, then the members are set.
GetName == /\ pc = "ifname"
           /\ fd' = dev
           /\ name' = dev
           /\ owned' = ~settings.attach
           /\ dev' = NoTun
           /\ pc' = "index"
           /\ UNCHANGED <<kernel, settings, pending, recorded, active, spoilt>>

GetIndex == /\ pc = "index"
            /\ pc' = "setup"
            /\ UNCHANGED <<kernel, settings, dev, pending, members>>

\* if_nametoindex fails: the descriptor is closed, m_owned and m_tun_name stay.
IndexFails == /\ pc = "index"
              /\ "index" \in Failures
              /\ CloseDevice(fd)
              /\ fd' = NoTun
              /\ pc' = "exit"
              /\ spoilt' = TRUE
              /\ UNCHANGED <<iface, settings, dev, pending, name, owned, recorded, active>>

\* setup_if is a no-op for an attached interface.
SetupIf == /\ pc = "setup"
           /\ active' = TRUE
           /\ pending' = settings.routes
           /\ pc' = "routes"
           /\ UNCHANGED <<kernel, settings, dev, fd, name, owned, recorded, spoilt>>

\* Mutant of SetupFails: init returns without deinit.
SetupFailsBare == /\ pc = "setup"
                  /\ ~settings.attach
                  /\ "setup" \in Failures
                  /\ pc' = "exit"
                  /\ UNCHANGED <<kernel, settings, dev, pending, members>>

SetupFails == /\ pc = "setup"
              /\ ~settings.attach
              /\ "setup" \in Failures
              /\ pc' = "undo"
              /\ UNCHANGED <<kernel, settings, dev, pending, members>>

\* Mutant of AddRoute: the route is not put on the list of those to remove.
AddRouteForgets == /\ pc = "routes"
                   /\ pending # <<>>
                   /\ LET r == Head(pending) IN
                        /\ route[r] = NoRoute
                        /\ route' = [route EXCEPT ![r] = [via |-> name, by |-> "client"]]
                   /\ pending' = Tail(pending)
                   /\ UNCHANGED <<iface, holder, pc, settings, dev, members>>

\* "route add -net r -interface name" is refused when there is a route to r.
AddRoute == /\ pc = "routes"
            /\ pending # <<>>
            /\ LET r == Head(pending) IN
                 /\ route[r] = NoRoute
                 /\ route' = [route EXCEPT ![r] = [via |-> name, by |-> "client"]]
                 /\ recorded' = Append(recorded, r)
            /\ pending' = Tail(pending)
            /\ UNCHANGED <<iface, holder, pc, settings, dev, fd, name, owned, active, spoilt>>

\* Mutant of AddFails: the route is recorded before the command is known to work.
AddFailsRecorded == /\ pc = "routes"
                    /\ pending # <<>>
                    /\ route[Head(pending)] # NoRoute \/ "add" \in Failures
                    /\ recorded' = Append(recorded, Head(pending))
                    /\ pc' = "undo"
                    /\ UNCHANGED <<kernel, settings, dev, pending, fd, name, owned, active, spoilt>>

AddFails == /\ pc = "routes"
            /\ pending # <<>>
            /\ route[Head(pending)] # NoRoute \/ "add" \in Failures
            /\ pc' = "undo"
            /\ UNCHANGED <<kernel, settings, dev, pending, members>>

RoutesDone == /\ pc = "routes"
              /\ pending = <<>>
              /\ pc' = "up"
              /\ UNCHANGED <<kernel, settings, dev, pending, members>>

-----------------------------------------------------------------------------
(* deinit(): teardown_routes, close, destroy.                              *)

Stop == /\ pc = "up"
        /\ pc' = "undo"
        /\ UNCHANGED <<kernel, settings, dev, pending, members>>

\* Mutant of DeleteRoute: the route is not taken off the list.
DeleteRouteRetries ==
  /\ pc = "undo"
  /\ recorded # <<>>
  /\ LET r == recorded[Len(recorded)] IN
       route' = [route EXCEPT ![r] = NoRoute]
  /\ UNCHANGED <<iface, holder, pc, settings, dev, fd, name, owned, recorded, pending,
                 active, spoilt>>

\* "route delete -net r -interface name", last added first; a failure is only
\* logged, and the route is forgotten.  Whether the kernel also removes a route
\* to r that goes elsewhere is left open.
DeleteRoute ==
  /\ pc = "undo"
  /\ recorded # <<>>
  /\ LET r == recorded[Len(recorded)] IN
       \/ route' = [route EXCEPT ![r] = NoRoute] /\ UNCHANGED spoilt
       \/ /\ route[r].via # name \/ "delete" \in Failures
          /\ spoilt' = TRUE
          /\ UNCHANGED route
  /\ recorded' = SubSeq(recorded, 1, Len(recorded) - 1)
  /\ UNCHANGED <<iface, holder, pc, settings, dev, fd, name, owned, pending, active>>

RoutesGone == /\ pc = "undo"
              /\ recorded = <<>>
              /\ pc' = "close"
              /\ UNCHANGED <<kernel, settings, dev, pending, members>>

CloseFd == /\ pc = "close"
           /\ CloseDevice(fd)
           /\ fd' = NoTun
           /\ pc' = "destroy"
           /\ UNCHANGED <<iface, settings, dev, pending, name, owned, recorded, active, spoilt>>

\* "ifconfig name destroy"; a device that another process holds is refused.
Destroyed(n) == /\ iface' = [iface EXCEPT ![n] = "absent"]
                /\ route' = Purge(route, n)

\* Mutant of Destroy: m_owned is not asked.
DestroyAny ==
  /\ pc = "destroy"
  /\ IF name # NoTun /\ holder[name] = "none" THEN Destroyed(name)
     ELSE UNCHANGED <<iface, route>>
  /\ owned' = FALSE
  /\ name' = NoTun
  /\ active' = FALSE
  /\ pc' = "exit"
  /\ UNCHANGED <<holder, settings, dev, fd, recorded, pending, spoilt>>

Destroy ==
  /\ pc = "destroy"
  /\ IF owned /\ holder[name] = "none"
     THEN \/ Destroyed(name) /\ UNCHANGED spoilt
          \/ "destroy" \in Failures /\ spoilt' = TRUE /\ UNCHANGED <<iface, route>>
     ELSE UNCHANGED <<iface, route, spoilt>>
  /\ owned' = FALSE
  /\ name' = NoTun
  /\ active' = FALSE
  /\ pc' = "exit"
  /\ UNCHANGED <<holder, settings, dev, fd, recorded, pending>>

\* The kernel may never finish detaching the interface: deinit waits for the
\* command, until the process is killed.
DestroyHangs == /\ pc = "destroy"
                /\ owned /\ holder[name] = "none"
                /\ "hang" \in Failures
                /\ pc' = "hung"
                /\ UNCHANGED <<kernel, settings, dev, pending, members>>

-----------------------------------------------------------------------------
\* The process is gone: its members with it, and the kernel closes what it had
\* open.  ~VpnFreeBsdTunnel is defaulted and undoes nothing.
Gone == /\ LET open == {n \in {dev, fd} : n # NoTun} IN
             IF open = {} THEN UNCHANGED <<holder, route>>
             ELSE \E n \in open : CloseDevice(n)
        /\ pc' = "down"
        /\ dev' = NoTun /\ fd' = NoTun /\ name' = NoTun
        /\ owned' = FALSE /\ active' = FALSE
        /\ recorded' = <<>> /\ pending' = <<>>
        /\ UNCHANGED <<iface, settings>>

Exit == pc = "exit" /\ Gone /\ UNCHANGED spoilt
Crash == Crashes /\ pc # "down" /\ Gone /\ spoilt' = TRUE

-----------------------------------------------------------------------------
(* Other tools touch what they made, nothing else.                         *)

OtherCreates == \E n \in Foreign :
                  /\ iface[n] = "absent"
                  /\ iface' = [iface EXCEPT ![n] = "other"]
                  /\ UNCHANGED <<holder, route>>

OtherDestroys == \E n \in Foreign :
                   /\ iface[n] = "other" /\ holder[n] = "none"
                   /\ Destroyed(n)
                   /\ UNCHANGED holder

OtherOpens == \E n \in Foreign :
                /\ iface[n] = "other" /\ holder[n] # "client"
                /\ holder' = [holder EXCEPT ![n] = IF @ = "none" THEN "other" ELSE "none"]
                /\ UNCHANGED <<iface, route>>

OtherRoutes == \E r \in Routes :
                 /\ \/ /\ route[r] = NoRoute
                       /\ \E v \in {n \in Tuns : iface[n] = "other"} \cup {NoTun} :
                            route' = [route EXCEPT ![r] = [via |-> v, by |-> "other"]]
                    \/ /\ route[r].by = "other"
                       /\ route' = [route EXCEPT ![r] = NoRoute]
                 /\ UNCHANGED <<iface, holder>>

Others == /\ OtherCreates \/ OtherDestroys \/ OtherOpens \/ OtherRoutes
          /\ UNCHANGED process

ClientStep == \/ \E s \in Settings : Start(s)
              \/ CheckName \/ OpenDevice \/ OpenFails \/ SetHead \/ IoctlFails
              \/ GetName \/ GetIndex \/ IndexFails
              \/ SetupIf \/ SetupFails \/ AddRoute \/ AddFails \/ RoutesDone
              \/ Stop \/ DeleteRoute \/ RoutesGone \/ CloseFd \/ Destroy
              \/ DestroyHangs \/ Exit \/ Crash

Next == ClientStep \/ Others

\* Once its teardown has begun the process goes on with it.  Every call and command
\* is taken to return, the destroy excepted: docs/troubleshooting.md warns that it
\* may get stuck in the kernel.
Teardown == DeleteRoute \/ RoutesGone \/ CloseFd \/ Destroy \/ DestroyHangs \/ Exit
Spec == Init /\ [][Next]_vars /\ WF_vars(Teardown)

-----------------------------------------------------------------------------
\* Ownership is never claimed for an interface somebody else made: m_owned is
\* derived from use_existing, not from whether the open created the interface.
OwnedIsOurs == owned => name \in Tuns /\ iface[name] = "client"

\* No step of the client, teardown included, makes an interface of another tool
\* disappear: the backend "deletes only the interface it created".
NoForeignDestroy ==
  [][ClientStep => \A n \in Tuns : iface[n] = "other" => iface'[n] = "other"]_vars

\* While the tunnel stands, the routes it has put into the kernel are exactly
\* those deinit would remove, at whichever point init fails.
RoutesTracked ==
  pc \in {"routes", "up", "undo"} /\ ~spoilt =>
     {r \in Routes : route[r] = [via |-> name, by |-> "client"]}
       = {recorded[i] : i \in 1..Len(recorded)}

\* The teardown removes no route that another tool put in, not even one to a
\* destination the client was told to route.
ForeignRoutesKept ==
  [][DeleteRoute => \A r \in Routes :
                      route[r].by = "other" => route'[r] = route[r]]_vars

\* When the process is gone, so is all it created, whether it was stopped or its
\* initialisation failed half-way; unless it was killed, or hit one of the
\* failures that nothing undoes: inside tun_open, of a command of deinit, or of
\* an interface to attach to that vanished.
CleanExit ==
  pc = "down" /\ ~spoilt =>
                 /\ \A n \in Tuns : iface[n] # "client" /\ holder[n] # "client"
                 /\ \A r \in Routes : route[r].by # "client"

\* A stop, and an initialisation that failed, end with the process gone, unless
\* the kernel does not return from destroying the interface.
TeardownCompletes == (pc = "undo") ~> (pc \in {"down", "hung"})
=============================================================================

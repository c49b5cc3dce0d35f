-------------------------- MODULE FreeBsdTun_proofs --------------------------
(***************************************************************************)
(* For every set of interfaces, routes and failures, with or without       *)
(* crashes: the types; that the backend cleans up after itself and leaves  *)
(* the routes of others alone; and, unless a named interface is to be      *)
(* created while other tools create interfaces, that its claim of          *)
(* ownership is right, so that it destroys nothing of anybody else.        *)
(***************************************************************************)
EXTENDS FreeBsdTun, SequenceTheorems, TLAPS

\* What tun_open has established before it fills the members in.
Opening == pc = "open" => settings.name \in Handles

TypeInv == TypeOK /\ Opening

Entry == [via : Handles, by : {"none", "client", "other"}]

LEMMA NoRouteType == NoRoute \in Entry
BY DEF NoRoute, Entry, Handles

LEMMA PurgeType ==
  ASSUME NEW n, route \in [Routes -> Entry]
  PROVE  Purge(route, n) \in [Routes -> Entry]
BY NoRouteType DEF Purge

LEMMA CloseType ==
  ASSUME NEW n, TypeOK, CloseDevice(n)
  PROVE  /\ holder' \in [Tuns -> {"none", "client", "other"}]
         /\ route' \in [Routes -> Entry]
<1>1. route \in [Routes -> Entry]  BY DEF TypeOK, Entry
<1>2. Purge(route, n) \in [Routes -> Entry]  BY <1>1, PurgeType
<1>3. route' \in [Routes -> Entry]  BY <1>1, <1>2 DEF CloseDevice
<1> QED  BY <1>3 DEF CloseDevice, TypeOK

LEMMA GoneType ==
  ASSUME TypeOK, Gone, spoilt' \in BOOLEAN
  PROVE  TypeInv'
<1>1. /\ holder' \in [Tuns -> {"none", "client", "other"}]
      /\ route' \in [Routes -> Entry]
  <2>1. CASE {n \in {dev, fd} : n # NoTun} = {}
    BY <2>1 DEF Gone, TypeOK, Entry
  <2>2. CASE {n \in {dev, fd} : n # NoTun} # {}
    <3>1. PICK n \in {m \in {dev, fd} : m # NoTun} : CloseDevice(n)
      BY <2>2 DEF Gone
    <3> QED  BY <3>1, CloseType
  <2> QED  BY <2>1, <2>2
<1>2. <<>> \in Seq(Routes)  OBVIOUS
<1> QED  BY <1>1, <1>2 DEF Gone, TypeInv, Opening, TypeOK, Handles, Entry

LEMMA TypeInit == Init => TypeInv
<1> SUFFICES ASSUME Init PROVE TypeInv
  OBVIOUS
<1>1. NoRoute \in Entry /\ [via |-> NoTun, by |-> "other"] \in Entry
  BY NoRouteType DEF Entry, Handles
<1>2. route \in [Routes -> Entry]  BY <1>1 DEF Init
<1>3. <<>> \in Seq(Routes)  OBVIOUS
<1> QED  BY <1>2, <1>3 DEF Init, TypeInv, TypeOK, Opening, Handles, Entry

LEMMA TypeClient == TypeInv /\ ClientStep => TypeInv'
<1> SUFFICES ASSUME TypeInv, ClientStep PROVE TypeInv'
  OBVIOUS
<1> USE DEF TypeInv, Opening, vars, kernel, process, members
<1>1. settings.routes \in Seq(Routes)
  BY SettingsAssumption DEF TypeOK, AllSettings
<1>2. ASSUME NEW s \in Settings, Start(s) PROVE TypeInv'
  BY <1>2 DEF Start, TypeOK
<1>3. CASE CheckName
  BY <1>3 DEF CheckName, NameAccepted, TypeOK, Handles
<1>4. CASE OpenDevice
  <2>1. Openable \subseteq Tuns
    BY <1>4 DEF OpenDevice, Openable, Handles
  <2> QED  BY <1>4, <2>1 DEF OpenDevice, TypeOK, Handles
<1>5. CASE OpenFails \/ SetHead \/ GetIndex \/ SetupFails \/ AddFails \/ RoutesDone
           \/ Stop \/ RoutesGone \/ DestroyHangs
  BY <1>5 DEF OpenFails, SetHead, GetIndex, SetupFails, AddFails, RoutesDone, Stop,
              RoutesGone, DestroyHangs, TypeOK
<1>6. CASE IoctlFails
  BY <1>6, CloseType DEF IoctlFails, TypeOK, Handles, Entry
<1>7. CASE GetName
  BY <1>7 DEF GetName, TypeOK, Handles
<1>8. CASE IndexFails \/ CloseFd
  BY <1>8, CloseType DEF IndexFails, CloseFd, TypeOK, Handles, Entry
<1>9. CASE SetupIf
  BY <1>1, <1>9 DEF SetupIf, TypeOK
<1>10. CASE AddRoute
  <2>1. Head(pending) \in Routes /\ Tail(pending) \in Seq(Routes)
    BY <1>10 DEF AddRoute, TypeOK
  <2>2. Append(recorded, Head(pending)) \in Seq(Routes)
    BY <2>1 DEF TypeOK
  <2>3. [via |-> name, by |-> "client"] \in Entry
    BY DEF TypeOK, Entry
  <2>4. route' = [route EXCEPT ![Head(pending)] = [via |-> name, by |-> "client"]]
        /\ recorded' = Append(recorded, Head(pending)) /\ pending' = Tail(pending)
    BY <1>10 DEF AddRoute
  <2>5. route' \in [Routes -> Entry]
    BY <2>1, <2>3, <2>4 DEF TypeOK, Entry
  <2> QED  BY <1>10, <2>1, <2>2, <2>4, <2>5 DEF AddRoute, TypeOK, Entry
<1>11. CASE DeleteRoute
  <2>1. SubSeq(recorded, 1, Len(recorded) - 1) \in Seq(Routes)
    BY <1>11 DEF DeleteRoute, TypeOK
  <2>2. route' \in [Routes -> Entry]
    BY <1>11, NoRouteType DEF DeleteRoute, TypeOK, Entry
  <2> QED  BY <1>11, <2>1, <2>2 DEF DeleteRoute, TypeOK, Entry
<1>12. CASE Destroy
  <2>1. Purge(route, name) \in [Routes -> Entry]
    BY PurgeType DEF TypeOK, Entry
  <2>2. route' \in [Routes -> Entry]
    BY <1>12, <2>1 DEF Destroy, Destroyed, TypeOK, Entry
  <2> QED  BY <1>12, <2>2 DEF Destroy, Destroyed, TypeOK, Handles, Entry
<1>13. CASE Exit \/ Crash
  <2>1. spoilt' \in BOOLEAN
    BY <1>13 DEF Exit, Crash, TypeOK
  <2> QED  BY <1>13, <2>1, GoneType DEF Exit, Crash
<1> QED
  BY <1>2, <1>3, <1>4, <1>5, <1>6, <1>7, <1>8, <1>9, <1>10, <1>11, <1>12, <1>13
     DEF ClientStep

LEMMA TypeOthers == TypeInv /\ Others => TypeInv'
<1> SUFFICES ASSUME TypeInv, Others PROVE TypeInv'
  OBVIOUS
<1> USE DEF TypeInv, Opening, process, members
<1>1. CASE OtherCreates  BY <1>1 DEF Others, OtherCreates, TypeOK
<1>2. CASE OtherDestroys
  <2>1. PICK n \in Foreign : Destroyed(n)  BY <1>2 DEF OtherDestroys
  <2>2. Purge(route, n) \in [Routes -> Entry]
    BY PurgeType DEF TypeOK, Entry
  <2> QED  BY <1>2, <2>1, <2>2 DEF Others, OtherDestroys, Destroyed, TypeOK, Entry
<1>3. CASE OtherOpens  BY <1>3 DEF Others, OtherOpens, TypeOK
<1>4. CASE OtherRoutes
  <2>1. \A v \in Handles : [via |-> v, by |-> "other"] \in Entry
    BY DEF Entry
  <2>2. route' \in [Routes -> Entry]
    BY <1>4, <2>1, NoRouteType DEF OtherRoutes, TypeOK, Entry, Handles
  <2> QED  BY <1>4, <2>2 DEF Others, OtherRoutes, TypeOK, Entry
<1> QED  BY <1>1, <1>2, <1>3, <1>4 DEF Others

LEMMA TypeNext == TypeInv /\ [Next]_vars => TypeInv'
<1>1. TypeInv /\ UNCHANGED vars => TypeInv'
  BY DEF TypeInv, Opening, TypeOK, vars, kernel, process, members
<1> QED  BY <1>1, TypeClient, TypeOthers DEF Next

\* Every variable keeps its type, whatever fails and whoever interferes.
THEOREM TypeCorrect == Spec => []TypeOK
<1>1. TypeInv => TypeOK  BY DEF TypeInv
<1> QED  BY <1>1, TypeInit, TypeNext, PTL DEF Spec

(***************************************************************************)
(* Ownership.                                                              *)
(***************************************************************************)
\* No configuration asks for a named interface to be created.
NoNamedCreate == \A s \in Settings : s.attach \/ s.name = NoTun

OwnInv == /\ TypeInv
          /\ OwnedIsOurs
          /\ pc \in {"head", "ifname"} /\ ~settings.attach => iface[dev] = "client"

LEMMA OwnInit == Init => OwnInv
BY TypeInit DEF Init, OwnInv, OwnedIsOurs

LEMMA OwnClient ==
  ASSUME NoNamedCreate, OwnInv, ClientStep
  PROVE  OwnInv' /\ \A n \in Tuns : iface[n] = "other" => iface'[n] = "other"
<1> USE DEF OwnInv, OwnedIsOurs, kernel, process, members
<1>1. TypeOK /\ TypeInv /\ TypeInv' /\ settings \in Settings
  BY TypeClient DEF TypeInv, TypeOK
<1>2. CASE OpenDevice
  <2>1. PICK n \in Openable :
           /\ iface' = [iface EXCEPT ![n] = IF @ = "absent" THEN "client" ELSE @]
           /\ dev' = n
    BY <1>2 DEF OpenDevice
  <2>2. n \in Tuns
    BY <1>1, <1>2, <2>1 DEF OpenDevice, Openable, TypeInv, Opening, Handles
  <2>3. ~settings.attach => iface[n] = "absent"
    BY <1>1, <2>1 DEF NoNamedCreate, Openable
  <2> QED  BY <1>1, <1>2, <2>1, <2>2, <2>3 DEF OpenDevice, TypeOK
<1>3. CASE GetName
  BY <1>1, <1>3 DEF GetName, TypeInv, Opening, TypeOK
<1>4. CASE Destroy
  BY <1>1, <1>4 DEF Destroy, Destroyed, TypeOK
<1>5. CASE Exit \/ Crash
  BY <1>1, <1>5 DEF Exit, Crash, Gone
<1>6. ASSUME NEW s \in Settings, Start(s)
      PROVE  OwnInv' /\ \A n \in Tuns : iface[n] = "other" => iface'[n] = "other"
  BY <1>1, <1>6 DEF Start
<1>7. CASE CheckName \/ OpenFails \/ SetHead \/ IoctlFails \/ GetIndex \/ IndexFails
           \/ SetupIf \/ SetupFails \/ AddRoute \/ AddFails \/ RoutesDone
           \/ Stop \/ DeleteRoute \/ RoutesGone \/ CloseFd \/ DestroyHangs
  BY <1>1, <1>7 DEF CheckName, OpenFails, SetHead, IoctlFails, GetIndex, IndexFails,
       SetupIf, SetupFails, AddRoute, AddFails, RoutesDone, Stop, DeleteRoute,
       RoutesGone, CloseFd, DestroyHangs
<1> QED  BY <1>2, <1>3, <1>4, <1>5, <1>6, <1>7 DEF ClientStep

LEMMA OwnOthers == OwnInv /\ Others => OwnInv'
<1> SUFFICES ASSUME OwnInv, Others PROVE OwnInv'
  OBVIOUS
<1>1. TypeInv' /\ TypeInv  BY TypeOthers DEF OwnInv
<1>2. \A n \in Tuns : iface[n] = "client" => iface'[n] = "client"
  BY <1>1 DEF Others, OtherCreates, OtherDestroys, OtherOpens, OtherRoutes, Destroyed,
              TypeInv, TypeOK
<1> QED
  BY <1>1, <1>2 DEF Others, OwnInv, OwnedIsOurs, TypeInv, TypeOK, process, members

LEMMA OwnNext == ASSUME NoNamedCreate PROVE OwnInv /\ [Next]_vars => OwnInv'
<1>1. OwnInv /\ UNCHANGED vars => OwnInv'
  BY TypeNext DEF OwnInv, OwnedIsOurs, vars, kernel, process, members
<1> QED  BY <1>1, OwnClient, OwnOthers DEF Next

\* m_owned is only ever set for an interface the client itself created, when
\* no named interface is to be created.
THEOREM OwnershipCorrect ==
  ASSUME NoNamedCreate
  PROVE  Spec => []OwnedIsOurs
<1>1. OwnInv => OwnedIsOurs  BY DEF OwnInv
<1> QED  BY <1>1, OwnInit, OwnNext, PTL DEF Spec

\* Under the same condition no step of the client destroys an interface of
\* another tool, through every failure and crash.
THEOREM ForeignInterfacesSafe ==
  ASSUME NoNamedCreate
  PROVE  Spec => NoForeignDestroy
<1> DEFINE Safe == \A n \in Tuns : iface[n] = "other" => iface'[n] = "other"
<1>1. OwnInv /\ [Next]_vars => [ClientStep => Safe]_vars
  BY OwnClient
<1>2. Spec => [][ClientStep => Safe]_vars
  BY <1>1, OwnInit, OwnNext, PTL DEF Spec
<1> QED  BY <1>2 DEF NoForeignDestroy

(***************************************************************************)
(* Cleaning up.  While no failure that the code does not undo has happened *)
(* (~spoilt), what the client has in the kernel is what its members say it *)
(* has, at every step of init and deinit; so it is nothing when they are   *)
(* empty.                                                                  *)
(***************************************************************************)
Standing == {"index", "setup", "routes", "up", "undo", "close"}
Routed == {"routes", "up", "undo"}

\* The client holds the device of its descriptor and no other; a device that
\* somebody else holds is of an interface that somebody else made.
Held ==
  /\ \A n \in Tuns : holder[n] = "other" => iface[n] = "other"
  /\ \A n \in Tuns : holder[n] = "client" => n = dev \/ n = fd
  /\ IF pc \in {"head", "ifname"} THEN holder[dev] = "client" ELSE dev = NoTun
  /\ IF pc \in Standing THEN fd \in Tuns /\ fd = name /\ holder[fd] = "client"
     ELSE fd = NoTun

\* An interface the client made is the one it has just opened or owns.
Ours ==
  ~spoilt => \A n \in Tuns : iface[n] = "client" =>
               \/ pc \in {"head", "ifname"} /\ n = dev /\ ~settings.attach
               \/ pc \in Standing \cup {"destroy", "hung"} /\ n = name /\ owned

\* A recorded route is the client's and recorded once; unless spoilt, every
\* route of the client is recorded.
Recorded ==
  /\ pc \notin Routed => recorded = <<>>
  /\ \A i \in 1..Len(recorded) :
       route[recorded[i]].by = "client" /\ route[recorded[i]].via = name
  /\ \A i, j \in 1..Len(recorded) : recorded[i] = recorded[j] => i = j
  /\ ~spoilt => \A r \in Routes : route[r].by = "client" =>
                  \E i \in 1..Len(recorded) : recorded[i] = r

CleanInv == TypeInv /\ Held /\ Ours /\ Recorded

LEMMA PurgedRoute ==
  ASSUME NEW rt, NEW n, NEW r \in Routes
  PROVE  /\ Purge(rt, n)[r].by # "none" => Purge(rt, n)[r] = rt[r] /\ rt[r].via # n
         /\ rt[r].via # n => Purge(rt, n)[r] = rt[r]
BY DEF Purge, NoRoute

\* What Gone does to the kernel.
LEMMA GoneKernel ==
  ASSUME TypeOK, Held, Gone
  PROVE  /\ \A n \in Tuns : holder'[n] # "client"
         /\ \A n \in Tuns : holder'[n] = "other" => holder[n] = "other"
         /\ \A r \in Routes : route'[r].by = "client" => route[r].by = "client"
<1>1. CASE {n \in {dev, fd} : n # NoTun} = {}
  <2>1. dev = NoTun /\ fd = NoTun
    BY <1>1
  <2> QED  BY <1>1, <2>1, TunAssumption DEF Gone, Held
<1>2. CASE {n \in {dev, fd} : n # NoTun} # {}
  <2>1. PICK n \in {m \in {dev, fd} : m # NoTun} : CloseDevice(n)
    BY <1>2 DEF Gone
  <2>2. \A m \in Tuns : holder[m] = "client" => m = n
    BY <2>1, TunAssumption DEF Held, Standing
  <2>3. n \in Tuns
    BY <2>1 DEF TypeOK, Handles
  <2>4. \A m \in Tuns : holder'[m] = IF m = n THEN "none" ELSE holder[m]
    BY <2>1 DEF CloseDevice, TypeOK
  <2>5. \A r \in Routes : route'[r].by = "client" => route[r].by = "client"
    BY <2>1, PurgedRoute DEF CloseDevice
  <2> QED  BY <2>2, <2>4, <2>5
<1> QED  BY <1>1, <1>2

LEMMA HeldClient == ASSUME TypeInv, Held, ClientStep PROVE Held'
<1> USE TunAssumption DEF TypeInv, Opening, Standing, kernel, process, members
<1>1. ASSUME NEW s \in Settings, Start(s) PROVE Held'
  BY <1>1 DEF Start, Held
<1>2. CASE OpenDevice
  <2>1. PICK n \in Openable :
           /\ iface' = [iface EXCEPT ![n] = IF @ = "absent" THEN "client" ELSE @]
           /\ holder' = [holder EXCEPT ![n] = "client"]
           /\ dev' = n
    BY <1>2 DEF OpenDevice
  <2>2. n \in Tuns /\ dev = NoTun /\ fd = NoTun
    BY <1>2, <2>1 DEF OpenDevice, Openable, Held, Handles
  <2>3. \A m \in Tuns : holder[m] # "client"
    BY <2>2 DEF Held
  <2>4. \A m \in Tuns : /\ holder'[m] = IF m = n THEN "client" ELSE holder[m]
                        /\ m # n => iface'[m] = iface[m]
    BY <2>1, <2>2 DEF TypeOK
  <2> QED  BY <1>2, <2>1, <2>2, <2>3, <2>4 DEF OpenDevice, Held
<1>3. CASE IoctlFails
  <2>1. \A m \in Tuns : holder'[m] = IF m = dev THEN "none" ELSE holder[m]
    BY <1>3 DEF IoctlFails, CloseDevice, TypeOK
  <2>2. fd = NoTun
    BY <1>3 DEF IoctlFails, Held
  <2> QED  BY <1>3, <2>1, <2>2 DEF IoctlFails, Held
<1>4. CASE GetName
  BY <1>4 DEF GetName, TypeOK, Held
<1>5. CASE IndexFails \/ CloseFd
  <2>1. \A m \in Tuns : holder'[m] = IF m = fd THEN "none" ELSE holder[m]
    BY <1>5 DEF IndexFails, CloseFd, CloseDevice, TypeOK
  <2>2. dev = NoTun
    BY <1>5 DEF IndexFails, CloseFd, Held
  <2> QED  BY <1>5, <2>1, <2>2 DEF IndexFails, CloseFd, Held
<1>6. CASE Destroy
  <2>1. \A m \in Tuns : holder[m] # "none" => iface'[m] = iface[m]
    BY <1>6 DEF Destroy, Destroyed, TypeOK
  <2> QED  BY <1>6, <2>1 DEF Destroy, Held
<1>7. CASE Exit \/ Crash
  <2>1. Gone
    BY <1>7 DEF Exit, Crash
  <2> QED  BY <2>1, GoneKernel DEF Held, Gone
<1>8. CASE CheckName \/ OpenFails \/ SetHead \/ GetIndex
  BY <1>8 DEF CheckName, OpenFails, SetHead, GetIndex, Held
<1>9. CASE SetupIf \/ SetupFails \/ AddRoute \/ AddFails \/ RoutesDone \/ Stop
           \/ DeleteRoute \/ RoutesGone \/ DestroyHangs
  BY <1>9 DEF SetupIf, SetupFails, AddRoute, AddFails, RoutesDone, Stop, DeleteRoute,
              RoutesGone, DestroyHangs, Held
<1> QED
  BY <1>1, <1>2, <1>3, <1>4, <1>5, <1>6, <1>7, <1>8, <1>9 DEF ClientStep

\* Other tools leave the client's devices, interfaces and routes alone.
LEMMA OthersKernel ==
  ASSUME TypeOK, Held, Others
  PROVE  /\ \A n \in Tuns : holder'[n] = "client" <=> holder[n] = "client"
         /\ \A n \in Tuns : holder'[n] = "other" => iface'[n] = "other"
         /\ \A n \in Tuns : iface'[n] = "client" <=> iface[n] = "client"
         /\ \A r \in Routes : route'[r].by = "client" =>
              route[r].by = "client" /\ route'[r] = route[r]
         /\ \A r \in Routes :
              route[r].by = "client" /\ pc \in Standing /\ route[r].via = fd
                => route'[r] = route[r]
<1> USE BoundAssumption
<1>1. CASE OtherCreates
  BY <1>1 DEF Others, OtherCreates, TypeOK, Held
<1>2. CASE OtherDestroys
  <2>1. PICK n \in Foreign : iface[n] = "other" /\ holder[n] = "none" /\ Destroyed(n)
    BY <1>2 DEF OtherDestroys
  <2>2. \A m \in Tuns : iface'[m] = IF m = n THEN "absent" ELSE iface[m]
    BY <2>1 DEF Destroyed, TypeOK
  <2>3. pc \in Standing => fd # n
    BY <2>1 DEF Held
  <2>4. \A r \in Routes : /\ route'[r].by = "client" =>
                               route[r].by = "client" /\ route'[r] = route[r]
                          /\ route[r].via # n => route'[r] = route[r]
    BY <2>1, PurgedRoute DEF Destroyed
  <2> QED  BY <1>2, <2>1, <2>2, <2>3, <2>4 DEF OtherDestroys, Held
<1>3. CASE OtherOpens
  <2>1. PICK n \in Foreign :
           /\ iface[n] = "other" /\ holder[n] # "client"
           /\ holder' = [holder EXCEPT ![n] = IF @ = "none" THEN "other" ELSE "none"]
    BY <1>3 DEF OtherOpens
  <2>2. n \in Tuns /\ \A m \in Tuns :
           holder'[m] = IF m = n THEN (IF holder[m] = "none" THEN "other" ELSE "none")
                        ELSE holder[m]
    BY <2>1 DEF TypeOK
  <2> QED  BY <1>3, <2>1, <2>2 DEF OtherOpens, Held
<1>4. CASE OtherRoutes
  <2>1. PICK r \in Routes :
           /\ route[r].by # "client"
           /\ \A q \in Routes \ {r} : route'[q] = route[q]
           /\ route'[r].by # "client"
    BY <1>4 DEF OtherRoutes, NoRoute, TypeOK
  <2> QED  BY <1>4, <2>1 DEF OtherRoutes, Held
<1> QED  BY <1>1, <1>2, <1>3, <1>4 DEF Others

LEMMA HeldOthers == ASSUME TypeInv, Held, Others PROVE Held'
<1>1. UNCHANGED <<pc, dev, fd, name>>
  BY DEF Others, process, members
<1>2. /\ pc \in {"head", "ifname"} => dev \in Tuns
      /\ TypeOK
  BY DEF TypeInv, TypeOK
<1> QED  BY <1>1, <1>2, OthersKernel DEF Held

LEMMA OursClient == ASSUME CleanInv, ClientStep PROVE Ours'
<1> USE TunAssumption DEF CleanInv, TypeInv, Opening, Standing, kernel, process, members
<1> SUFFICES ASSUME ~spoilt' PROVE Ours'
  BY DEF Ours
<1>0. ~spoilt
  BY DEF ClientStep, Start, CheckName, OpenDevice, OpenFails, SetHead, IoctlFails, GetName,
         GetIndex, IndexFails, SetupIf, SetupFails, AddRoute, AddFails, RoutesDone, Stop,
         DeleteRoute, RoutesGone, CloseFd, Destroy, DestroyHangs, Exit, Crash
<1>1. ASSUME NEW s \in Settings, Start(s) PROVE Ours'
  BY <1>0, <1>1 DEF Start, Ours
<1>2. CASE OpenDevice
  <2>1. PICK n \in Openable :
           /\ iface' = [iface EXCEPT ![n] = IF @ = "absent" THEN "client" ELSE @]
           /\ dev' = n
           /\ spoilt' = (spoilt \/ (settings.attach /\ iface[n] = "absent"))
    BY <1>2 DEF OpenDevice
  <2>2. \A m \in Tuns : iface[m] # "client"
    BY <1>0, <1>2 DEF OpenDevice, Ours
  <2>3. \A m \in Tuns : iface'[m] = "client" => m = n /\ ~settings.attach
    BY <2>1, <2>2 DEF TypeOK
  <2> QED  BY <1>2, <2>1, <2>3 DEF OpenDevice, Ours
<1>3. CASE GetName
  BY <1>0, <1>3 DEF GetName, Ours, TypeOK
<1>4. CASE Destroy
  <2>1. \A n \in Tuns : iface[n] = "client" => n = name /\ owned
    BY <1>0, <1>4 DEF Destroy, Ours
  <2>2. ASSUME NEW n \in Tuns, iface[n] = "client" PROVE holder[n] = "none"
    BY <1>4, <2>2 DEF Destroy, Held, TypeOK
  <2>3. \A n \in Tuns : iface'[n] # "client"
    BY <1>0, <1>4, <2>1, <2>2 DEF Destroy, Destroyed, TypeOK
  <2> QED  BY <2>3 DEF Ours
<1>5. CASE IoctlFails \/ IndexFails
  BY <1>5 DEF IoctlFails, IndexFails
<1>6. CASE Exit \/ Crash
  BY <1>0, <1>6 DEF Exit, Crash, Gone, Ours
<1>7. CASE CheckName \/ OpenFails \/ SetHead \/ GetIndex \/ SetupIf \/ SetupFails
  BY <1>0, <1>7 DEF CheckName, OpenFails, SetHead, GetIndex, SetupIf, SetupFails, Ours
<1>8. CASE AddRoute \/ AddFails \/ RoutesDone \/ Stop \/ DeleteRoute \/ RoutesGone \/ CloseFd
           \/ DestroyHangs
  BY <1>0, <1>8 DEF AddRoute, AddFails, RoutesDone, Stop, DeleteRoute, RoutesGone, CloseFd,
                    DestroyHangs, Ours
<1> QED
  BY <1>1, <1>2, <1>3, <1>4, <1>5, <1>6, <1>7, <1>8 DEF ClientStep

\* The route deinit deletes is one of the client's.
LEMMA DeletedIsOurs ==
  ASSUME CleanInv, DeleteRoute
  PROVE  /\ Len(recorded) \in Nat \ {0}
         /\ recorded[Len(recorded)] \in Routes
         /\ route[recorded[Len(recorded)]].by = "client"
         /\ Len(recorded') = Len(recorded) - 1
         /\ \A i \in 1..Len(recorded') : recorded'[i] = recorded[i]
<1>1. recorded \in Seq(Routes) /\ recorded # <<>>
  BY DEF CleanInv, TypeInv, TypeOK, DeleteRoute
<1>2. Len(recorded) \in Nat \ {0} /\ Len(recorded) \in 1..Len(recorded)
  BY <1>1
<1>3. recorded' = SubSeq(recorded, 1, Len(recorded) - 1)
  BY DEF DeleteRoute
<1>4. recorded[Len(recorded)] \in Routes /\ route[recorded[Len(recorded)]].by = "client"
  BY <1>1, <1>2 DEF CleanInv, Recorded
<1>5. /\ Len(recorded') = Len(recorded) - 1
      /\ \A i \in 1..Len(recorded') : recorded'[i] = recorded[i]
  <2> DEFINE n == Len(recorded) - 1
  <2>1. n \in Int /\ \A i \in 1..n : recorded[i] \in Routes
    BY <1>1, <1>2
  <2>2. Len(recorded') = n /\ \A i \in 1..n : recorded'[i] = recorded[1 + i - 1]
    <3> HIDE DEF n
    <3>1. /\ Len(SubSeq(recorded, 1, n)) = IF 1 <= n THEN n - 1 + 1 ELSE 0
          /\ \A i \in 1..n - 1 + 1 : SubSeq(recorded, 1, n)[i] = recorded[1 + i - 1]
      BY <2>1, SubSeqProperties
    <3>2. n >= 0
      BY <1>2 DEF n
    <3>3. recorded' = SubSeq(recorded, 1, n)
      BY <1>3 DEF n
    <3> QED  BY <2>1, <3>1, <3>2, <3>3
  <2> QED  BY <1>2, <2>2
<1> QED  BY <1>2, <1>4, <1>5

LEMMA RecordedClient == ASSUME CleanInv, ClientStep PROVE Recorded'
<1> USE DEF CleanInv, TypeInv, Routed, kernel, process, members
<1>1. ASSUME NEW s \in Settings, Start(s) PROVE Recorded'
  BY <1>1 DEF Start, Recorded
<1>2. CASE CheckName \/ OpenDevice \/ OpenFails \/ SetHead \/ GetName \/ GetIndex \/ SetupIf
           \/ SetupFails
  <2>1. recorded = <<>> /\ recorded' = <<>>
    BY <1>2 DEF CheckName, OpenDevice, OpenFails, SetHead, GetName, GetIndex, SetupIf,
                SetupFails, Recorded
  <2>2. route' = route /\ (~spoilt' => ~spoilt)
    <3>1. CASE OpenDevice
      BY <3>1 DEF OpenDevice, TypeOK
    <3>2. CASE ~OpenDevice
      BY <1>2, <3>2 DEF CheckName, OpenFails, SetHead, GetName, GetIndex, SetupIf, SetupFails
    <3> QED  BY <3>1, <3>2
  <2>3. pc' \notin Routed \/ recorded' = <<>>
    BY <2>1
  <2> QED  BY <2>1, <2>2, <2>3 DEF Recorded
<1>3. CASE IoctlFails \/ IndexFails
  <2>1. recorded = <<>> /\ recorded' = <<>> /\ spoilt'
    BY <1>3 DEF IoctlFails, IndexFails, Recorded
  <2> QED  BY <2>1 DEF Recorded
<1>4. CASE AddRoute
  <2> DEFINE r == Head(pending)
  <2>1. /\ pc = "routes" /\ pc' = pc /\ name' = name /\ spoilt' = spoilt
        /\ route[r] = NoRoute
        /\ route' = [route EXCEPT ![r] = [via |-> name, by |-> "client"]]
        /\ recorded' = Append(recorded, r)
    BY <1>4 DEF AddRoute
  <2>2. r \in Routes
    BY <1>4 DEF AddRoute, TypeOK
  <2>3. recorded \in Seq(Routes)
    BY DEF TypeOK
  <2>4. /\ Len(recorded') = Len(recorded) + 1 /\ Len(recorded) \in Nat
        /\ recorded'[Len(recorded) + 1] = r
        /\ \A i \in 1..Len(recorded) : recorded'[i] = recorded[i] /\ recorded[i] \in Routes
    BY <2>1, <2>2, <2>3
  <2>5. \A i \in 1..Len(recorded) : recorded[i] # r
    BY <2>1 DEF Recorded, NoRoute
  <2>6. /\ route'[r].by = "client" /\ route'[r].via = name
        /\ \A q \in Routes : q # r => route'[q] = route[q]
    BY <2>1, <2>2 DEF TypeOK
  <2>7. \A i \in 1..Len(recorded') :
           route'[recorded'[i]].by = "client" /\ route'[recorded'[i]].via = name
    BY <2>4, <2>5, <2>6 DEF Recorded
  <2>8. \A i, j \in 1..Len(recorded') : recorded'[i] = recorded'[j] => i = j
    BY <2>4, <2>5 DEF Recorded
  <2>9. ~spoilt => \A q \in Routes : route'[q].by = "client" =>
                     \E i \in 1..Len(recorded') : recorded'[i] = q
    <3> SUFFICES ASSUME ~spoilt, NEW q \in Routes, route'[q].by = "client"
                 PROVE  \E i \in 1..Len(recorded') : recorded'[i] = q
      OBVIOUS
    <3>1. CASE q = r  BY <2>4, <3>1
    <3>2. CASE q # r
      <4>1. PICK i \in 1..Len(recorded) : recorded[i] = q
        BY <2>6, <3>2 DEF Recorded
      <4> QED  BY <2>4, <4>1
    <3> QED  BY <3>1, <3>2
  <2> QED  BY <2>1, <2>7, <2>8, <2>9 DEF Recorded
<1>5. CASE DeleteRoute
  <2> DEFINE r == recorded[Len(recorded)]
  <2>1. /\ Len(recorded) \in Nat \ {0} /\ r \in Routes
        /\ Len(recorded') = Len(recorded) - 1
        /\ \A i \in 1..Len(recorded') : recorded'[i] = recorded[i]
    BY <1>5, DeletedIsOurs
  <2>2. /\ pc' = "undo" /\ name' = name
        /\ \A q \in Routes : q # r => route'[q] = route[q]
        /\ ~spoilt' => ~spoilt /\ route'[r].by # "client"
    BY <1>5, <2>1 DEF DeleteRoute, NoRoute, TypeOK
  <2>3. \A i \in 1..Len(recorded') : i \in 1..Len(recorded) /\ i # Len(recorded)
    BY <2>1
  <2>4. \A i \in 1..Len(recorded') : recorded[i] # r /\ recorded[i] \in Routes
    <3>1. \A i \in 1..Len(recorded) : recorded[i] \in Routes
      BY DEF TypeOK
    <3> QED  BY <2>1, <2>3, <3>1 DEF Recorded
  <2>5. \A i \in 1..Len(recorded') :
           route'[recorded'[i]].by = "client" /\ route'[recorded'[i]].via = name
    BY <2>1, <2>2, <2>3, <2>4, SMTT(30) DEF Recorded
  <2>6. \A i, j \in 1..Len(recorded') : recorded'[i] = recorded'[j] => i = j
    BY <2>1, <2>3, SMTT(30) DEF Recorded
  <2>7. ASSUME ~spoilt', NEW q \in Routes, route'[q].by = "client"
        PROVE  \E i \in 1..Len(recorded') : recorded'[i] = q
    <3>1. q # r /\ ~spoilt /\ route[q].by = "client"
      BY <2>2, <2>7
    <3>2. PICK i \in 1..Len(recorded) : recorded[i] = q
      BY <3>1 DEF Recorded
    <3>3. i \in 1..Len(recorded')
      BY <2>1, <3>1, <3>2
    <3> QED  BY <2>1, <3>2, <3>3
  <2> QED  BY <2>2, <2>5, <2>6, <2>7 DEF Recorded
<1>6. CASE AddFails \/ RoutesDone \/ Stop \/ RoutesGone \/ DestroyHangs
  BY <1>6 DEF AddFails, RoutesDone, Stop, RoutesGone, DestroyHangs, Recorded
<1>7. CASE CloseFd \/ Destroy
  <2>1. recorded = <<>> /\ recorded' = <<>> /\ (~spoilt' => ~spoilt)
    BY <1>7 DEF CloseFd, Destroy, Recorded
  <2>2. \A r \in Routes : route'[r].by = "client" => route[r].by = "client"
    BY <1>7, PurgedRoute DEF CloseFd, CloseDevice, Destroy, Destroyed
  <2> QED  BY <2>1, <2>2 DEF Recorded
<1>8. CASE Exit \/ Crash
  <2>1. Gone /\ recorded' = <<>> /\ (~spoilt' => pc = "exit" /\ ~spoilt)
    <3>1. Gone
      BY <1>8 DEF Exit, Crash
    <3>2. recorded' = <<>>
      BY <3>1 DEF Gone
    <3>3. CASE Exit
      BY <3>1, <3>2, <3>3 DEF Exit
    <3>4. CASE Crash
      BY <3>1, <3>2, <3>4 DEF Crash
    <3> QED  BY <1>8, <3>3, <3>4
  <2>2. \A r \in Routes : route'[r].by = "client" => route[r].by = "client"
    BY <2>1, GoneKernel
  <2> QED  BY <2>1, <2>2 DEF Recorded
<1> QED
  BY <1>1, <1>2, <1>3, <1>4, <1>5, <1>6, <1>7, <1>8 DEF ClientStep

LEMMA CleanOthers == ASSUME CleanInv, Others PROVE CleanInv'
<1>1. UNCHANGED process
  BY DEF Others
<1>2. TypeInv' /\ Held'
  BY TypeOthers, HeldOthers DEF CleanInv
<1>3. Ours'
  BY <1>1, OthersKernel DEF CleanInv, TypeInv, Ours, process, members
<1>4. Recorded'
  <2>1. \A i \in 1..Len(recorded) :
           /\ recorded[i] \in Routes /\ pc \in Standing /\ route[recorded[i]].via = fd
           /\ route[recorded[i]].by = "client"
    <3>1. \A i \in 1..Len(recorded) : recorded[i] \in Routes
      BY DEF CleanInv, TypeInv, TypeOK
    <3>2. ASSUME NEW i \in 1..Len(recorded) PROVE pc \in Routed
      <4>1. recorded # <<>>
        BY <3>2
      <4> QED  BY <4>1 DEF CleanInv, Recorded
    <3> QED  BY <3>1, <3>2 DEF CleanInv, Recorded, Held, Standing, Routed
  <2>2. \A i \in 1..Len(recorded) : route'[recorded[i]] = route[recorded[i]]
    BY <2>1, OthersKernel DEF CleanInv, TypeInv
  <2> QED  BY <1>1, <2>2, OthersKernel DEF CleanInv, TypeInv, Recorded, process, members
<1> QED  BY <1>2, <1>3, <1>4 DEF CleanInv

LEMMA CleanInit == Init => CleanInv
<1> SUFFICES ASSUME Init PROVE CleanInv
  OBVIOUS
<1>1. Held /\ Ours
  BY DEF Init, Held, Ours, Standing
<1>2. Recorded
  <2>1. \A r \in Routes : route[r].by # "client"
    BY DEF Init, NoRoute
  <2> QED  BY <2>1 DEF Init, Recorded
<1> QED  BY <1>1, <1>2, TypeInit DEF CleanInv

LEMMA CleanNext == CleanInv /\ [Next]_vars => CleanInv'
<1>1. CleanInv /\ ClientStep => CleanInv'
  BY TypeClient, HeldClient, OursClient, RecordedClient DEF CleanInv
<1>2. CleanInv /\ UNCHANGED vars => CleanInv'
  BY TypeNext DEF CleanInv, Held, Ours, Recorded, vars, kernel, process, members
<1> QED  BY <1>1, <1>2, CleanOthers DEF Next

LEMMA CleanTracked == CleanInv => RoutesTracked
<1> SUFFICES ASSUME CleanInv, pc \in {"routes", "up", "undo"}, ~spoilt
             PROVE  {r \in Routes : route[r] = [via |-> name, by |-> "client"]}
                      = {recorded[i] : i \in 1..Len(recorded)}
  BY DEF RoutesTracked
<1>1. \A i \in 1..Len(recorded) : recorded[i] \in Routes
  BY DEF CleanInv, TypeInv, TypeOK
<1>2. \A r \in Routes : route[r].by = "client" /\ route[r].via = name =>
                          route[r] = [via |-> name, by |-> "client"]
  BY DEF CleanInv, TypeInv, TypeOK
<1> QED  BY <1>1, <1>2 DEF CleanInv, Recorded

\* At every step of set-up and teardown the client's routes in the kernel are
\* the recorded ones, whatever the settings, failures and other tools.
THEOREM RoutesAreTracked == Spec => []RoutesTracked
BY CleanInit, CleanNext, CleanTracked, PTL DEF Spec

LEMMA CleanAtExit == CleanInv => CleanExit
<1> SUFFICES ASSUME CleanInv, pc = "down", ~spoilt
             PROVE  /\ \A n \in Tuns : iface[n] # "client" /\ holder[n] # "client"
                    /\ \A r \in Routes : route[r].by # "client"
  BY DEF CleanExit
<1>1. recorded = <<>>
  BY DEF CleanInv, Recorded, Routed
<1>2. \A r \in Routes : route[r].by # "client"
  BY <1>1 DEF CleanInv, Recorded
<1>3. \A n \in Tuns : iface[n] # "client" /\ holder[n] # "client"
  BY TunAssumption DEF CleanInv, Held, Ours, Standing
<1> QED  BY <1>2, <1>3

\* A client that is gone has left nothing of its own in the kernel, unless
\* there was a failure that the code does not undo.
THEOREM ExitsClean == Spec => []CleanExit
BY CleanInit, CleanNext, CleanAtExit, PTL DEF Spec

LEMMA DeletedStaysForeign ==
  ASSUME CleanInv, DeleteRoute
  PROVE  \A r \in Routes : route[r].by = "other" => route'[r] = route[r]
<1>1. /\ route[recorded[Len(recorded)]].by = "client"
      /\ recorded[Len(recorded)] \in Routes
  BY DeletedIsOurs
<1> QED  BY <1>1 DEF DeleteRoute, CleanInv, TypeInv, TypeOK

\* The teardown removes routes of the client only, even after failures that
\* the code does not undo.
THEOREM ForeignRoutesSafe == Spec => ForeignRoutesKept
<1> DEFINE Kept == \A r \in Routes : route[r].by = "other" => route'[r] = route[r]
<1>1. CleanInv /\ [Next]_vars => [DeleteRoute => Kept]_vars
  BY DeletedStaysForeign
<1>2. Spec => [][DeleteRoute => Kept]_vars
  BY <1>1, CleanInit, CleanNext, PTL DEF Spec
<1> QED  BY <1>2 DEF ForeignRoutesKept
=============================================================================

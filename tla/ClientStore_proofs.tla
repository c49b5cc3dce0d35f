-------------------------- MODULE ClientStore_proofs ------------------------
(***************************************************************************)
(* Proofs about ClientStore: the trust gate, the rows' validity and the    *)
(* consistency of what a request saves.  None of these needs the lock, nor *)
(* that uuids are new: a request's snapshot, however old, is one that was  *)
(* good when it was taken, and Vetted only grows.  The types do need that  *)
(* there is always a new uuid (UuidsLeft).                                 *)
(***************************************************************************)
EXTENDS ClientStore, FiniteSetTheorems, TLAPS

\* <client> as a record, which the framework's XML always is.
Shape(c) == c = [rows |-> c.rows, active |-> c.active, settings |-> c.settings]

Shapes ==
    /\ req = [r \in Requests |-> [step |-> req[r].step, kind |-> req[r].kind,
                                  arg |-> req[r].arg, mdl |-> req[r].mdl]]
    /\ \A r \in Requests : Shape(req[r].mdl)

\* What the dialog shows is what its link is parsed to.
GateShowsLink == ttUri # None => ttUri \in Links /\ shown = View[Parsed[ttUri]]

\* A link being imported was confirmed.
LinksAreSeen ==
    \A r \in Requests : req[r].kind = "import" =>
      req[r].arg \in Links /\ <<req[r].arg, View[Parsed[req[r].arg]]>> \in agreed

\* A request that holds a model holds rows that are vetted, and valid but for
\* the one that it adds.
Holds(r) == req[r].step \in {"lock", "save"}
Added(r) == IF req[r].kind = "import" THEN {Parsed[req[r].arg]} ELSE {}
SnapshotsAreGood ==
    \A r \in Requests : Holds(r) =>
      /\ Range(req[r].mdl.rows) \subseteq Vetted
      /\ Range(req[r].mdl.rows) \subseteq Valid \cup Added(r)
      /\ (req[r].kind = "setActive" \/ req[r].step = "save") =>
           req[r].mdl.active \in DOMAIN req[r].mdl.rows
      /\ req[r].kind \in {"setActive", "import"}

IInv == Shapes /\ Shape(config) /\ GateShowsLink /\ LinksAreSeen /\ SnapshotsAreGood
        /\ ConfirmedAsShown /\ RowsAreValid

----------------------------------------------------------------------------
(* What the EXCEPTs of the actions yield. *)

LEMMA ToStep ==
    ASSUME Shapes, NEW r \in Requests, NEW s, To(r, s)
    PROVE  /\ Shapes'
           /\ req'[r].step = s
           /\ \A q \in Requests :
                /\ req'[q].kind = req[q].kind /\ req'[q].arg = req[q].arg
                /\ req'[q].mdl = req[q].mdl
                /\ q # r => req'[q].step = req[q].step
BY DEF Shapes, Shape, To

LEMMA Moved ==
    ASSUME Shapes, NEW r \in Requests, NEW m, Shape(m), NEW s, With(r, m, s)
    PROVE  /\ Shapes'
           /\ req'[r].step = s /\ req'[r].mdl = m
           /\ \A q \in Requests : req'[q].kind = req[q].kind /\ req'[q].arg = req[q].arg
           /\ \A q \in Requests \ {r} : req'[q] = req[q]
<1> DEFINE new == [step |-> s, kind |-> req[r].kind, arg |-> req[r].arg, mdl |-> m]
<1>1. req[r] = [step |-> req[r].step, kind |-> req[r].kind, arg |-> req[r].arg,
                mdl |-> req[r].mdl]
  BY DEF Shapes
<1>2. [[req[r] EXCEPT !.mdl = m] EXCEPT !.step = s] = new
  <2> DEFINE o == [step |-> req[r].step, kind |-> req[r].kind, arg |-> req[r].arg,
                   mdl |-> m]
  <2>1. [req[r] EXCEPT !.mdl = m] = o
    BY <1>1
  <2>2. [o EXCEPT !.step = s] = new
    OBVIOUS
  <2> QED BY <2>1, <2>2
<1>3. DOMAIN req = Requests
  BY DEF Shapes
<1>4. req' = [req EXCEPT ![r] = [[req[r] EXCEPT !.mdl = m] EXCEPT !.step = s]]
  BY <1>3 DEF With
<1>5. req' = [req EXCEPT ![r] = new]
  BY <1>2, <1>4
<1>6. req'[r] = new /\ DOMAIN req' = Requests /\ \A q \in Requests \ {r} : req'[q] = req[q]
  BY <1>3, <1>5
<1>7. Shapes'
  <2>1. req' = [q \in Requests |-> req'[q]]
    BY <1>3, <1>5
  <2>2. ASSUME NEW q \in Requests
        PROVE  /\ req'[q] = [step |-> req'[q].step, kind |-> req'[q].kind,
                             arg |-> req'[q].arg, mdl |-> req'[q].mdl]
               /\ Shape(req'[q].mdl)
    BY <1>6 DEF Shapes
  <2> QED BY <2>1, <2>2 DEF Shapes
<1> QED BY <1>6, <1>7

LEMMA Begun ==
    ASSUME Shapes, NEW r \in Requests, NEW k, NEW a, NEW s, Begin(r, k, a, s)
    PROVE  /\ Shapes'
           /\ req'[r].step = s /\ req'[r].kind = k /\ req'[r].arg = a
           /\ \A q \in Requests \ {r} : req'[q] = req[q]
<1> DEFINE new == [step |-> s, kind |-> k, arg |-> a, mdl |-> InitConfig]
<1>1. DOMAIN req = Requests
  BY DEF Shapes
<1>2. req'[r] = new /\ \A q \in Requests \ {r} : req'[q] = req[q]
  BY <1>1 DEF Begin
<1>3. req' = [q \in Requests |-> req'[q]]
  BY <1>1 DEF Begin
<1>0. Shape(InitConfig)
  BY InitConfigAssumption DEF Shape
<1>4. ASSUME NEW q \in Requests
      PROVE  /\ req'[q] = [step |-> req'[q].step, kind |-> req'[q].kind,
                           arg |-> req'[q].arg, mdl |-> req'[q].mdl]
             /\ Shape(req'[q].mdl)
  <2> HIDE DEF new
  <2>1. req'[r] = new /\ new = [step |-> new.step, kind |-> new.kind,
                               arg |-> new.arg, mdl |-> new.mdl] /\ Shape(new.mdl)
    BY <1>0, <1>2 DEF new
  <2>2. \A p \in Requests \ {r} : req'[p] = req[p]
    BY <1>2
  <2>3. CASE q = r
    BY <2>1, <2>3
  <2>4. CASE q # r
    <3>1. req'[q] = req[q]
      BY <2>2, <2>4
    <3> QED  BY <3>1 DEF Shapes
  <2> QED  BY <2>3, <2>4
<1> QED BY <1>2, <1>3, <1>4 DEF Shapes

LEMMA ActiveSet ==
    ASSUME NEW c, Shape(c), NEW u
    PROVE  LET d == [c EXCEPT !.active = u]
           IN  Shape(d) /\ d.rows = c.rows /\ d.active = u
BY DEF Shape

LEMMA RowAdded ==
    ASSUME NEW c, Shape(c), NEW u, NEW x
    PROVE  LET d == Add(c, u, x)
           IN  /\ Shape(d) /\ d.active = u /\ u \in DOMAIN d.rows
               /\ Range(d.rows) \subseteq Range(c.rows) \cup {x}
<1> DEFINE R == [v \in DOMAIN c.rows \cup {u} |-> IF v = u THEN x ELSE c.rows[v]]
<1>1. Add(c, u, x) = [[c EXCEPT !.rows = R] EXCEPT !.active = u]
  BY DEF Add
<1>2. Shape(Add(c, u, x)) /\ Add(c, u, x).active = u /\ Add(c, u, x).rows = R
  <2> HIDE DEF R
  <2> QED BY <1>1 DEF Shape
<1> QED BY <1>2 DEF Range

----------------------------------------------------------------------------
LEMMA InitIInv == Init => IInv
BY InitConfigAssumption DEF Init, IInv, Shapes, Shape, GateShowsLink, LinksAreSeen,
   SnapshotsAreGood, Holds, Idle, ConfirmedAsShown, Vetted, RowsAreValid

\* A step that leaves the rows alone and forgets nothing keeps the invariant if
\* the requests it touches are as they should be.
LEMMA Kept ==
    ASSUME IInv, Shapes', LinksAreSeen', SnapshotsAreGood', GateShowsLink',
           config' = config, Vetted \subseteq Vetted'
    PROVE  IInv'
BY DEF IInv, Shape, ConfirmedAsShown, RowsAreValid

LEMMA FoundIInv ==
    ASSUME IInv, NEW r \in Requests, Found(r)
    PROVE  IInv'
<1> USE DEF IInv
<1>1. UNCHANGED <<config, typed, agreed, Vetted, shown, ttUri>>
  BY DEF Found, page, gate, Vetted
<1>2. CASE To(r, "failed")
  <2>1. LinksAreSeen' /\ SnapshotsAreGood'
    BY <1>1, <1>2, ToStep DEF LinksAreSeen, SnapshotsAreGood, Holds, Added
  <2> QED BY <1>1, <1>2, <2>1, ToStep, Kept DEF GateShowsLink
<1>3. CASE ~To(r, "failed")
  <2> DEFINE m == [config EXCEPT !.active = req[r].arg]
  <2>1. /\ req[r].kind = "setActive" /\ req[r].arg \in DOMAIN config.rows
        /\ With(r, m, "lock")
    BY <1>3 DEF Found
  <2>2. Shape(m) /\ m.rows = config.rows /\ m.active = req[r].arg
    BY ActiveSet
  <2> HIDE DEF m
  <2>3. /\ Shapes'
        /\ req'[r].step = "lock" /\ req'[r].mdl = m /\ req'[r].kind = "setActive"
        /\ \A q \in Requests : req'[q].kind = req[q].kind /\ req'[q].arg = req[q].arg
        /\ \A q \in Requests \ {r} : req'[q] = req[q]
    BY <2>1, <2>2, Moved
  <2>4. LinksAreSeen'
    BY <1>1, <2>3 DEF LinksAreSeen
  <2>5. SnapshotsAreGood'
    BY <1>1, <2>1, <2>2, <2>3
       DEF SnapshotsAreGood, Holds, Added, ConfirmedAsShown, RowsAreValid
  <2> QED BY <1>1, <2>3, <2>4, <2>5, Kept DEF GateShowsLink
<1> QED BY <1>2, <1>3

LEMMA NewModelIInv ==
    ASSUME IInv, NEW r \in Requests, NewModel(r)
    PROVE  IInv'
<1> USE DEF IInv
<1>1. UNCHANGED <<config, typed, agreed, Vetted, shown, ttUri>>
  BY DEF NewModel, page, gate, Vetted
<1>2. /\ Shapes'
      /\ req'[r].step = "lock" /\ req'[r].mdl = config /\ req'[r].kind = "import"
      /\ \A q \in Requests : req'[q].kind = req[q].kind /\ req'[q].arg = req[q].arg
      /\ \A q \in Requests \ {r} : req'[q] = req[q]
  BY Moved DEF NewModel
<1>3. LinksAreSeen'
  BY <1>1, <1>2 DEF LinksAreSeen
<1>4. SnapshotsAreGood'
  BY <1>1, <1>2 DEF SnapshotsAreGood, Holds, Added, ConfirmedAsShown, RowsAreValid
<1> QED BY <1>1, <1>2, <1>3, <1>4, Kept DEF GateShowsLink

\* Feed, Parse and Expire only move the request.
LEMMA ParseIInv ==
    ASSUME IInv, NEW r \in Requests, Feed(r) \/ Parse(r) \/ Expire(r)
    PROVE  IInv'
<1> USE DEF IInv
<1>1. UNCHANGED <<config, typed, agreed, Vetted, shown, ttUri>>
  BY DEF Feed, Parse, Expire, page, gate, Vetted
<1>2. PICK s \in {"parse", "model", "failed"} : To(r, s)
  BY DEF Feed, Parse, Expire
<1>3. LinksAreSeen' /\ SnapshotsAreGood'
  BY <1>1, <1>2, ToStep DEF LinksAreSeen, SnapshotsAreGood, Holds, Added
<1> QED BY <1>1, <1>2, <1>3, ToStep, Kept DEF GateShowsLink

LEMMA LockIInv ==
    ASSUME IInv, NEW r \in Requests, Lock(r)
    PROVE  IInv'
<1> USE DEF IInv
<1>1. UNCHANGED <<config, typed, agreed, Vetted, shown, ttUri>>
  BY DEF Lock, page, gate, Vetted
<1>2. CASE req[r].kind = "import"
  <2> DEFINE x == Parsed[req[r].arg]
             m == Add(req[r].mdl, Fresh, x)
  <2>1. req[r].step = "lock" /\ With(r, m, "save")
    BY <1>2 DEF Lock
  <2>2. /\ Shape(m) /\ m.active \in DOMAIN m.rows
        /\ Range(m.rows) \subseteq Range(req[r].mdl.rows) \cup {x}
    BY RowAdded DEF Shapes
  <2> HIDE DEF m
  <2>3. /\ Shapes'
        /\ req'[r].step = "save" /\ req'[r].mdl = m
        /\ \A q \in Requests : req'[q].kind = req[q].kind /\ req'[q].arg = req[q].arg
        /\ \A q \in Requests \ {r} : req'[q] = req[q]
    BY <2>1, <2>2, Moved
  <2>4. LinksAreSeen'
    BY <1>1, <2>3 DEF LinksAreSeen
  <2>5. x \in Vetted /\ Range(m.rows) \subseteq Vetted
        /\ Range(m.rows) \subseteq Valid \cup {x}
    <3>1. x \in Vetted
      BY <1>2 DEF LinksAreSeen, Vetted
    <3> QED
      BY <1>2, <2>1, <2>2, <3>1 DEF SnapshotsAreGood, Holds, Added
  <2>6. SnapshotsAreGood'
    <3> HIDE DEF x
    <3>0. Added(r)' = {x}
      BY <1>2, <2>3 DEF Added, x
    <3>1. ASSUME NEW q \in Requests \ {r}
          PROVE  Added(q)' = Added(q) /\ Holds(q)' = Holds(q)
      BY <2>3 DEF Added, Holds
    <3> QED BY <1>1, <1>2, <2>2, <2>3, <2>5, <3>0, <3>1 DEF SnapshotsAreGood
  <2> QED BY <1>1, <2>3, <2>4, <2>6, Kept DEF GateShowsLink
<1>3. CASE req[r].kind # "import"
  <2>1. req[r].step = "lock" /\ To(r, "save")
    BY <1>3 DEF Lock
  <2>2. LinksAreSeen' /\ SnapshotsAreGood'
    BY <1>1, <1>3, <2>1, ToStep DEF LinksAreSeen, SnapshotsAreGood, Holds, Added
  <2> QED BY <1>1, <2>1, <2>2, ToStep, Kept DEF GateShowsLink
<1> QED BY <1>2, <1>3

\* Saving: the rows are the snapshot's, all valid if the request validates.
LEMMA SaveIInv ==
    ASSUME IInv, NEW r \in Requests, Save(r)
    PROVE  IInv'
<1> USE DEF IInv
<1>1. UNCHANGED <<typed, agreed, Vetted, shown, ttUri>> /\ req[r].step = "save"
  BY DEF Save, page, gate, Vetted
<1>2. PICK s \in {"ok", "failed"} : To(r, s)
  BY DEF Save
<1>3. Shapes' /\ LinksAreSeen' /\ SnapshotsAreGood' /\ GateShowsLink'
  BY <1>1, <1>2, ToStep
     DEF LinksAreSeen, SnapshotsAreGood, Holds, Added, GateShowsLink
<1>4. CASE config' = config
  BY <1>1, <1>3, <1>4, Kept
<1>5. CASE config' # config
  <2>1. config' = req[r].mdl /\ Accepted(r)
    BY <1>5 DEF Save, Written
  <2>2. Shape(config')
    BY <2>1 DEF Shapes, Shape
  <2>3. ConfirmedAsShown' /\ RowsAreValid'
    BY <1>1, <2>1 DEF Accepted, SnapshotsAreGood, Holds, Added, ConfirmedAsShown,
                      RowsAreValid
  <2> QED BY <1>3, <2>2, <2>3
<1> QED BY <1>4, <1>5

\* The framework's edits.
LEMMA EditIInv ==
    ASSUME IInv, Edit
    PROVE  IInv'
<1> USE DEF IInv
<1>1. UNCHANGED <<req, agreed, shown, ttUri>> /\ Vetted \subseteq Vetted'
  BY DEF Edit, AddServer, SetServer, DelServer, SetClient, page, gate, Vetted
<1>2. Shapes' /\ LinksAreSeen' /\ SnapshotsAreGood' /\ GateShowsLink'
  BY <1>1 DEF Shapes, LinksAreSeen, SnapshotsAreGood, Holds, Added, GateShowsLink
<1>3. CASE \E c \in Contents : AddServer(c)
  <2>1. PICK c \in Contents : AddServer(c)
    BY <1>3
  <2> DEFINE R == [v \in DOMAIN config.rows \cup {Fresh} |->
                     IF v = Fresh THEN c ELSE config.rows[v]]
  <2>2. config' = [config EXCEPT !.rows = R] /\ c \in Valid /\ c \in Vetted'
    BY <2>1 DEF AddServer, Vetted
  <2>3. Range(R) \subseteq Range(config.rows) \cup {c}
    BY DEF Range
  <2> HIDE DEF R
  <2>4. Shape(config') /\ config'.rows = R
    BY <2>2 DEF Shape
  <2> QED BY <1>1, <1>2, <2>2, <2>3, <2>4 DEF ConfirmedAsShown, RowsAreValid
<1>4. CASE \E c \in Contents, u \in Uuids : SetServer(u, c)
  <2>1. PICK c \in Contents, u \in Uuids : SetServer(u, c)
    BY <1>4
  <2> DEFINE R == [config.rows EXCEPT ![u] = c]
  <2>2. config' = [config EXCEPT !.rows[u] = c] /\ c \in Valid /\ c \in Vetted'
    BY <2>1 DEF SetServer, Vetted
  <2>3. Range(R) \subseteq Range(config.rows) \cup {c}
    BY DEF Range
  <2>4. config' = [config EXCEPT !.rows = R]
    BY <2>2 DEF Shape
  <2> HIDE DEF R
  <2>5. Shape(config') /\ config'.rows = R
    BY <2>4 DEF Shape
  <2> QED BY <1>1, <1>2, <2>2, <2>3, <2>5 DEF ConfirmedAsShown, RowsAreValid
<1>5. CASE \E u \in Uuids : DelServer(u)
  <2>1. PICK u \in Uuids : DelServer(u)
    BY <1>5
  <2> DEFINE R == Restrict(config.rows, DOMAIN config.rows \ {u})
  <2>2. config' = [config EXCEPT !.rows = R]
    BY <2>1 DEF DelServer
  <2>3. Range(R) \subseteq Range(config.rows)
    BY DEF Range, Restrict
  <2> HIDE DEF R
  <2>4. Shape(config') /\ config'.rows = R
    BY <2>2 DEF Shape
  <2> QED BY <1>1, <1>2, <2>2, <2>3, <2>4 DEF ConfirmedAsShown, RowsAreValid
<1>6. CASE \E s \in Settings : SetClient(s)
  <2>1. Shape(config') /\ config'.rows = config.rows
    BY <1>6 DEF SetClient, Shape
  <2> QED BY <1>1, <1>2, <2>1 DEF ConfirmedAsShown, RowsAreValid
<1> QED BY <1>3, <1>4, <1>5, <1>6 DEF Edit

LEMMA BeginIInv ==
    ASSUME IInv, NEW r \in Requests,
           Confirm(r) \/ \E u \in Uuids : SetActive(r, u)
    PROVE  IInv'
<1> USE DEF IInv
<1>1. UNCHANGED <<config, shown, ttUri>> /\ agreed \subseteq agreed' /\ Vetted \subseteq Vetted'
  BY DEF Confirm, SetActive, page, gate, Vetted
<1>2. PICK k \in {"import", "setActive"}, a \in Links \cup Uuids,
           s \in {"feed", "model"} :
        /\ Begin(r, k, a, s)
        /\ k = "import" => a = ttUri /\ a # None /\ <<ttUri, shown>> \in agreed'
  BY DEF Confirm, SetActive, LinkToPost, GateShowsLink
<1>3. Shapes'
  BY <1>2, Begun
<1>4. LinksAreSeen'
  BY <1>1, <1>2, Begun DEF LinksAreSeen, GateShowsLink
<1>5. SnapshotsAreGood'
  <2>1. ASSUME NEW q \in Requests, Holds(q)'
        PROVE  q # r /\ Holds(q) /\ req'[q] = req[q] /\ Added(q)' = Added(q)
    BY <1>2, <2>1, Begun DEF Holds, Added
  <2> QED BY <1>1, <2>1 DEF SnapshotsAreGood
<1> QED BY <1>1, <1>3, <1>4, <1>5, Kept DEF GateShowsLink

\* The page alone.
LEMMA PageIInv ==
    ASSUME IInv,
           \/ \E l \in Links : Type(l) \/ Previewed(l)
           \/ Preview \/ Cancel \/ Answered
           \/ UNCHANGED vars
    PROVE  IInv'
<1> USE DEF IInv
<1>1. UNCHANGED <<config, req, agreed, Vetted>>
  BY DEF Type, Previewed, Preview, Cancel, Answered, vars, gate, Vetted
<1>2. GateShowsLink'
  BY DEF Type, Previewed, Preview, Cancel, Answered, vars, page, gate, GateShowsLink
<1>3. Shapes' /\ LinksAreSeen' /\ SnapshotsAreGood'
  BY <1>1 DEF Shapes, LinksAreSeen, SnapshotsAreGood, Holds, Added
<1> QED BY <1>1, <1>2, <1>3, Kept

LEMMA NextIInv == IInv /\ [Next]_vars => IInv'
<1> SUFFICES ASSUME IInv, [Next]_vars PROVE IInv'
  OBVIOUS
<1>1. ASSUME NEW r \in Requests, Process(r) PROVE IInv'
  BY <1>1, FoundIInv, ParseIInv, NewModelIInv, LockIInv, SaveIInv DEF Process
<1>2. ASSUME NEW r \in Requests, Confirm(r) \/ \E u \in Uuids : SetActive(r, u)
      PROVE  IInv'
  BY <1>2, BeginIInv
<1>3. CASE \/ \E l \in Links : Type(l) \/ Previewed(l)
           \/ Preview \/ Cancel \/ Answered
           \/ UNCHANGED vars
  BY <1>3, PageIInv
<1>4. CASE Edit
  BY <1>4, EditIInv
<1> QED BY <1>1, <1>2, <1>3, <1>4 DEF Next

LEMMA Inductive == Spec => []IInv
BY InitIInv, NextIInv, PTL DEF Spec

----------------------------------------------------------------------------
\* The trust gate of previewAction and confirmImportAction: whatever the page,
\* the requests and the other administrators do, a stored row was typed in, or is
\* what the parser makes of a link that was confirmed while its fields were shown.
THEOREM TrustGate == Spec => []ConfirmedAsShown
<1>1. IInv => ConfirmedAsShown
  BY DEF IInv
<1> QED BY Inductive, <1>1, PTL

\* setActiveAction writes rows back that it does not validate; they are valid,
\* for they were when it read them.
THEOREM StoredRowsAreValid == Spec => []RowsAreValid
<1>1. IInv => RowsAreValid
  BY DEF IInv
<1> QED BY Inductive, <1>1, PTL

\* The saving step itself.
LEMMA SavedIsConsistent ==
    ASSUME IInv, [Next]_vars, lock # None, config' # config
    PROVE  FindActive(config') # {}
<1>1. PICK r \in Requests : Save(r)
  BY DEF Next, Process, Found, Feed, Parse, Expire, NewModel, Lock, Confirm, SetActive,
         Type, Previewed, Preview, Cancel, Answered, Edit, vars
<1>2. config' = req[r].mdl /\ req[r].step = "save"
  BY <1>1 DEF Save, Written
<1> QED BY <1>2 DEF IInv, SnapshotsAreGood, Holds, FindActive

\* Both actions save rows and active_server from one snapshot, so that what they
\* save is consistent although it may be old.
THEOREM SavedActiveIsARow == Spec => ActiveIsARow
<1>1. IInv /\ [Next]_vars =>
        [(lock # None /\ config' # config) => FindActive(config') # {}]_vars
  BY SavedIsConsistent
<1> QED BY Inductive, <1>1, PTL DEF Spec, ActiveIsARow

----------------------------------------------------------------------------
(* The types.  A row needs a uuid, and a uuid is given out by a request that *)
(* then has the lock behind it, once, or by an edit.                         *)

\* Requests that may have been given a uuid.
Served == {r \in Requests : req[r].step \in {"save", "ok", "failed"}}

UuidsLeft ==
    /\ used \subseteq Uuids /\ edits \in 0 .. MaxEdits
    /\ Cardinality(used) <=
         Cardinality(DOMAIN InitConfig.rows) + Cardinality(Served) + edits

TInv == TypeOK /\ UuidsLeft /\ box \in Links \cup {None}

LEMMA ServedSize ==
    /\ IsFiniteSet(Served) /\ Cardinality(Served) \in Nat
    /\ Cardinality(Served) <= Cardinality(Requests) /\ Cardinality(Requests) \in Nat
<1>1. Served \subseteq Requests
  BY DEF Served
<1> QED
  BY <1>1, FS_Subset, FS_CardinalityType, BoundsAssumption

LEMMA InitialSize ==
    /\ IsFiniteSet(DOMAIN InitConfig.rows)
    /\ Cardinality(DOMAIN InitConfig.rows) \in Nat
BY FS_Subset, FS_CardinalityType, BoundsAssumption, InitConfigAssumption

LEMMA UsedSize ==
    ASSUME UuidsLeft
    PROVE  IsFiniteSet(used) /\ Cardinality(used) \in Nat /\ Cardinality(Uuids) \in Nat
BY FS_Subset, FS_CardinalityType, BoundsAssumption DEF UuidsLeft

\* Where a uuid is taken there is a new one.
LEMMA FreshIsNew ==
    ASSUME UuidsLeft, edits < MaxEdits \/ \E r \in Requests : r \notin Served
    PROVE  Fresh \in Uuids \ used
<1>1. \/ edits < MaxEdits
      \/ Cardinality(Served) < Cardinality(Requests)
  <2>1. ASSUME NEW r \in Requests, r \notin Served
        PROVE  Cardinality(Served) # Cardinality(Requests)
    <3>1. Served \in SUBSET Requests /\ Served # Requests
      BY <2>1 DEF Served
    <3> QED
      BY <3>1, FS_Subset, BoundsAssumption
  <2> QED
    BY <2>1, ServedSize
<1>2. Cardinality(used) < Cardinality(Uuids)
  BY <1>1, ServedSize, InitialSize, UsedSize, BoundsAssumption, UuidsAssumption DEF UuidsLeft
<1>3. used # Uuids
  BY <1>2, UsedSize
<1>4. \E u \in Uuids : u \notin used
  BY <1>3 DEF UuidsLeft
<1> QED
  BY <1>4 DEF Fresh

\* A uuid is given out at most once to each request and edit.
LEMMA UuidsKept ==
    ASSUME UuidsLeft, Served \subseteq Served',
           \/ used' = used /\ edits' = edits
           \/ /\ used' \subseteq used \cup {Fresh} /\ used \subseteq used'
              /\ \/ edits < MaxEdits /\ edits' = edits + 1
                 \/ edits' = edits /\ \E r \in Requests : r \in Served' \ Served
    PROVE  UuidsLeft'
<1>1. /\ IsFiniteSet(Served') /\ Cardinality(Served') \in Nat
      /\ Cardinality(Served) <= Cardinality(Served')
      /\ (\E r \in Requests : r \in Served' \ Served) =>
           Cardinality(Served) < Cardinality(Served')
  <2>1. Served' \in SUBSET Requests
    BY DEF Served
  <2>2. IsFiniteSet(Served') /\ Cardinality(Served') \in Nat
    BY <2>1, FS_Subset, FS_CardinalityType, BoundsAssumption
  <2>3. /\ Cardinality(Served) <= Cardinality(Served')
        /\ Cardinality(Served') = Cardinality(Served) => Served' = Served
    BY <2>2, FS_Subset
  <2> QED
    BY <2>2, <2>3, ServedSize
<1>2. CASE used' = used /\ edits' = edits
  <2>1. used' \subseteq Uuids /\ edits' \in 0 .. MaxEdits
    BY <1>2 DEF UuidsLeft
  <2> QED
    BY <1>1, <1>2, <2>1, ServedSize, InitialSize, UsedSize, BoundsAssumption DEF UuidsLeft
<1>3. CASE /\ used' \subseteq used \cup {Fresh} /\ used \subseteq used'
           /\ \/ edits < MaxEdits /\ edits' = edits + 1
              \/ edits' = edits /\ \E r \in Requests : r \in Served' \ Served
  <2>1. Fresh \in Uuids
    BY <1>3, FreshIsNew
  <2>2. IsFiniteSet(used \cup {Fresh}) /\ Cardinality(used \cup {Fresh}) <= Cardinality(used) + 1
    BY UsedSize, FS_AddElement
  <2>3. IsFiniteSet(used') /\ Cardinality(used') <= Cardinality(used \cup {Fresh})
    BY <1>3, <2>2, FS_Subset
  <2>4. /\ Cardinality(used') \in Nat /\ Cardinality(used \cup {Fresh}) \in Nat
        /\ Cardinality(used') <= Cardinality(used) + 1
    BY <2>2, <2>3, UsedSize, FS_CardinalityType
  <2>5. used' \subseteq Uuids /\ edits \in 0 .. MaxEdits /\ edits' \in 0 .. MaxEdits
    BY <1>3, <2>1, BoundsAssumption DEF UuidsLeft
  <2> QED
    BY <1>1, <1>3, <2>4, <2>5, ServedSize, InitialSize, UsedSize, BoundsAssumption
       DEF UuidsLeft
<1> QED
  BY <1>2, <1>3

LEMMA InitTInv == Init => TInv
<1> SUFFICES ASSUME Init PROVE TInv
  OBVIOUS
<1>1. Configs(InitConfig)
  BY InitConfigAssumption, ValidAssumption DEF Configs
<1>2. UuidsLeft
  <2>1. used = DOMAIN InitConfig.rows /\ edits = 0
    BY DEF Init
  <2> QED
    BY <2>1, InitialSize, ServedSize, InitConfigAssumption, BoundsAssumption DEF UuidsLeft
<1> QED
  BY <1>1, <1>2 DEF Init, TInv, TypeOK, Idle

\* Steps of a request r: all but its own record stays, and what it holds then
\* is a configuration.
LEMMA OwnStep ==
    ASSUME IInv, TInv, NEW r \in Requests,
           \A q \in Requests \ {r} : req'[q] = req[q],
           Configs(req'[r].mdl), Configs(config'), lock' \in Requests \cup {None},
           Served \subseteq Served' => UuidsLeft',
           r \in Served => req'[r].step \in {"save", "ok", "failed"},
           UNCHANGED page
    PROVE  TInv'
<1>1. Served \subseteq Served'
  <2> SUFFICES ASSUME NEW q \in Served PROVE q \in Served'
    OBVIOUS
  <2>1. q \in Requests /\ req[q].step \in {"save", "ok", "failed"}
    BY DEF Served
  <2>2. req'[q].step \in {"save", "ok", "failed"}
    BY <2>1
  <2> QED
    BY <2>1, <2>2 DEF Served
<1>2. \A q \in Requests : Configs(req'[q].mdl)
  <2> TAKE q \in Requests
  <2>1. CASE q = r
    BY <2>1
  <2>2. CASE q # r
    <3>1. Configs(req[q].mdl) /\ req'[q] = req[q]
      BY <2>2 DEF TInv, TypeOK
    <3> QED
      BY <3>1
  <2> QED
    BY <2>1, <2>2
<1>3. UuidsLeft'
  BY <1>1
<1>4. /\ shown' \in Views \cup {None} /\ ttUri' \in Links \cup {None}
      /\ flying' \subseteq Links /\ box' \in Links \cup {None}
  BY DEF TInv, TypeOK, page
<1> QED
  BY <1>2, <1>3, <1>4 DEF TInv, TypeOK, Configs

LEMMA ActiveConfig ==
    ASSUME NEW c, Shape(c), Configs(c), NEW u \in DOMAIN c.rows
    PROVE  Configs([c EXCEPT !.active = u])
<1>1. LET d == [c EXCEPT !.active = u]
      IN  d.rows = c.rows /\ d.active = u /\ d.settings = c.settings
  BY DEF Shape
<1> QED
  BY <1>1 DEF Configs

LEMMA RowConfig ==
    ASSUME NEW c, Shape(c), Configs(c), NEW R, NEW a \in Uuids \cup {None},
           DOMAIN R \subseteq Uuids, Range(R) \subseteq Contents
    PROVE  Configs([[c EXCEPT !.rows = R] EXCEPT !.active = a])
<1>1. LET d == [[c EXCEPT !.rows = R] EXCEPT !.active = a]
      IN  d.rows = R /\ d.active = a /\ d.settings = c.settings
  BY DEF Shape
<1> QED
  BY <1>1 DEF Configs

LEMMA OneRowMore ==
    ASSUME NEW c, Configs(c), NEW u \in Uuids, NEW x \in Contents, NEW R,
           DOMAIN R = DOMAIN c.rows \cup {u},
           \A v \in DOMAIN R : R[v] = x \/ (v \in DOMAIN c.rows /\ R[v] = c.rows[v])
    PROVE  DOMAIN R \subseteq Uuids /\ Range(R) \subseteq Contents
BY DEF Configs, Range

LEMMA FoundTInv ==
    ASSUME IInv, TInv, NEW r \in Requests, Found(r)
    PROVE  TInv'
<1>1. UNCHANGED <<config, lock, used, edits, page>> /\ req[r].step = "model"
  BY DEF Found
<1>2. r \notin Served
  BY <1>1 DEF Served
<1>3. UuidsLeft /\ Shapes /\ Shape(config) /\ Configs(config) /\ Configs(req[r].mdl)
  BY DEF TInv, TypeOK, IInv
<1>4. /\ \A q \in Requests \ {r} : req'[q] = req[q]
      /\ Configs(req'[r].mdl)
  <2>1. CASE req[r].arg \in DOMAIN config.rows
    <3> DEFINE m == [config EXCEPT !.active = req[r].arg]
    <3>1. Shape(m) /\ Configs(m)
      BY <1>3, <2>1, ActiveSet, ActiveConfig
    <3>2. With(r, m, "lock")
      BY <2>1 DEF Found
    <3> HIDE DEF m
    <3> QED
      BY <1>3, <3>1, <3>2, Moved
  <2>2. CASE req[r].arg \notin DOMAIN config.rows
    <3>1. req' = [req EXCEPT ![r].step = "failed"]
      BY <2>2 DEF Found, To
    <3> QED
      BY <1>3, <3>1 DEF Shapes
  <2> QED
    BY <2>1, <2>2
<1>5. Served \subseteq Served' => UuidsLeft'
  BY <1>1, <1>3, UuidsKept
<1>6. Configs(config') /\ lock' \in Requests \cup {None}
  BY <1>1 DEF TInv, TypeOK, Configs
<1> QED
  BY <1>1, <1>2, <1>4, <1>5, <1>6, OwnStep

\* Feed, Parse and Expire only move the request.
LEMMA ParseTInv ==
    ASSUME IInv, TInv, NEW r \in Requests, Feed(r) \/ Parse(r) \/ Expire(r)
    PROVE  TInv'
<1>1. UNCHANGED <<config, lock, used, edits, page>> /\ req[r].step \in {"feed", "parse"}
  BY DEF Feed, Parse, Expire
<1>2. r \notin Served
  BY <1>1 DEF Served
<1>3. UuidsLeft /\ Shapes /\ Configs(req[r].mdl)
  BY DEF TInv, TypeOK, IInv
<1>4. PICK s : To(r, s)
  BY DEF Feed, Parse, Expire
<1>5. /\ \A q \in Requests \ {r} : req'[q] = req[q]
      /\ Configs(req'[r].mdl)
  BY <1>3, <1>4 DEF Shapes, To
<1>6. Served \subseteq Served' => UuidsLeft'
  BY <1>1, <1>3, UuidsKept
<1>7. Configs(config') /\ lock' \in Requests \cup {None}
  BY <1>1 DEF TInv, TypeOK, Configs
<1> QED
  BY <1>1, <1>2, <1>5, <1>6, <1>7, OwnStep

LEMMA NewModelTInv ==
    ASSUME IInv, TInv, NEW r \in Requests, NewModel(r)
    PROVE  TInv'
<1>1. /\ UNCHANGED <<config, lock, used, edits, page>> /\ req[r].step = "model"
      /\ With(r, config, "lock")
  BY DEF NewModel
<1>2. r \notin Served
  BY <1>1 DEF Served
<1>3. UuidsLeft /\ Shapes /\ Shape(config) /\ Configs(config)
  BY DEF TInv, TypeOK, IInv
<1>4. /\ \A q \in Requests \ {r} : req'[q] = req[q]
      /\ Configs(req'[r].mdl)
  BY <1>1, <1>3, Moved
<1>5. Served \subseteq Served' => UuidsLeft'
  BY <1>1, <1>3, UuidsKept
<1>6. Configs(config') /\ lock' \in Requests \cup {None}
  BY <1>1 DEF TInv, TypeOK, Configs
<1> QED
  BY <1>1, <1>2, <1>4, <1>5, <1>6, OwnStep

\* An import gets its uuid together with the lock, and only then.
LEMMA LockTInv ==
    ASSUME IInv, TInv, NEW r \in Requests, Lock(r)
    PROVE  TInv'
<1>1. /\ UNCHANGED <<config, edits, page>> /\ req[r].step = "lock" /\ lock' = r
  BY DEF Lock
<1>2. r \notin Served
  BY <1>1 DEF Served
<1>3. /\ UuidsLeft /\ Shapes /\ Shape(req[r].mdl) /\ Configs(req[r].mdl)
      /\ req[r].kind = "import" => Parsed[req[r].arg] \in Contents
  BY ParsedAssumption DEF TInv, TypeOK, IInv, Shapes, LinksAreSeen
<1>4. Configs(config') /\ lock' \in Requests \cup {None}
  BY <1>1 DEF TInv, TypeOK, Configs
<1>5. CASE req[r].kind = "import"
  <2> DEFINE m == Add(req[r].mdl, Fresh, Parsed[req[r].arg])
  <2>1. used' = used \cup {Fresh} /\ With(r, m, "save")
    BY <1>5 DEF Lock
  <2>2. Fresh \in Uuids
    BY <1>2, <1>3, FreshIsNew
  <2>3. Shape(m)
    BY <1>3, RowAdded
  <2>4. Configs(m)
    <3> DEFINE c == req[r].mdl
               x == Parsed[req[r].arg]
               R == [v \in DOMAIN c.rows \cup {Fresh} |-> IF v = Fresh THEN x ELSE c.rows[v]]
    <3>1. m = [[c EXCEPT !.rows = R] EXCEPT !.active = Fresh]
      BY DEF Add
    <3>2. Shape(c) /\ Configs(c) /\ x \in Contents
      BY <1>3, <1>5
    <3>3. DOMAIN R \subseteq Uuids /\ Range(R) \subseteq Contents
      <4>1. /\ DOMAIN R = DOMAIN c.rows \cup {Fresh}
            /\ \A v \in DOMAIN R : R[v] = x \/ (v \in DOMAIN c.rows /\ R[v] = c.rows[v])
        OBVIOUS
      <4> HIDE DEF c, x, R
      <4> QED
        BY <2>2, <3>2, <4>1, OneRowMore
    <3> HIDE DEF R, c, m
    <3>4. Configs([[c EXCEPT !.rows = R] EXCEPT !.active = Fresh])
      BY <2>2, <3>2, <3>3, RowConfig
    <3> QED
      BY <3>1, <3>4
  <2> HIDE DEF m
  <2>5. /\ \A q \in Requests \ {r} : req'[q] = req[q]
        /\ req'[r].step = "save" /\ req'[r].mdl = m
    BY <1>3, <2>1, <2>3, Moved
  <2>6. Served \subseteq Served' => UuidsLeft'
    <3>1. r \in Served' \ Served
      BY <1>2, <2>5 DEF Served
    <3> QED
      BY <1>1, <1>3, <2>1, <3>1, UuidsKept
  <2> QED
    BY <1>1, <1>2, <1>4, <2>4, <2>5, <2>6, OwnStep
<1>6. CASE req[r].kind # "import"
  <2>1. used' = used /\ To(r, "save")
    BY <1>6 DEF Lock
  <2>2. /\ \A q \in Requests \ {r} : req'[q] = req[q]
        /\ req'[r].mdl = req[r].mdl
    BY <1>3, <2>1 DEF Shapes, To
  <2>3. Served \subseteq Served' => UuidsLeft'
    BY <1>1, <1>3, <2>1, UuidsKept
  <2> QED
    BY <1>1, <1>2, <1>3, <1>4, <2>2, <2>3, OwnStep
<1> QED
  BY <1>5, <1>6

LEMMA SaveTInv ==
    ASSUME IInv, TInv, NEW r \in Requests, Save(r)
    PROVE  TInv'
<1>1. UNCHANGED <<used, edits, page>> /\ lock' = None
  BY DEF Save
<1>2. UuidsLeft /\ Shapes /\ Configs(req[r].mdl) /\ Configs(config)
  BY DEF TInv, TypeOK, IInv
<1>3. PICK s \in {"ok", "failed"} : To(r, s)
  BY DEF Save
<1>4. /\ \A q \in Requests \ {r} : req'[q] = req[q]
      /\ req'[r].mdl = req[r].mdl /\ req'[r].step = s
  BY <1>2, <1>3 DEF Shapes, To
<1>5. Configs(config')
  <2>1. config' = config \/ config' = req[r].mdl
    BY DEF Save, Written
  <2> QED
    BY <1>2, <2>1
<1>6. Served \subseteq Served' => UuidsLeft'
  BY <1>1, <1>2, UuidsKept
<1>7. req'[r].step \in {"save", "ok", "failed"}
  BY <1>4
<1> QED
  BY <1>1, <1>2, <1>4, <1>5, <1>6, <1>7, OwnStep

\* A request begins once, so it is served once.
LEMMA BeginTInv ==
    ASSUME IInv, TInv, NEW r \in Requests,
           Confirm(r) \/ \E u \in Uuids : SetActive(r, u)
    PROVE  TInv'
<1>1. /\ UNCHANGED <<config, lock, used, edits, box, flying, shown, ttUri>>
      /\ req[r] = Idle
      /\ \E k, a, s : Begin(r, k, a, s)
  BY DEF Confirm, SetActive, Begin, page
<1>2. UuidsLeft /\ Shapes /\ DOMAIN req = Requests /\ r \notin Served
  BY <1>1 DEF TInv, IInv, Shapes, Served, Idle
<1>3. PICK k, a, s : Begin(r, k, a, s)
  BY <1>1
<1>4. /\ \A q \in Requests \ {r} : req'[q] = req[q]
      /\ req'[r].mdl = InitConfig
  BY <1>2, <1>3 DEF Begin
<1>5. Configs(InitConfig)
  BY InitConfigAssumption, ValidAssumption DEF Configs
<1>6. Served \subseteq Served'
  <2> SUFFICES ASSUME NEW q \in Served PROVE q \in Served'
    OBVIOUS
  <2>1. q \in Requests \ {r} /\ req[q].step \in {"save", "ok", "failed"}
    BY <1>2 DEF Served
  <2>2. req'[q] = req[q]
    BY <1>4, <2>1
  <2> QED
    BY <2>1, <2>2 DEF Served
<1>7. UuidsLeft'
  BY <1>1, <1>2, <1>6, UuidsKept
<1>8. \A q \in Requests : Configs(req'[q].mdl)
  <2> TAKE q \in Requests
  <2>1. CASE q = r
    BY <1>4, <1>5, <2>1
  <2>2. CASE q # r
    <3>1. req'[q] = req[q] /\ Configs(req[q].mdl)
      BY <1>4, <2>2 DEF TInv, TypeOK
    <3> QED
      BY <3>1
  <2> QED
    BY <2>1, <2>2
<1> QED
  BY <1>1, <1>7, <1>8 DEF TInv, TypeOK, Configs

LEMMA EditTInv ==
    ASSUME IInv, TInv, Edit
    PROVE  TInv'
<1>1. /\ UNCHANGED <<lock, req, page>> /\ edits < MaxEdits /\ edits' = edits + 1
  BY DEF Edit
<1>2. UuidsLeft /\ Shape(config) /\ Configs(config) /\ Served' = Served
  BY <1>1 DEF TInv, TypeOK, IInv, Served
<1>3. Fresh \in Uuids
  BY <1>1, <1>2, FreshIsNew
<1>4. used' \subseteq used \cup {Fresh} /\ used \subseteq used'
  BY DEF Edit, AddServer, SetServer, DelServer, SetClient
<1>5. UuidsLeft'
  BY <1>1, <1>2, <1>4, UuidsKept
<1>6. Configs(config')
  <2>1. CASE \E c \in Contents : AddServer(c)
    <3>1. PICK c \in Contents : AddServer(c)
      BY <2>1
    <3> DEFINE R == [v \in DOMAIN config.rows \cup {Fresh} |->
                       IF v = Fresh THEN c ELSE config.rows[v]]
    <3>2. config' = [config EXCEPT !.rows = R]
      BY <3>1 DEF AddServer
    <3>3. DOMAIN R \subseteq Uuids /\ Range(R) \subseteq Contents
      <4>1. /\ DOMAIN R = DOMAIN config.rows \cup {Fresh}
            /\ \A v \in DOMAIN R :
                 R[v] = c \/ (v \in DOMAIN config.rows /\ R[v] = config.rows[v])
        OBVIOUS
      <4> HIDE DEF R
      <4> QED
        BY <1>2, <1>3, <4>1, OneRowMore
    <3> HIDE DEF R
    <3> QED
      BY <1>2, <3>2, <3>3 DEF Shape, Configs
  <2>2. CASE \E c \in Contents, u \in Uuids : SetServer(u, c)
    <3>1. PICK c \in Contents, u \in Uuids : SetServer(u, c)
      BY <2>2
    <3> DEFINE R == [config.rows EXCEPT ![u] = c]
    <3>2. config' = [config EXCEPT !.rows = R]
      BY <1>2, <3>1 DEF SetServer, Shape
    <3>3. DOMAIN R \subseteq Uuids /\ Range(R) \subseteq Contents
      BY <1>2 DEF Configs, Range
    <3> HIDE DEF R
    <3> QED
      BY <1>2, <3>2, <3>3 DEF Shape, Configs
  <2>3. CASE \E u \in Uuids : DelServer(u)
    <3>1. PICK u \in Uuids : DelServer(u)
      BY <2>3
    <3> DEFINE R == Restrict(config.rows, DOMAIN config.rows \ {u})
    <3>2. config' = [config EXCEPT !.rows = R]
      BY <3>1 DEF DelServer
    <3>3. DOMAIN R \subseteq Uuids /\ Range(R) \subseteq Contents
      <4>1. /\ DOMAIN R \subseteq DOMAIN config.rows
            /\ Range(R) \subseteq Range(config.rows)
        BY DEF Range, Restrict
      <4> QED
        BY <1>2, <4>1 DEF Configs
    <3> HIDE DEF R
    <3> QED
      BY <1>2, <3>2, <3>3 DEF Shape, Configs
  <2>4. CASE \E s \in Settings : SetClient(s)
    BY <1>2, <2>4 DEF SetClient, Shape, Configs
  <2> QED
    BY <2>1, <2>2, <2>3, <2>4 DEF Edit
<1> QED
  BY <1>1, <1>5, <1>6 DEF TInv, TypeOK, page, Configs

\* The page alone.
LEMMA PageTInv ==
    ASSUME TInv,
           \/ \E l \in Links : Type(l) \/ Previewed(l)
           \/ Preview \/ Cancel \/ Answered
           \/ UNCHANGED vars
    PROVE  TInv'
<1>1. UNCHANGED <<config, lock, req, used, edits>>
  BY DEF Type, Previewed, Preview, Cancel, Answered, vars
<1>2. UuidsLeft'
  BY <1>1 DEF TInv, UuidsLeft, Served
<1>3. /\ shown' \in Views \cup {None} /\ ttUri' \in Links \cup {None}
      /\ flying' \subseteq Links /\ box' \in Links \cup {None}
  BY ParsedAssumption, ViewAssumption
     DEF TInv, TypeOK, Type, Previewed, Preview, Cancel, Answered, vars, page
<1> QED
  BY <1>1, <1>2, <1>3 DEF TInv, TypeOK, Configs

LEMMA NextTInv == IInv /\ TInv /\ [Next]_vars => TInv'
<1> SUFFICES ASSUME IInv, TInv, [Next]_vars PROVE TInv'
  OBVIOUS
<1>1. ASSUME NEW r \in Requests, Process(r) PROVE TInv'
  BY <1>1, FoundTInv, ParseTInv, NewModelTInv, LockTInv, SaveTInv DEF Process
<1>2. ASSUME NEW r \in Requests, Confirm(r) \/ \E u \in Uuids : SetActive(r, u)
      PROVE  TInv'
  BY <1>2, BeginTInv
<1>3. CASE \/ \E l \in Links : Type(l) \/ Previewed(l)
           \/ Preview \/ Cancel \/ Answered
           \/ UNCHANGED vars
  BY <1>3, PageTInv
<1>4. CASE Edit
  BY <1>4, EditTInv
<1> QED BY <1>1, <1>2, <1>3, <1>4 DEF Next

\* The rows have uuids, and active_server names one or none: there is always a
\* uuid left for an import or an edit, so that none gets a row's identifier.
THEOREM TypeCorrect == Spec => []TypeOK
<1>1. TInv => TypeOK
  BY DEF TInv
<1> QED BY <1>1, InitTInv, NextTInv, Inductive, PTL DEF Spec
=============================================================================

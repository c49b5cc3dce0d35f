----------------------------- MODULE ClientStore ----------------------------
(***************************************************************************)
(* The client's part of config.xml, its peers and which of them is active, *)
(* and what writes it: the two actions that this plugin saves with code of *)
(* its own, setActiveAction and confirmImportAction, each a web request    *)
(* that reads the model first and takes the lock later; the edits that the *)
(* framework does under its lock; and the import page, which shows a link  *)
(* before it is saved.  Deeplink and Enrolment have what a link contains.  *)
(***************************************************************************)
EXTENDS Functions, FiniteSets, Naturals

CONSTANTS
    Uuids,       \* row identifiers
    Links,       \* what may be pasted and can be parsed
    Contents,    \* what a row may hold
    Large,       \* links too long for a pipe that nobody reads from
    Parsed,      \* what deeplink_parse.py makes of a link
    Views,       \* what the dialog may show
    View,        \* the part of a row's contents that it shows
    Valid,       \* contents that the model's validation accepts
    Settings,    \* values of the client's other settings
    Requests,    \* web requests, each made at most once
    None,
    InitConfig,  \* config.xml at first
    MaxEdits     \* how many edits of the framework

ASSUME ParsedAssumption == Parsed \in [Links -> Contents]
ASSUME ViewAssumption == View \in [Contents -> Views]
ASSUME ValidAssumption == Valid \subseteq Contents
ASSUME LargeAssumption == Large \subseteq Links
\* config.xml starts with rows that were saved through the model.
ASSUME InitConfigAssumption ==
    /\ InitConfig = [rows     |-> InitConfig.rows,
                     active   |-> InitConfig.active,
                     settings |-> InitConfig.settings]
    /\ DOMAIN InitConfig.rows \subseteq Uuids
    /\ Range(InitConfig.rows) \subseteq Valid
    /\ InitConfig.active \in Uuids \cup {None} /\ InitConfig.settings \in Settings
ASSUME BoundsAssumption ==
    IsFiniteSet(Uuids) /\ IsFiniteSet(Requests) /\ MaxEdits \in Nat
\* Uuids are random: there is always a new one.
ASSUME UuidsAssumption ==
    Cardinality(Uuids) >= Cardinality(DOMAIN InitConfig.rows)
                            + Cardinality(Requests) + MaxEdits
ASSUME NoneAssumption == None \notin Uuids \cup Links \cup Views \cup Requests

VARIABLES
    config,   \* <client> of config.xml: rows, active_server, settings
    lock,     \* the request that holds Config::lock, or None
    req,      \* the requests: step, kind, argument and $mdl
    used,     \* auxiliary: uuids given out so far; they are random
    edits,    \* auxiliary: edits of the framework so far
    box,      \* #ImportUriBox
    flying,   \* links whose preview has not answered yet
    shown,    \* the fields in the trust-gate dialog
    ttUri,    \* __ttUri
    dialog,   \* is the dialog open
    posted,   \* the confirmation that the page waits for, or None
    typed,    \* auxiliary: contents an administrator typed in
    agreed    \* auxiliary: which link an administrator confirmed, seeing what

page == <<box, flying, shown, ttUri, dialog, posted>>
gate == <<typed, agreed>>
vars == <<config, lock, req, used, edits, page, gate>>

Idle == [step |-> "idle", kind |-> "none", arg |-> None, mdl |-> InitConfig]

Init ==
    /\ config = InitConfig /\ lock = None
    /\ req = [r \in Requests |-> Idle]
    /\ used = DOMAIN InitConfig.rows /\ edits = 0
    /\ box = None /\ flying = {} /\ shown = None /\ ttUri = None
    /\ dialog = FALSE /\ posted = None
    /\ typed = Range(InitConfig.rows) /\ agreed = {}

Fresh == CHOOSE u \in Uuids : u \notin used

Begin(r, kind, arg, step) ==
    /\ req[r] = Idle
    /\ req' = [req EXCEPT ![r] = [step |-> step, kind |-> kind, arg |-> arg,
                                  mdl |-> InitConfig]]
To(r, step) == req' = [req EXCEPT ![r].step = step]
With(r, mdl, step) == req' = [req EXCEPT ![r].mdl = mdl, ![r].step = step]

----------------------------------------------------------------------------
(* setActiveAction. *)

SetActive(r, u) ==
    /\ Begin(r, "setActive", u, "model")
    /\ UNCHANGED <<config, lock, used, edits, page, gate>>

\* getModel; the uuid must be there.
Found(r) ==
    /\ req[r].step = "model" /\ req[r].kind = "setActive"
    /\ IF req[r].arg \in DOMAIN config.rows
       THEN With(r, [config EXCEPT !.active = req[r].arg], "lock")
       ELSE To(r, "failed")
    /\ UNCHANGED <<config, lock, used, edits, page, gate>>

----------------------------------------------------------------------------
(* confirmImportAction. *)

\* runDeeplinkParse refuses the link, or starts the parser and writes the whole
\* link to it, which may have to wait until the parser reads.
Feed(r) ==
    /\ req[r].step = "feed"
    /\ To(r, "parse") \/ To(r, "failed")
    /\ UNCHANGED <<config, lock, used, edits, page, gate>>

\* The parser's result; if it is the user name that is invalid, it ends here.
Parse(r) ==
    /\ req[r].step = "parse"
    /\ \/ To(r, "model")
       \/ Parsed[req[r].arg] \notin Valid /\ To(r, "failed")
    /\ UNCHANGED <<config, lock, used, edits, page, gate>>

\* Mutant: no deadline.
ExpireNever(r) == FALSE /\ UNCHANGED vars
\* The child ends without a result, or the 10 s that begin when it has got the
\* link are over and it is killed, its output unused.
Expire(r) ==
    /\ req[r].step = "parse"
    /\ To(r, "failed")
    /\ UNCHANGED <<config, lock, used, edits, page, gate>>

\* new TrustTunnelClient()
NewModel(r) ==
    /\ req[r].step = "model" /\ req[r].kind = "import"
    /\ With(r, config, "lock")
    /\ UNCHANGED <<config, lock, used, edits, page, gate>>

\* The row is added and made the active one, in the model only.  Mutant: the
\* row is named, not identified.
AddNamed(mdl, u, c) ==
    [mdl EXCEPT !.rows = [v \in DOMAIN @ \cup {u} |-> IF v = u THEN c ELSE @[v]],
                !.active = c]
Add(mdl, u, c) ==
    [mdl EXCEPT !.rows = [v \in DOMAIN @ \cup {u} |-> IF v = u THEN c ELSE @[v]],
                !.active = u]

----------------------------------------------------------------------------
(* Both. *)

Lock(r) ==
    /\ req[r].step = "lock" /\ lock = None
    /\ lock' = r
    /\ IF req[r].kind = "import"
       THEN /\ used' = used \cup {Fresh}
            /\ With(r, Add(req[r].mdl, Fresh, Parsed[req[r].arg]), "save")
       ELSE To(r, "save") /\ UNCHANGED used
    /\ UNCHANGED <<config, edits, page, gate>>

\* Mutant: what is saved is the active row alone, into the rows as they are.
WrittenActiveOnly(mdl) == [config EXCEPT !.active = mdl.active]
\* serializeToConfig and save write the whole model.
Written(mdl) == mdl

\* Mutant: no validation.
AcceptedAll(r) == TRUE
\* validate(null, false) looks at the fields that the request has changed; of
\* setActiveAction's only the uuid, which is one.
Accepted(r) == req[r].kind = "import" => Parsed[req[r].arg] \in Valid

Save(r) ==
    /\ req[r].step = "save"
    /\ lock' = None
    /\ \/ /\ Accepted(r)
          /\ config' = Written(req[r].mdl)
          /\ To(r, "ok")
       \/ To(r, "failed") /\ UNCHANGED config  \* refused, or the write fails
    /\ UNCHANGED <<used, edits, page, gate>>

----------------------------------------------------------------------------
(* The framework's edits: read, checked and saved under the lock. *)

AddServer(c) ==
    /\ c \in Valid
    /\ config' = [config EXCEPT !.rows = [v \in DOMAIN @ \cup {Fresh} |->
                                            IF v = Fresh THEN c ELSE @[v]]]
    /\ used' = used \cup {Fresh} /\ typed' = typed \cup {c} /\ UNCHANGED agreed

SetServer(u, c) ==
    /\ u \in DOMAIN config.rows /\ c \in Valid
    /\ config' = [config EXCEPT !.rows[u] = c]
    /\ typed' = typed \cup {c} /\ UNCHANGED <<used, agreed>>

\* active_server is left as it is.
DelServer(u) ==
    /\ u \in DOMAIN config.rows
    /\ config' = [config EXCEPT !.rows = Restrict(@, DOMAIN @ \ {u})]
    /\ UNCHANGED <<used, gate>>

SetClient(s) == config' = [config EXCEPT !.settings = s] /\ UNCHANGED <<used, gate>>

Edit ==
    /\ lock = None /\ edits < MaxEdits
    /\ edits' = edits + 1
    /\ \/ \E c \in Contents : AddServer(c) \/ \E u \in Uuids : SetServer(u, c)
       \/ \E u \in Uuids : DelServer(u)
       \/ \E s \in Settings : SetClient(s)
    /\ UNCHANGED <<lock, req, page>>

\* find_active_server of render_client_config.py: the row, if there is one.
FindActive(c) == {c.rows[u] : u \in {c.active} \cap DOMAIN c.rows}

----------------------------------------------------------------------------
(* The import page. *)

\* Typing enables the button again, so several previews may be on their way.
Type(l) ==
    /\ ~dialog
    /\ box' = l
    /\ UNCHANGED <<config, lock, req, used, edits, flying, shown, ttUri, dialog,
                   posted, gate>>

Preview ==
    /\ ~dialog /\ box # None
    /\ flying' = flying \cup {box}
    /\ UNCHANGED <<config, lock, req, used, edits, box, shown, ttUri, dialog,
                   posted, gate>>

\* previewAction answers, in any order.  The dialog shows name, host name,
\* addresses, user name, protocol, IPv6 and fingerprint; it does not show the
\* password, custom_sni, skip_verification, anti_dpi, client_random_prefix and
\* dns_upstreams, which will be saved as well.
Previewed(l) ==
    /\ l \in flying /\ flying' = flying \ {l}
    /\ \/ /\ shown' = View[Parsed[l]] /\ ttUri' = l /\ dialog' = TRUE
       \/ UNCHANGED <<shown, ttUri, dialog>>  \* refused, or its 10 s are over
    /\ UNCHANGED <<config, lock, req, used, edits, box, posted, gate>>

Cancel ==
    /\ dialog /\ dialog' = FALSE
    /\ UNCHANGED <<config, lock, req, used, edits, box, flying, shown, ttUri,
                   posted, gate>>

\* Mutant: the link is taken from the text box.
LinkInBox == box
LinkToPost == ttUri

Confirm(r) ==
    /\ dialog /\ posted = None /\ LinkToPost # None
    /\ Begin(r, "import", LinkToPost, "feed")
    /\ posted' = r
    /\ agreed' = agreed \cup {<<ttUri, shown>>} /\ UNCHANGED typed
    /\ UNCHANGED <<config, lock, used, edits, box, flying, shown, ttUri, dialog>>

\* The answer closes the dialog; after a refusal, or if the answer is lost,
\* it stays and can be confirmed again.
Answered ==
    /\ posted # None /\ posted' = None
    /\ \/ /\ req[posted].step = "ok"
          /\ dialog' = FALSE /\ box' = None
       \/ UNCHANGED <<dialog, box>>
    /\ UNCHANGED <<config, lock, req, used, edits, flying, shown, ttUri, gate>>

----------------------------------------------------------------------------
Process(r) ==
    Found(r) \/ Feed(r) \/ Parse(r) \/ Expire(r) \/ NewModel(r) \/ Lock(r) \/ Save(r)

Next ==
    \/ \E r \in Requests : Process(r) \/ Confirm(r) \/ \E u \in Uuids : SetActive(r, u)
    \/ \E l \in Links : Type(l) \/ Previewed(l)
    \/ Preview \/ Cancel \/ Answered \/ Edit

\* The request's own steps go on.  Nothing is assumed of the parser, which may
\* run on until the deadline, nor that it reads what it is given: only a link
\* that the pipe takes is sure to be handed over.
Fairness ==
    \A r \in Requests :
      /\ WF_vars(Found(r)) /\ WF_vars(req[r].arg \notin Large /\ Feed(r))
      /\ WF_vars(Expire(r)) /\ WF_vars(NewModel(r))
      /\ WF_vars(Lock(r)) /\ WF_vars(Save(r))

Spec == Init /\ [][Next]_vars /\ Fairness

----------------------------------------------------------------------------
(* Properties. *)

Configs(c) ==
    /\ DOMAIN c.rows \subseteq Uuids /\ Range(c.rows) \subseteq Contents
    /\ c.active \in Uuids \cup {None} /\ c.settings \in Settings

\* The state's types.
TypeOK ==
    /\ Configs(config) /\ \A r \in Requests : Configs(req[r].mdl)
    /\ lock \in Requests \cup {None}
    /\ shown \in Views \cup {None}
    /\ ttUri \in Links \cup {None} /\ flying \subseteq Links

\* What was typed in, and what the parser makes of a link that was confirmed
\* while the dialog showed that link's fields.
Vetted ==
    typed \cup {Parsed[l] : l \in {k \in Links : <<k, View[Parsed[k]]>> \in agreed}}

\* The trust gate binds: a row that nobody typed in is what the parser makes of
\* a link, and an administrator confirmed that very link with the dialog showing
\* its fields, however previews and confirmations overlap.  What the dialog
\* leaves out is saved as the link has it, without having been seen.
ConfirmedAsShown == Range(config.rows) \subseteq Vetted

\* Stored rows satisfy the model, whoever wrote them.
RowsAreValid == Range(config.rows) \subseteq Valid

\* Whatever other edits happen between a request's reading and its saving, the
\* renderer finds the active server in what setActiveAction or
\* confirmImportAction leaves.
ActiveIsARow ==
    [][(lock # None /\ config' # config) => (FindActive(config') # {})]_vars

\* A request that has begun is answered, whatever the parser does, unless that
\* leaves a link unread that is larger than the pipe: the deadline is set only
\* when the link has been written.
Unread(r) == req[r].step = "feed" /\ req[r].arg \in Large
RequestsEnd ==
    \A r \in Requests :
      (req[r].step # "idle" /\ ~Unread(r)) ~> (req[r].step \in {"ok", "failed"})

\* setActiveAction is said to write atomically: of the configuration as it is
\* when the action saves, it changes active_server and nothing else.
SetsOnlyActive ==
    [][\A r \in Requests :
         (req[r].kind = "setActive" /\ lock = r) =>
           (config' = [config EXCEPT !.active = config'.active])]_vars
=============================================================================

# A TLA+ model of the OPNsense TrustTunnel plugins

This directory holds the formal model kept beside the code: TLA+ modules for the
parts whose behaviour depends on order, failure, concurrency or the exact form of
data that two programs have to agree on, TLC configurations that check them on small
instances, and proofs checked by TLAPS.

    tlc -workers 2 -config Tun.cfg MCFreeBsdTun      # a run; all are listed below
    tlapm FreeBsdTun_proofs.tla                      # the proofs of a module

## 1. The system

Two OPNsense plugins, an endpoint (server) and a client, plus a FreeBSD port overlay
that gives the upstream C++ client a tun(4) backend. The daemons themselves are
upstream binaries; what the repository adds is everything that configures, starts,
supervises and stops them, the link that carries a user's settings from one to the
other, and the TUN backend.

| component | state it keeps | operations | made correct by |
|---|---|---|---|
| atomic file replacement (`_write_atomic` in both renderers, `write_atomic` in `materialize_certs.php`) | `<path>.new`, `<path>` | open, write, fsync, close, chmod, rename | a reader finds nothing or one complete version; the name never vanishes |
| TUN backend (`os_tunnel_freebsd.cpp`) | descriptor, interface name, `m_owned`, routes added | `init`, `deinit` | it removes all it made and nothing else |
| client service (configd actions, `rc.d/trusttunnel_client`, `daemon -r -R 5`) | rendered TOML, pidfile, supervisor, child | start, stop, restart, reconfigure, Apply, status, hooks | one supervisor, no orphan, stop is clean, Apply takes effect, crash is recovered |
| endpoint chain (`materialize_certs.php && render_server_config.py && onerestart`) | `cert.pem`, `key.pem`, four TOML files, process | reconfigure, start, stop, restart, user deletion | files of one configuration, matching pair, what was applied is served, what was revoked is not |
| endpoint file contents (`render_server_config.py`) | none | validate, escape, write | every value arrives as it is; files and links name the same endpoint and login |
| certificate chain (`cert_helpers.php`) | none | walk `caref` | leaf first, whole or refused, ends on cycles |
| client configuration store (`ClientController`, `DeeplinkController`) | peers, `active_server`, settings, `Config::lock` | CRUD, set active, confirm an import | the active server exists, no edit is lost, nothing is stored that was neither typed in nor confirmed |
| deep-link export (`deeplink_export.py`) | none | export a user | what is exported can be imported |
| deep-link import (`deeplink_parse.py`, `DeeplinkController`, `client.volt`) | parser subprocess, dialog, pending link | preview, confirm | ends in time, reads what was written, saves the link that was shown |
| client rendering (`render_client_config.py`) | none | validate, escape, write | a row that was accepted can be rendered, and reads back as it was |
| upstream multiplexer patch | upstream connections | health check | a check during opening is not a failure |
| registration and HA sync (`plugins.inc.d`) | none | tables for OPNsense | the standby can be rendered |
| models, forms, package scripts, ports | none of their own | | |

How they interact. The web pages call API controllers. Controllers edit `config.xml`
through OPNsense's model layer and ask configd to run an action; configd runs each
request in a thread of its own and serialises nothing, so actions overlap. An action is
a shell chain joined by `&&`; each script of the chain reads `config.xml` again. The
chain ends in the rc.d script, which signals or starts daemon(8). The client's daemon
restarts its child for ever, the endpoint's does not restart at all. The boot and
shutdown hooks enqueue the same actions. A link goes by hand from the endpoint's page to
the client's: exported from the endpoint's configuration, copied, parsed by a child
process of the controller, shown in a dialog, parsed a second time when it is confirmed,
stored as a peer and from there rendered into the client's file.

What is hard here: jobs that overlap; the several files of one configuration, replaced
one at a time; state checked and used later (interface names, pids, `config.xml`, a
model that is read before its lock is taken); failures half-way through a chain or
through the set-up of an interface; processes that are killed and leave kernel state
behind; and one value (a password, a port, a certificate) that passes through six
programs, each with its own idea of widths, limits and escaping. `PROJECT.json` lists
each as a hazard at its line, with the property that covers it or the reason why none
does.

## 2. Modules

| module | models | state corresponds to |
|---|---|---|
| `AtomicFile` | the helper's promise | `content`: what a reader finds; `request`: the version each caller is asking for; `void`: whether the promise is off |
| `AtomicWrite` | the helper, one system call per action | `tmp`/`target`: the two names; `data`, `synced`: inodes; `pc`, `fd`, `version`: each writer |
| `FreeBsdTun` | the TUN backend and the part of the kernel it uses | `fd`, `name`, `owned`, `recorded`, `active`: the class's members; `iface`, `holder`, `route`: the kernel |
| `ClientService` | jobs, rc.d, supervisor; extends `FreeBsdTun`, which is the child process | `daemon`, `pidfile`: supervisors; `file`: the rendered TOML; `job`, `verb`, `victim`: each configd thread |
| `EndpointApply` | edits, trust store, the chain, the endpoint process | `certpem`, `keypem`, `toml`: files; `job`, `pem`, `seen`: what each chain has read; `endpoint`: what the process loaded |
| `Deeplink` | exporter, copied text and parser, byte by byte | `buf`, `ends`: `build_deeplink`; `off`, `entries`, `cfg`, `certs`: the loops of the parser |
| `Toml` | `_toml_escape` of both renderers, and a TOML reader | operators only |
| `ServerRender` | the contents of the endpoint's files and of `cert.pem` | operators only |
| `ClientRender` | the row an import adds and the contents of the client's file | operators only |
| `Enrolment` | the composition: one configuration to both ends; extends `Deeplink`, instantiates the two renderers | as `Deeplink` |
| `ClientStore` | `config.xml` of the client, web requests, the framework's edits, the import page | `config`, `lock`; `req`: step, argument and `$mdl` of each request; `box`, `flying`, `shown`, `ttUri`, `dialog`: the page |
| `MC…` | the instances TLC checks | |
| `…_proofs` | theorems and their proofs | |

Each action is one system call, one command, one round of a loop or one link of a chain,
as `"map"` in `PROJECT.json` records line by line; definitions with "Mutant" in
their comment are plausible bugs, used to show that each property can fail.

**AtomicWrite.** Names and inodes are separate because an open descriptor follows the
inode while chmod and rename go by name, which is where two writers meet. A version is
its identity and its size in blocks, so a short file and a mixture of two versions are
distinguishable. `Write`, `ShortWrite`, `SyncAndClose`, `Chmod`, `Replace` follow the
helper; `Fail` is the error path, in which only the PHP copy unlinks the staged name
(`CleansUp`). Only the writers in `Syncs` fsync: the Python helpers do; the PHP copy calls
`fflush`, which empties the buffer of the process and no more, though
`materialize_certs.php:36` says that it mirrors the Python helper and
`docs/architecture.md:23-24` that keys are written atomically. A power cut keeps names and
truncates each inode that was not synced to some prefix of its blocks; that is the
external assumption about the file system. `overlapped` and `lost` are history variables:
two writers have been in the helper at once; a power cut has caught the file in use
before it was on disk, and nothing has replaced it since. `AtomicFile` promises nothing
after two requests have overlapped (`Anything`) and, where a helper does not sync, nothing
between such a power cut and the next version (`Lose`), because the code does not: see
section 4.

**FreeBsdTun.** `CheckName`, `OpenDevice`, the two ioctls, `GetIndex`, `SetupIf` and one
`AddRoute` per route are `init`; `DeleteRoute`, `CloseFd` and `Destroy` are `deinit`.
Each may fail where `Failures` says so. The kernel is external: opening a node clones or
creates the interface, a device is held exclusively, a destroyed interface takes its
routes along. Whether closing a tun keeps static routes, and whether `route delete`
removes a route to the same network that goes elsewhere, is left open (both outcomes
are explored). Other tools create, open and destroy their own interfaces and add and
remove their own routes at any time. `spoilt` is a history variable: set by a kill and by
the failures that the code does not undo. These are the failed ioctls and
`if_nametoindex` in `tun_open`, which close the descriptor and leave an interface that
`open` created; a command of `deinit` that fails (a warning is logged); and an attached
interface that vanished between the name check and the open, which `open` then creates
and nothing destroys. `DestroyHangs` is what `docs/troubleshooting.md:268-269` warns of: the
destroy gets stuck in the kernel and `deinit` with it (`hung`), until the process is
killed. Not modelled: addresses and MTU, DNS, the IPv6 loops (never run).

**ClientService.** A job goes through the steps of its action; between two steps
anything else may happen. `Preflight` is `validateRuntimeInterfaces`, `Render` the
renderer's acceptance and write (its contents are `ClientRender`'s subject, its
atomicity `AtomicWrite`'s). rc.subr and daemon(8) are external, modelled from the flags
and variables the rc.d script sets: `ReadPid`, `SendTerm` and `AwaitExit` are a stop
(`FreshPids` leaves out that a pid a stop is holding is given to a new process);
`IsRunning` and `StartDaemon` a start, where the daemon's lock on the pidfile decides.
The supervisor forks, reaps, sleeps and forks again; after SIGTERM it passes the signal
on and waits for its child. The child's steps are `FreeBsdTun`'s, without the two
failures inside `tun_open` that the supervisor cannot tell from others. `alone` and
`calm` are history variables: a job that nothing overlapped, and what it achieved.

**EndpointApply.** A configuration is its users, its certificate, and whether the
renderer accepts the rest. `Materialize` chooses or refuses the certificate, `WriteCert`
and `WriteKey` replace (or remove) the pair, `Render` validates everything before
anything is written, `WriteToml` replaces one file. `StopEndpoint` and `StartEndpoint`
are the rc.d script, a whole stop or start being one step. `Loadable` and `Loaded` say
what the upstream endpoint does with its files, from the way the renderer writes them
(`credentials_file` only when there are users). `rules.toml` is constant and left out.
`revoked` is a history variable: how the deletion of a user was answered and whether
its chain ended with OK, until the user is added again. `calm` marks an undisturbed
reconfigure.

**Deeplink.** Bytes are numbers below `4 * Q`, because a varint keeps two bits of its
first byte for its width; the programs have `Q = 64`. `EncodeVarint`, `DecodeVarint`,
`Tlv` and `ReadTlv` are the codec, with both sides' limits; `ExportedFields` is what
`build_deeplink` puts into a link for a user, `Put` appends one field. `PasteAny` lets
any beginning of the link arrive (base64 is modelled by how many bytes a number of
characters stands for). `Parse`, `Apply` and `Split` are one round each of `parse_tlv`,
of the loop in `deeplink_to_config` and of `split_der_certs`. Beside the exporter's links
there are those of other writers (newer tags, repeated, missing and malformed fields)
and payloads that nobody wrote. The SHA-256 fingerprint and the drawing of the QR code
are left out; `NoQr` is the QR tool's refusal, after which no link is shown.

**Toml, ServerRender, ClientRender, Enrolment.** A text is a sequence of characters, of
which only those matter that some program treats specially. `Escape` is the renderers'
function, `Reads` a reader written independently of it. `Items` is `_csv`, which strips
each item and drops the blank ones; `Blanks` are what `strip()` takes off, but for the
control characters that the renderer refuses anyhow. `Accepted` and `Files` are the
endpoint's renderer and the certificate chain (`CaBlocks` is the loop along `caref`, one
`CaRound` a round, with at most one round more than there are CAs);
`Row`, `RowAccepted`, `RenderAccepts` and `File` are the import's row, the model's
masks and the client's renderer. `Enrolment` follows one endpoint configuration through
all of them and compares the two ends. What the chain should be is said without a loop:
`Ways` are the injective sequences of CAs in which each names the next and the last
names none.

**ClientStore.** A request is the sequence *read the model, take the lock, save the
model*; `setActiveAction` and `confirmImportAction` differ in what they put into the
model and in what `validate(null, false)` then looks at, which is only what was changed.
The import first writes the link to the parser (`Feed`), which may have to wait until the
parser reads, and then takes its result (`Parse`), unless it ends badly or is killed at
its deadline (`Expire`). `Large` are the links that no pipe holds. `Edit` is any of OPNsense's generic actions, atomic under the
lock. The page may have several previews under way, answered in any order; the dialog
shows `shown` and posts `ttUri`. It shows a part of the contents only, `View`
(`client.volt:234-240`: name, host name, addresses, user name, protocol, IPv6,
fingerprint); the password, `custom_sni`, `skip_verification`, `anti_dpi`,
`client_random_prefix` and `dns_upstreams` are saved unseen (`DeeplinkController.php:190-205`).
`typed` and `agreed` are history variables: the contents that an administrator typed in,
and which link was confirmed while the dialog showed what. What a link contains
is `Deeplink`'s and `Enrolment`'s subject, here it is `Parsed`.
External and taken from how the controllers use it: reading the model gives what was
last saved, saving writes the whole model, a new row's uuid was never used before, and
`proc_close` returns the parser's status although `proc_get_status` has collected it
(true of PHP since 8.3).

## 3. Runs

| run | instance | checks |
|---|---|---|
| `AtomicWrite` | 2 writers, one that syncs and one that does not but cleans up; 3 inodes, versions of 1 and 2 blocks, power cuts | types; `TargetComplete`, `TargetStays`, refinement `Implements` |
| `Tun` | 2 interfaces, 2 routes, automatic names and attach mode, all failures, a destroy that hangs, kills, other tools | `OwnedIsOurs`, `NoForeignDestroy`, `RoutesTracked`, `ForeignRoutesKept`, `CleanExit`, `TeardownCompletes` |
| `TunRace` | explicit names in create mode, no failure, no kill | *violates* `NoForeignDestroy` |
| `ClientJobs` | 2 jobs, 2 supervisors, automatic, explicit and refused settings, failures of open, set-up and routes, a destroy that hangs | `OneSupervisor`, `NoOrphan`, `StoppedIsClean`, `AppliedIsRun` |
| `ClientRecovery` | 2 jobs (any of Apply, which stops and starts, and stop), 2 supervisors, 1 kill, automatic names, no managed route, a destroy that hangs | liveness: `Recovers`, `JobsReturn` |
| `ClientNamedCrash` | 1 job, 1 kill, an explicit name | *violates* `Recovers` |
| `EndpointSerial` | 2 users, 1 certificate renewed once or deleted, 1 job | `SameGeneration`, `PairMatches`, `StillRestartable`, `RevokedIsGone` |
| `EndpointFaults` | 1 user, any configuration, faults and kills at every step | `AppliedIsServed` |
| `EndpointRevoke` | 1 user | *violates* `RevocationHolds` |
| `Deeplink` | about 100 endpoint configurations, 2 requests each, links of other writers, unwritten payloads, cut at every character | types; `EntriesAreFields`, `LastFieldWins`, `CutKeepsLogin`, `LoopsMoveOn`; `EnrolmentWorks`, `LoginMatches`, `EndpointMatches`, `CertificateMatches`, `CertificatesWhole` |
| `ClientStore` | 2 requests, 1 edit by the framework, 2 links of which one has contents the model refuses and is larger than a pipe, 4 uuids | types; `ConfirmedAsShown`, `RowsAreValid`, `ActiveIsARow`; liveness `RequestsEnd` |
| `ClientStoreLostEdit` | the same | *violates* `SetsOnlyActive` |

Why the bounds are enough. Writers interfere in pairs, through one staged name, and a
third inode is needed for a new file while the old one is open and a stale one staged.
Two interface names give the client's and another tool's; two routes give the case of a
route added and the next refused. Two jobs are all pairs of overlapping actions, and two
supervisors are one more than there should ever be. In `ClientRecovery` the jobs are
Apply and stop: the steps of an Apply contain those of a reconfigure, a restart and a
start. `MaxCrashes = 1` is enough for a recovery, and more kills repeat it from a state
already reached. `MaxVersion = 2` gives a
certificate that was renewed once. `ClientJobs` uses the symmetry of jobs and of
supervisors (only invariants are checked there).

In `Deeplink` bytes have 16 values (`Q = 4`), so that lengths and tags of two bytes
occur at 4 and the limits of 130 (`MaxUri`, `MaxField`), 16 (`MaxCert`) and 4
(`MaxName`) are passed by short payloads; the theorems hold for every `Q` and every
limit. The endpoint configurations vary one thing each: every password of up to two of
the characters that are special somewhere, tab and the letters of escapes among them; eight forms of listen address (IPv6, without
port, port too large, malformed); host names, among them an IPv6 address and one that is
longer than a row's name may be; aliases; lists of users; protocols; certificates with
short and long DER headers and one over the limit; and every trust store of two CA
certificates, which gives chains of every length from none to two, cycles, gaps and
missing CAs. Unwritten payloads are all those of up to three bytes over six byte values.
Links of other writers bring several certificates, broken ones, bytes behind the last,
and addresses and upstreams with blanks around them or of nothing else. The run has
53,876 distinct states.

In `ClientStore` two requests are every pair of a saving action with itself and with the
other, and the edit is what may come between a reading and its saving. Four uuids are one
row at first, two imports and one added row.

In `ClientStore` both links look the same in the dialog and differ in what it does not
show, and one of them is larger than a pipe.

Deadlock is checked in every passing run except three, which stop of themselves:
`Deeplink`, where a link ends at its last program; `ClientStore`, where the requests and
edits are used up; and `ClientRecovery`, where a client that hangs in the kernel after
the one kill there is leaves everyone waiting for it.

Fairness. `FreeBsdTun` assumes weak fairness of the teardown: a process that has begun
`deinit` runs on, each command ending somehow, but for `ifconfig destroy`, which
`docs/troubleshooting.md:268-269` says may get stuck in the kernel
(`if_detach`, `epoch_drain_callbacks`). `DestroyHangs` is that outcome, and
`TeardownCompletes` and `JobsReturn` except it by name: a job that stops such a client
waits as long as the kernel does. `ClientService` assumes fairness of each job, each
supervisor and the child, which the scheduler grants, and of the delivery of a signal the
supervisor passes on. `ClientStore` assumes it of a request's own steps, among them the
expiry of the parser's deadline, which the controller's loop sees. That deadline is set
(`DeeplinkController.php:80`) only after a blocking write of the whole link, up to 64 KB,
to the parser's stdin (line 75): of a parser that does not read, the fairness of `Feed`
assumes no more than that a link not in `Large` fits into the pipe. `RequestsEnd` is
therefore not claimed for a large link that its parser leaves unread (`Unread`), where the
code does not keep what its comment says, that "the webserver never blocks on a
CPU-spinning child" (lines 43-45). Of the parser nothing else is assumed. Nothing is
assumed of operators, of jobs being submitted or of failures ending; `ClientRecovery`
therefore has no failures beside the kill and the hang. The other modules state safety only
(`LoopsMoveOn` is the safety half of termination: no round of a loop stands still).

### What the violated runs show

* **`TunRace`.** `tun_open` asks `if_nametoindex` for the name and opens the device
  later, and derives `m_owned` from the setting alone. An interface that another tool
  creates in between is opened, configured and, on stop, destroyed, though
  `docs/troubleshooting.md:135-136` says only its own is.
* **`ClientNamedCrash`.** With an explicit `tun<N>` in create mode, a killed client
  leaves the interface, and every restart refuses the name that is taken: the
  supervisor restarts for ever and the tunnel never returns, though
  `docs/troubleshooting.md:238` and `docs/architecture.md:71-73` promise the restart
  after 5 seconds as the recovery.
* **`EndpointRevoke`.** `delUserAction` ignores what the chain answered: after a refused
  render it reports `reconfigured` while the endpoint serves the user on, though
  `server.volt:186` announces the disconnect.
* **`ClientStoreLostEdit`.** `setActiveAction` reads the model, takes the lock later and
  then writes all of what it read: a peer that was added in between disappears, a deleted
  one comes back, a changed setting is reset, though the comment at
  `ClientController.php:59-61` says that it "atomically writes".

## 4. Proofs

Everything below holds for every value of the constants that meets the named
assumptions. The inductive invariants were model-checked on the instances of section 3
before they were proved.

| theorem | assumes | argument |
|---|---|---|
| `AtomicWrite_proofs!TypeCorrect`, `TargetNeverVanishes` | | types; the only step that writes `target` is `Replace`, and it writes an existing inode |
| `AtomicWrite_proofs!FileIsComplete` | | `OrderlyInv` |
| `AtomicWrite_proofs!SyncedFileIsComplete` | `Durable` | `OrderlyInv` |
| `AtomicWrite_proofs!HelperImplementsAtomicFile` | | `OrderlyInv`; each step maps to `Ask`, `Publish`, `Reject`, `Lose`, `Anything` or a stutter |
| `FreeBsdTun_proofs!TypeCorrect` | | types |
| `FreeBsdTun_proofs!RoutesAreTracked`, `ExitsClean`, `ForeignRoutesSafe` | | `CleanInv` |
| `FreeBsdTun_proofs!OwnershipCorrect`, `ForeignInterfacesSafe` | `NoNamedCreate` | an invariant that ties `owned` and the descriptor to the interface's maker |
| `ClientService_proofs!ServiceTypes`, `SingleSupervisor`, `ClientIsSupervised`, `AppliedSettingsRun` | | `ServiceInv` |
| `ClientService_proofs!StopLeavesNothing` | `Undisturbed` | `ServiceInv`, and that nothing is ever spoilt |
| `ClientService_proofs!ServiceRunsBackend` | | every step of the service is a step of the TUN backend or a stutter |
| `ClientService_proofs!ServiceRoutesTracked`, `ServiceExitsClean`, `ServiceForeignRoutes` | | `ServiceRunsBackend` and the backend's theorem |
| `ClientService_proofs!ServiceForeignInterfaces` | `NoNamedCreate` | likewise |
| `EndpointApply_proofs!TypeCorrect` | | types, any number of jobs |
| `EndpointApply_proofs!AppliedEffective` | | `ApplyInv`, any number of jobs, faults |
| `EndpointApply_proofs!PairStaysTogether`, `OneGeneration` | `Alone` | `FilesInv`: where each link has brought each file |
| `EndpointApply_proofs!StaysRestartable` | `Alone`, `CertChosen` | `RestartInv` |
| `EndpointApply_proofs!RevocationEffective` | `OneJob` | `RevokeInv`: no source from which a start could take the user |
| `Deeplink_proofs!VarintRoundTrip` | | arithmetic of each width |
| `Deeplink_proofs!ParserReadsWhatWasWritten`, `ParserTerminates` | | `IInv`: where writer and reader are in the payload |
| `DeeplinkApply_proofs!TypeCorrect` | | `SInv`: what `cfg` holds while it is filled |
| `DeeplinkApply_proofs!LastField` | | `SInv`: what the loop has made of the fields so far |
| `DeeplinkApply_proofs!LoopsTerminate` | | an entry is used up, or a DER element has a length |
| `DeeplinkApply_proofs!LoginSurvivesCut` | | `IInv`, `SInv`, and where the fields of a login are in a link |
| `Enrolment_proofs!EscapeRoundTrip`, `ListRoundTrip` | | what the recursive reader computes, from the end of the text |
| `Enrolment_proofs!LoginsAgree`, `EndpointsAgree` | masks, contents | the fields of a whole link, and `EscapeRoundTrip` |
| `Enrolment_proofs!NothingRefused` | masks, contents, limits | `WInv`: what keeps each later program from refusing |
| `Enrolment_proofs!ChainIsTheWay` | stores | the walk, round by round; `Brought` |
| `Enrolment_proofs!CertificateKept` | | `CutInductive`: the pieces so far, side by side |
| `ClientStore_proofs!TypeCorrect` | | `TInv`: types, and that there is always a uuid left |
| `ClientStore_proofs!TrustGate`, `StoredRowsAreValid`, `SavedActiveIsARow` | | `IInv`: what each request's snapshot is good for |

*`OrderlyInv`.* That the file is complete is not inductive: a writer may hold the
published inode open, or rename a staged file that is not complete. The strengthening
says, until two writers overlap: one writer is in the helper; the staged inode is not
the published one; from the write on it is the whole version; and, where the helper is
durable, it is synced before the rename. `Durable` is "every writer syncs, or power never
fails". The PHP copy does not sync, and its rename can publish an inode whose blocks are
not on disk; from such a power cut to the next write (`lost`) the file may be short, and
`FileIsComplete` excepts just that. `SyncedFileIsComplete` has no such exception. Overlap is excluded
because with two writers the file can be wrong: the second open truncates the first
one's staged file, the first renames it, and a reader finds a file that is still
being written. Nothing in configd or in the scripts prevents two reconfigure actions.

*`CleanInv`* of the TUN backend. That the process leaves nothing behind is a statement
about its last state, so the invariant has to follow what it has at every step: which
device it holds (`Held`), which interface it made (`Ours`: the one just opened, or the
one it owns), and that the recorded routes are the client's, each recorded once, and
unless something is spoilt all there are (`Recorded`). Other tools run at every step.

*`NoNamedCreate`* excludes the settings of `TunRace`, for which the theorems are false.

*`ServiceInv`.* `OneSupervisor` and `NoOrphan` are inductive together; the
claims about what a job achieved are not. `Solitude` says of a job that nothing
overlapped that the pid it read is of the only supervisor there can be, so that when that
one has gone there is none; `Starting` that a stop never comes to start one; `Calm`
carries what was achieved until the next job begins, while supervisor and child go
on. Every step of the child is a step of the backend, so that `CleanInv` holds of the
client here too (`ChildKeeps`, `TunKept`); stated for itself that is a refinement,
`ServiceRunsBackend`, which carries the backend's safety over to any number of restarts
and kills under a supervisor without proving it a second time. For a
clean stop, `Undisturbed` is needed: a killed client leaves its interface and a failing
`route delete` or `ifconfig destroy` is only logged. It says no kills (`MaxCrashes = 0`)
and no failure of those two commands; every failure of the start-up is allowed.

*`FilesInv`, `Alone`.* A file is of the right configuration only relative to the step the
chain is at, so the invariant states for each step which files already hold what the
chain has read. `Alone` is one job and no fault; `EndpointFaults` starts chains from
the mixed files that faults leave.

*`RestartInv`.* Adds that what the chain holds and what a running endpoint was started
from is never nothing, so that no chain that is refused can take a file from it.
`CertChosen` says that a certificate stays chosen: to choose none removes the pair.

*`ApplyInv`.* For the reconfigure that is undisturbed so far, which files already hold
the configuration as it is now, link by link, whatever they held before. Nothing is
assumed of the files it starts from, nor of earlier jobs.

*`RevokeInv`, `OneJob`.* A user that was deleted with success must be absent from
`config.xml`, from what any chain has read, from `credentials.toml` and from the process
at once, since each of them can feed the next; and for a deletion under way the
invariant follows the chain (gone from the configuration, then from what was read, then
from the file, the process stopped before it is started). Faults are allowed. With two
jobs the theorem is false: a chain that had read the older configuration can write after
the deletion's chain, and the user is served again.

*`Deeplink_proofs`.* `VarintRoundTrip`: a number below 2^62 (for `Q = 64`), written
between any other bytes, is read back there and nothing behind it is taken for it. From
it follow the same fact for a field, and that a field which can be read from the
beginning of a payload reads the same from all of it. `IInv` then is *Written* (the
payload is its fields, one behind the other) and *Reading* (the parser's offset is the
end of a written field, and its entries are the fields up to there), so that a cut can
only lose fields at the end. Its assumption is `FieldsAssumption`: fields are bytes, and
no tag or length has more than 62 bits.

*Recursive functions.* The decoder of DNS strings, the reader of a TOML string, `_csv`,
the walk along `caref` and the joining of pieces are recursive functions. The library's
induction theorems take an operator, which the installed provers cannot instantiate;
`DeeplinkApply_proofs` therefore states induction about *sets*: one that contains 0 and
with each number its successor contains all naturals (`NatSets`), and a non-empty one
has a least element (`LeastElement`). From these follows that a function exists which
meets a rule whose value at `i` is given or is made from the value at a later place
(`UpRecursion`), or at the place before (`DownRecursion`). What a function computes
is then an ordinary property of each place, shown from the place it depends on.

*`SInv`* of the importer's loop: for every tag, `cfg` has the value of the last of the
entries taken so far with that tag, or the default if there was none, and the
addresses of all of them in order; and each value is of the kind its decoder returns.
`LastFieldWins` is that at the end. With `IInv`, which says that a cut link's
entries are the first fields of the whole one, follows `CutKeepsLogin`: a link that is
cut inside the login lacks a required field and is refused, one that is cut behind it
has lost only fields that have nothing to do with the login.

*The login and the address* (`LoginMatches`, `EndpointMatches`). Each of the exporter's
five fields has a tag of its own, so `SInv` says what became of each; the row takes
it over, and both renderers write it with `_toml_escape`. `EscapeRoundTrip` says that
any text that was not refused reads back as itself: a quote inside it does not close
the string, and the backslash the escaping adds is never taken for one of the text.
The address is cut at the last colon by both programs (`LastColon`) and it has no comma,
so it is one item of the CSV field, and no blank, so that stripping leaves it as it is.
`ListRoundTrip` is the general fact for any number of items: `_csv` strips each of them,
so what comes back is the stripped items, and an item itself only if it has no blank at
its ends; a blank item would be dropped, so there must be none.

*`WInv`* (`EnrolmentWorks`). That nothing is refused is not a property of the last
state: what is sent has to be what the exporter measured against its limit, and what
`split_der_certs` gets has to be the one certificate the exporter took. `WInv`
carries both, and that a whole link is not refused on the way. What the exporter lets
pass is then compared with each later condition (`RowWorks`). Two refusals remain
and are part of the property: a certificate over the importer's limit, which the
exporter does not know; and, by the client's model, a link without a name whose host name
is an IPv6 address or longer than 64 characters, because the host name then becomes the
row's name and that field's mask (`TrustTunnelClient.xml:46-47`) does not take it.

*The certificate chain* (`CertificateMatches`). The loop along `caref` is bounded by the
number of CAs plus one. After each round that went on, it has visited as many CAs as there
were rounds, all different (`WalkKeeps`); as there are no more CAs than that, it has
come to an end when the bound is reached, so a walk that is well is a way
(`WalkIsWay`). The other way round, the loop follows a given way step by step, never
meets a CA twice and collects its blocks in order (`WayIsWalked`). What of the chain
a link brings along is followed from the exporter on (`Brought`). In a cycle, or where a
CA is missing, there is neither.

*The certificate field* (`CertificatesWhole`). At each round the certificates so far, put
side by side, are the field up to `off`. An element is as long where it is cut out as where
it lay (`DerElementCut`): its length is in its own first bytes. At the end nothing
is left over, so the pieces are the field.

*What is assumed of the configuration.* `MasksAssumption` is what the fields of
OPNsense's models let through: a host name has neither comma nor bracket, an IPv6 listen
address has its port behind the bracket (`IPPortField`, `HostnameField`), user names
have at most 64 characters, none of these has a blank, and the text of a port that the
field lets through and `int()` reads has neither colon, comma nor blank.
`ContentsAssumption`: values are UTF-8 text, and the certificate the exporter takes from
a PEM block is one DER element, as `openssl` wrote it. `StoresAssumption`: the trust store is
finite, and a refid in it is that of a CA, of a CA that is missing, or empty.
`LimitsAssumption`: the importer takes as many bytes as the exporter writes (both have
the same limit). The instance of section 3 meets them all, TLC evaluates them.

*`ClientStore_proofs`.* Rows that are in `config.xml` may be written again by a request
that read them long ago, so the invariant is about the snapshots too: each holds
contents that were typed in or confirmed (`Vetted`), rows that are valid but for the one the request adds, and an
active server among its rows. The invariant does not need the lock: a
snapshot that was good stays good, because `typed` and `agreed` only grow and rows and active
server are saved together. This is why what is saved is consistent although edits are
lost (`ClientStoreLostEdit`). `TrustGate` is about links, not about what a person has seen:
`agreed` has a link only together with what the dialog showed, and the invariant says that
while the dialog is open this is that link's `View`; from a `View` the rest of the contents
does not follow, and the theorem holds for every `View`. The types do need that a uuid is always to be had:
`TInv` counts those in use, at most one more with each request and edit.

Model-checked only: liveness (`TeardownCompletes`, `Recovers`, `JobsReturn`,
`RequestsEnd`), which under fairness is out of the prover's reach. Every invariant and
every action property of a passing run is a theorem.

## 5. Not modelled, and the plan

What is not modelled, and why:

* **HA sync and registration** (`plugins.inc.d/*.inc`): tables that OPNsense reads. The
  synchronisation, which leaves the secrets out, and the order of its calls are
  OPNsense's; nothing in the repository says in which state the standby's render finds
  the configuration.
* **The multiplexer patch**: a changed condition inside an upstream class whose other
  methods and state are not in the repository. The same goes for the remaining patches.
* **The status action** of the client: it reads the pidfile and changes nothing.
* **`setup_if`'s addresses and MTU**, and DNS: arithmetic and commands without a state
  that the code reads again.
* **A file after two writers overlapped**: nothing is claimed of its contents, and without
  the exception TLC finds a mixed file at once. Whether callers can be kept apart is
  decided outside the helper, and nothing does.
* **What the dialog leaves out**: the model says which link is stored, not that an
  administrator has seen its password, SNI or `skip_verification`, because the dialog does
  not show them.
* Build recipes, provisioning and package scripts, menus, forms and page layout; the
  upstream client and endpoint beyond what the overlay and the rc.d scripts see of
  them.

What could come next: `EndpointApply` and `ServerRender` in one instance, so that the
refused configurations are those the renderer refuses; the enrolment of a user followed
by the store's requests, so that the row of `ClientStore` is that of `Enrolment`.

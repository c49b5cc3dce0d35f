----------------------------- MODULE AtomicWrite -----------------------------
(***************************************************************************)
(* _write_atomic of render_server_config.py and render_client_config.py,   *)
(* and write_atomic of materialize_certs.php: stage the new version at the *)
(* fixed name <path>.new, then rename it over <path>.  Every system call   *)
(* of the helper is one step, so the steps of two renderers interleave;    *)
(* the file system keeps names (tmp, target) apart from inodes, because an *)
(* open descriptor follows the inode and rename follows the name.          *)
(*                                                                         *)
(* A version is abstracted to its identity and its size in blocks, which   *)
(* is what tells a complete file, a short one and a mixture of two apart.  *)
(***************************************************************************)
EXTENDS Naturals, Sequences

CONSTANTS Writers,     \* processes that run the helper on the same path
          Inodes,      \* files the file system can hold at once
          NoInode,     \* a name that refers to no file; a closed descriptor
          Versions,    \* what the callers ask to be written
          SizeOf,      \* blocks of each version
          Syncs,       \* writers that fsync (the Python helpers do, PHP's not)
          CleansUp,    \* writers that unlink <path>.new on an error (PHP does)
          PowerCuts    \* the machine may lose power

ASSUME SizeAssumption == SizeOf \in [Versions -> Nat \ {0}]
ASSUME FlagAssumption == /\ PowerCuts \in BOOLEAN
                         /\ Syncs \subseteq Writers /\ CleansUp \subseteq Writers
ASSUME NoInodeAssumption == NoInode \notin Inodes

VARIABLES tmp,       \* inode named <path>.new, or NoInode
          target,    \* inode named <path>, or NoInode
          data,      \* blocks of each inode
          synced,    \* whether those blocks have reached the disk
          pc,        \* where each writer is in the helper
          fd,        \* inode each writer has open
          version,   \* what each writer was asked to write
          overlapped, \* history: two writers have been in the helper at once
          lost       \* history: power was cut before the file in use was on disk

vars == <<tmp, target, data, synced, pc, fd, version, overlapped, lost>>

Names == Inodes \cup {NoInode}
Image(v) == [b \in 1..SizeOf[v] |-> v]

Prefixes(s) == {SubSeq(s, 1, n) : n \in 0..Len(s)}

\* Writing from offset 0: blocks beyond the new ones keep what they held.
Overlay(new, old) ==
  [b \in 1..(IF Len(new) > Len(old) THEN Len(new) ELSE Len(old)) |->
     IF b <= Len(new) THEN new[b] ELSE old[b]]

\* Types; a descriptor is open while it is written to, and only then.
TypeOK == /\ tmp \in Names
          /\ target \in Names
          /\ data \in [Inodes -> Seq(Versions)]
          /\ synced \in [Inodes -> BOOLEAN]
          /\ pc \in [Writers -> {"idle", "opened", "written", "closed", "ready"}]
          /\ fd \in [Writers -> Names]
          /\ version \in [Writers -> Versions]
          /\ overlapped \in BOOLEAN /\ lost \in BOOLEAN
          /\ \A w \in Writers :
               pc[w] \in {"opened", "written"} <=> fd[w] # NoInode

Init == /\ tmp = NoInode
        /\ target = NoInode
        /\ data = [i \in Inodes |-> <<>>]
        /\ synced = [i \in Inodes |-> TRUE]
        /\ pc = [w \in Writers |-> "idle"]
        /\ fd = [w \in Writers |-> NoInode]
        /\ version \in [Writers -> Versions]
        /\ overlapped = FALSE
        /\ lost = FALSE

Free == Inodes \ ({tmp, target} \cup {fd[w] : w \in Writers})

-----------------------------------------------------------------------------
\* Mutant of Open: O_TRUNC is forgotten, a left-over <path>.new keeps its blocks.
OpenKeepsBlocks(w, v) ==
  /\ pc[w] = "idle"
  /\ \E i \in IF tmp = NoInode THEN Free ELSE {tmp} :
       /\ tmp' = i
       /\ fd' = [fd EXCEPT ![w] = i]
       /\ data' = [data EXCEPT ![i] = IF tmp = NoInode THEN <<>> ELSE @]
       /\ synced' = [synced EXCEPT ![i] = FALSE]
  /\ version' = [version EXCEPT ![w] = v]
  /\ pc' = [pc EXCEPT ![w] = "opened"]
  /\ overlapped' = (overlapped \/ \E u \in Writers \ {w} : pc[u] # "idle")
  /\ UNCHANGED <<target, lost>>

\* os.open(tmp, O_WRONLY|O_CREAT|O_TRUNC): the name may already be there, left
\* by a renderer that died or by one that is still writing; it is truncated.
Open(w, v) ==
  /\ pc[w] = "idle"
  /\ \E i \in IF tmp = NoInode THEN Free ELSE {tmp} :
       /\ tmp' = i
       /\ fd' = [fd EXCEPT ![w] = i]
       /\ data' = [data EXCEPT ![i] = <<>>]
       /\ synced' = [synced EXCEPT ![i] = FALSE]
  /\ version' = [version EXCEPT ![w] = v]
  /\ pc' = [pc EXCEPT ![w] = "opened"]
  /\ overlapped' = (overlapped \/ \E u \in Writers \ {w} : pc[u] # "idle")
  /\ UNCHANGED <<target, lost>>

\* Mutant of Write: the count os.write returns is not looked at.
WriteUnchecked(w) ==
  /\ pc[w] = "opened"
  /\ \E n \in 0..SizeOf[version[w]] :
       data' = [data EXCEPT ![fd[w]] = Overlay([b \in 1..n |-> version[w]], @)]
  /\ synced' = [synced EXCEPT ![fd[w]] = FALSE]
  /\ pc' = [pc EXCEPT ![w] = "written"]
  /\ UNCHANGED <<tmp, target, fd, version, overlapped, lost>>

\* os.write(fd, data) accepts everything.
Write(w) ==
  /\ pc[w] = "opened"
  /\ data' = [data EXCEPT ![fd[w]] = Overlay(Image(version[w]), @)]
  /\ synced' = [synced EXCEPT ![fd[w]] = FALSE]
  /\ pc' = [pc EXCEPT ![w] = "written"]
  /\ UNCHANGED <<tmp, target, fd, version, overlapped, lost>>

\* Mutants of Fail: it unlinks the file instead of the staged one; it does not
\* close the descriptor.
FailUnlinksTarget(w) ==
  /\ pc' = [pc EXCEPT ![w] = "idle"]
  /\ fd' = [fd EXCEPT ![w] = NoInode]
  /\ target' = NoInode
  /\ UNCHANGED <<tmp, version, overlapped, lost>>

FailLeaks(w) == /\ pc' = [pc EXCEPT ![w] = "idle"]
                /\ UNCHANGED <<fd, tmp, target, version, overlapped, lost>>

\* The exception path: the descriptor is closed; only PHP unlinks the name.
Fail(w) ==
  /\ pc' = [pc EXCEPT ![w] = "idle"]
  /\ fd' = [fd EXCEPT ![w] = NoInode]
  /\ tmp' = IF w \in CleansUp THEN NoInode ELSE tmp
  /\ UNCHANGED <<target, version, overlapped, lost>>

\* os.write accepts only n blocks (a full disk): the helper raises.
ShortWrite(w) ==
  /\ pc[w] = "opened"
  /\ \E n \in 0..(SizeOf[version[w]] - 1) :
       data' = [data EXCEPT ![fd[w]] =
                  Overlay([b \in 1..n |-> version[w]], @)]
  /\ synced' = [synced EXCEPT ![fd[w]] = FALSE]
  /\ Fail(w)

\* os.fsync(fd), then os.close(fd); in PHP fflush, which empties the buffer of the
\* process only, then fclose.
SyncAndClose(w) ==
  /\ pc[w] = "written"
  /\ synced' = IF w \in Syncs THEN [synced EXCEPT ![fd[w]] = TRUE] ELSE synced
  /\ fd' = [fd EXCEPT ![w] = NoInode]
  /\ pc' = [pc EXCEPT ![w] = "closed"]
  /\ UNCHANGED <<tmp, target, data, version, overlapped, lost>>

SyncFails(w) == /\ pc[w] = "written"
                /\ w \in Syncs
                /\ Fail(w)
                /\ UNCHANGED <<data, synced>>

\* os.chmod(tmp, mode) goes by name: it fails when another writer took it.
Chmod(w) == /\ pc[w] = "closed"
            /\ tmp # NoInode
            /\ pc' = [pc EXCEPT ![w] = "ready"]
            /\ UNCHANGED <<tmp, target, data, synced, fd, version, overlapped, lost>>

\* os.replace(tmp, path): whatever the name tmp refers to becomes the file.
Replace(w) == /\ pc[w] = "ready"
              /\ tmp # NoInode
              /\ target' = tmp
              /\ tmp' = NoInode
              /\ pc' = [pc EXCEPT ![w] = "idle"]
              /\ lost' = FALSE
              /\ UNCHANGED <<data, synced, fd, version, overlapped>>

\* chmod or rename finds no <path>.new.
StagingGone(w) == /\ pc[w] \in {"closed", "ready"}
                  /\ tmp = NoInode
                  /\ Fail(w)
                  /\ UNCHANGED <<data, synced>>

\* The renderer is killed between two system calls.
Kill(w) == /\ pc[w] # "idle"
           /\ pc' = [pc EXCEPT ![w] = "idle"]
           /\ fd' = [fd EXCEPT ![w] = NoInode]
           /\ UNCHANGED <<tmp, target, data, synced, version, overlapped, lost>>

\* Names are journalled, data blocks are not: an inode that was not synced
\* comes back with some prefix of what was written to it.
PowerCut ==
  /\ PowerCuts
  /\ data' \in {d \in [Inodes -> UNION {Prefixes(data[i]) : i \in Inodes}] :
                  \A i \in Inodes :
                    d[i] \in IF synced[i] THEN {data[i]} ELSE Prefixes(data[i])}
  /\ synced' = [i \in Inodes |-> TRUE]
  /\ pc' = [w \in Writers |-> "idle"]
  /\ fd' = [w \in Writers |-> NoInode]
  /\ lost' = (lost \/ (target # NoInode /\ ~synced[target]))
  /\ UNCHANGED <<tmp, target, version, overlapped>>

Step(w) == \/ \E v \in Versions : Open(w, v)
           \/ Write(w)
           \/ ShortWrite(w)
           \/ SyncAndClose(w)
           \/ SyncFails(w)
           \/ Chmod(w)
           \/ Replace(w)
           \/ StagingGone(w)
           \/ Kill(w)

Next == (\E w \in Writers : Step(w)) \/ PowerCut

Spec == Init /\ [][Next]_vars

-----------------------------------------------------------------------------
\* Until two renderers overlap, the file a reader opens by name holds nothing
\* less and nothing else than one version a renderer was asked for: "no
\* half-written window for trusttunnel_endpoint to observe"
\* (render_server_config.py, docstring).  The PHP helper does not sync: a power
\* cut soon after its rename may shorten the file, until it is written again.
Complete == target # NoInode => \E v \in Versions : data[target] = Image(v)
TargetComplete == ~overlapped /\ ~lost => Complete

\* Once there is a file, no error, kill, power cut or second writer takes the
\* name away: the rc.d required_files test keeps succeeding.
TargetStays == [][target # NoInode => target' # NoInode]_vars

\* Refinement: the helper publishes the caller's own version in one step, or
\* leaves the file as it was, as long as requests do not overlap; only a helper
\* that does not sync may lose it.  A file that is not a complete version maps to
\* a value AtomicFile never publishes.
CONSTANTS NoVersion, Torn
ASSUME MarkAssumption ==
         NoVersion \notin Versions /\ Torn \notin Versions /\ Torn # NoVersion

Content == IF target = NoInode THEN NoVersion
           ELSE IF \E v \in Versions : data[target] = Image(v)
                THEN CHOOSE v \in Versions : data[target] = Image(v)
                ELSE Torn
Durable == Syncs = Writers \/ ~PowerCuts
Request == [w \in Writers |-> IF pc[w] = "idle" THEN NoVersion ELSE version[w]]

File == INSTANCE AtomicFile
          WITH content <- Content, request <- Request,
               void <- overlapped \/ lost
Implements == File!Spec

\* What makes TargetComplete inductive: until an overlap there is one writer in
\* the helper, the staged inode is never the published one, and from the write on
\* it holds the whole version.  What was synced stays so.
Staged(w) ==
  /\ tmp \in Inodes
  /\ pc[w] \in {"opened", "written"} => fd[w] = tmp
  /\ pc[w] = "opened" => data[tmp] = <<>>
  /\ pc[w] # "opened" => data[tmp] = Image(version[w])
  /\ pc[w] \in {"closed", "ready"} => (Durable /\ PowerCuts => synced[tmp])
OneAtWork ==
  \A u, w \in Writers : pc[u] # "idle" /\ pc[w] # "idle" => u = w
Orderly == /\ ~lost => Complete
           /\ Durable => ~lost
           /\ target # NoInode =>
                tmp # target /\ (Durable /\ PowerCuts => synced[target])
           /\ OneAtWork
           /\ \A w \in Writers : pc[w] # "idle" => Staged(w)
OrderlyInv == TypeOK /\ (~overlapped => Orderly)
=============================================================================

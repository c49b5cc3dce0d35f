------------------------- MODULE AtomicWrite_proofs -------------------------
(***************************************************************************)
(* For any number of writers, which may overlap, fail and be killed: types, *)
(* and the file's name never vanishes.  Until two writers overlap the file *)
(* is one complete version, or was lost by a helper that does not sync in  *)
(* a power cut; and the helper implements AtomicFile.                      *)
(***************************************************************************)
EXTENDS AtomicWrite, TLAPS

(***************************************************************************)
(* The contents of inodes.                                                 *)
(***************************************************************************)
LEMMA ImageFacts ==
  ASSUME NEW v \in Versions
  PROVE  Image(v) \in Seq(Versions) /\ Len(Image(v)) = SizeOf[v]
BY SizeAssumption DEF Image

LEMMA ShortFacts ==
  ASSUME NEW v \in Versions, NEW n \in Nat
  PROVE  [b \in 1..n |-> v] \in Seq(Versions)
OBVIOUS

\* The image of a version determines it: versions have at least one block.
LEMMA ImageInjective ==
  ASSUME NEW u \in Versions, NEW v \in Versions, Image(u) = Image(v)
  PROVE  u = v
<1>1. 1 \in 1..SizeOf[u]  BY SizeAssumption
<1>2. Image(u)[1] = u /\ Len(Image(u)) = SizeOf[u]  BY <1>1, ImageFacts DEF Image
<1>3. 1 \in 1..SizeOf[v] /\ Len(Image(v)) = SizeOf[v]  BY SizeAssumption, ImageFacts
<1>4. Image(v)[1] = v  BY <1>3 DEF Image
<1> QED  BY <1>2, <1>4

LEMMA OverlayType ==
  ASSUME NEW s \in Seq(Versions), NEW t \in Seq(Versions)
  PROVE  Overlay(s, t) \in Seq(Versions)
<1> DEFINE n == IF Len(s) > Len(t) THEN Len(s) ELSE Len(t)
<1>1. n \in Nat  OBVIOUS
<1>2. ASSUME NEW b \in 1..n
      PROVE  (IF b <= Len(s) THEN s[b] ELSE t[b]) \in Versions
  BY <1>1
<1> QED  BY <1>1, <1>2 DEF Overlay

LEMMA OverlayEmpty ==
  ASSUME NEW s \in Seq(Versions)
  PROVE  Overlay(s, <<>>) = s
<1>1. Len(<<>>) = 0 /\ Len(s) \in Nat  OBVIOUS
<1>2. Overlay(s, <<>>) = [b \in 1..Len(s) |-> s[b]]  BY <1>1 DEF Overlay
<1> QED  BY <1>2

LEMMA PrefixesType ==
  ASSUME NEW s \in Seq(Versions)
  PROVE  Prefixes(s) \subseteq Seq(Versions)
BY DEF Prefixes

(***************************************************************************)
(* Types.                                                                  *)
(***************************************************************************)
LEMMA TypeInit == Init => TypeOK
<1> SUFFICES ASSUME Init PROVE TypeOK
  OBVIOUS
<1>1. data \in [Inodes -> Seq(Versions)] /\ synced \in [Inodes -> BOOLEAN]
  BY DEF Init
<1>2. overlapped \in BOOLEAN  BY DEF Init
<1> QED  BY <1>1, <1>2 DEF Init, TypeOK, Names

LEMMA TypeNext == TypeOK /\ [Next]_vars => TypeOK'
<1> SUFFICES ASSUME TypeOK, [Next]_vars PROVE TypeOK'
  OBVIOUS
<1>1. CASE PowerCut
  <2>1. data' \in [Inodes -> Seq(Versions)]
    BY <1>1, PrefixesType DEF PowerCut, TypeOK
  <2> QED  BY <1>1, <2>1 DEF PowerCut, TypeOK, Names
<1>2. ASSUME NEW w \in Writers, Step(w) PROVE TypeOK'
  <2>1. CASE \E v \in Versions : Open(w, v)
    BY <2>1 DEF Open, Free, TypeOK, Names
  <2>2. CASE Write(w)
    <3>1. ASSUME fd[w] \in Inodes PROVE data' \in [Inodes -> Seq(Versions)]
      BY <2>2, <3>1, ImageFacts, OverlayType DEF Write, TypeOK
    <3>2. data' \in [Inodes -> Seq(Versions)]
      BY <2>2, <3>1 DEF Write, TypeOK
    <3> QED  BY <2>2, <3>2 DEF Write, TypeOK
  <2>3. CASE ShortWrite(w)
    <3>1. PICK n \in 0..(SizeOf[version[w]] - 1) :
             data' = [data EXCEPT ![fd[w]] = Overlay([b \in 1..n |-> version[w]], @)]
      BY <2>3 DEF ShortWrite
    <3>2. n \in Nat /\ version[w] \in Versions
      BY <3>1, SizeAssumption DEF TypeOK
    <3>3. [b \in 1..n |-> version[w]] \in Seq(Versions)  BY <3>2, ShortFacts
    <3>4. data' \in [Inodes -> Seq(Versions)]
      BY <3>1, <3>3, OverlayType DEF TypeOK
    <3> QED  BY <2>3, <3>4 DEF ShortWrite, Fail, TypeOK, Names
  <2>4. CASE SyncAndClose(w)
    BY <2>4 DEF SyncAndClose, TypeOK, Names
  <2>5. CASE SyncFails(w) \/ StagingGone(w)
    BY <2>5 DEF SyncFails, StagingGone, Fail, TypeOK, Names
  <2>6. CASE Chmod(w) \/ Replace(w) \/ Kill(w)
    BY <2>6 DEF Chmod, Replace, Kill, TypeOK, Names
  <2> QED  BY <1>2, <2>1, <2>2, <2>3, <2>4, <2>5, <2>6 DEF Step
<1>3. CASE UNCHANGED vars
  BY <1>3 DEF vars, TypeOK
<1> QED  BY <1>1, <1>2, <1>3 DEF Next

\* The variables keep their types, for any number of writers.
THEOREM TypeCorrect == Spec => []TypeOK
BY TypeInit, TypeNext, PTL DEF Spec

\* No step of any number of writers, and no power cut, removes <path>.
THEOREM TargetNeverVanishes == Spec => TargetStays
<1>1. TypeOK /\ [Next]_vars => [target # NoInode => target' # NoInode]_vars
  <2> SUFFICES ASSUME TypeOK, [Next]_vars, target # NoInode
               PROVE  target' # NoInode \/ UNCHANGED vars
    OBVIOUS
  <2>1. ASSUME NEW w \in Writers, Step(w) PROVE target' # NoInode
    BY <2>1 DEF Step, Open, Write, ShortWrite, Fail, SyncAndClose, SyncFails,
                Chmod, Replace, StagingGone, Kill
  <2>2. CASE PowerCut  BY <2>2 DEF PowerCut
  <2> QED  BY <2>1, <2>2 DEF Next
<1> QED  BY <1>1, TypeCorrect, PTL DEF Spec, TargetStays

(***************************************************************************)
(* Until two writers overlap.                                              *)
(***************************************************************************)
LEMMA OrderlyInit == Init => OrderlyInv
BY TypeInit DEF Init, OrderlyInv, Orderly, Complete, OneAtWork

\* While there is no overlap, the writer that takes a step is alone in the helper.
LEMMA AloneInHelper ==
  ASSUME OrderlyInv, ~overlapped, ~overlapped', NEW w \in Writers, Step(w)
  PROVE  \A u \in Writers \ {w} : pc[u] = "idle" /\ pc'[u] = "idle"
<1>1. TypeOK  BY DEF OrderlyInv
<1>2. \A u \in Writers \ {w} : pc'[u] = pc[u]
  BY <1>1 DEF Step, Open, Write, ShortWrite, Fail, SyncAndClose, SyncFails, Chmod,
              Replace, StagingGone, Kill, TypeOK
<1>3. CASE \E v \in Versions : Open(w, v)
  BY <1>2, <1>3 DEF Open
<1>4. CASE pc[w] # "idle"
  BY <1>2, <1>4 DEF OrderlyInv, Orderly, OneAtWork
<1> QED
  BY <1>3, <1>4 DEF Step, Write, ShortWrite, SyncAndClose, SyncFails, Chmod, Replace,
                    StagingGone, Kill

LEMMA OverlapStays == [Next]_vars /\ overlapped => overlapped'
BY DEF Next, Step, Open, Write, ShortWrite, Fail, SyncAndClose, SyncFails, Chmod,
       Replace, StagingGone, Kill, PowerCut, vars

LEMMA OrderlyStep ==
  ASSUME OrderlyInv, ~overlapped, NEW w \in Writers, Step(w), ~overlapped'
  PROVE  Orderly'
<1> USE NoInodeAssumption
<1> DEFINE Kept == (~lost' => Complete') /\ (Durable => ~lost')
<1>1. TypeOK /\ TypeOK' /\ Orderly  BY TypeNext DEF OrderlyInv, Next
<1>2. \A u \in Writers \ {w} : pc[u] = "idle" /\ pc'[u] = "idle"
  BY AloneInHelper
<1>3. OneAtWork'  BY <1>2 DEF OneAtWork
<1>4. ASSUME Kept,
             target' # NoInode =>
               tmp' # target' /\ (Durable /\ PowerCuts => synced'[target']),
             pc'[w] = "idle" \/ Staged(w)'
      PROVE  Orderly'
  BY <1>2, <1>3, <1>4 DEF Orderly
<1>5. ASSUME lost' = lost, target' = target,
             target # NoInode => data'[target] = data[target]
      PROVE  Kept
  BY <1>1, <1>5 DEF Orderly, Complete, Image
<1>6. ASSUME NEW v \in Versions, Open(w, v) PROVE Orderly'
  <2>1. PICK i \in IF tmp = NoInode THEN Free ELSE {tmp} :
           /\ tmp' = i
           /\ fd' = [fd EXCEPT ![w] = i]
           /\ data' = [data EXCEPT ![i] = <<>>]
           /\ synced' = [synced EXCEPT ![i] = FALSE]
    BY <1>6 DEF Open
  <2>2. i \in Inodes /\ i # target
    BY <1>1, <2>1 DEF Free, Orderly, TypeOK, Names
  <2>3. target' = target /\ pc'[w] = "opened"
        /\ (target # NoInode => data'[target] = data[target]
                               /\ synced'[target] = synced[target])
    BY <1>1, <1>6, <2>1, <2>2 DEF Open, TypeOK, Names
  <2>4. Kept  BY <1>5, <1>6, <2>3 DEF Open
  <2>5. Staged(w)'
    BY <1>1, <2>1, <2>2, <2>3 DEF Staged, TypeOK
  <2> QED  BY <1>1, <1>4, <2>1, <2>2, <2>3, <2>4, <2>5 DEF Orderly
<1>7. CASE Write(w)
  <2>1. tmp \in Inodes /\ fd[w] = tmp /\ data[tmp] = <<>>
    BY <1>1, <1>7 DEF Write, Orderly, Staged
  <2>2. data' = [data EXCEPT ![tmp] = Image(version[w])]
    <3>1. version[w] \in Versions  BY <1>1 DEF TypeOK
    <3>2. Overlay(Image(version[w]), <<>>) = Image(version[w])
      BY <3>1, ImageFacts, OverlayEmpty
    <3> QED  BY <1>1, <1>7, <2>1, <3>2 DEF Write, TypeOK
  <2>3. target # NoInode => target # tmp  BY <1>1 DEF Orderly
  <2>4. Kept  BY <1>1, <1>5, <1>7, <2>2, <2>3 DEF Write, TypeOK, Names
  <2>5. Staged(w)'
    BY <1>1, <1>7, <2>1, <2>2 DEF Write, Staged, TypeOK
  <2>6. target' = target /\ tmp' = tmp
        /\ (target # NoInode => synced'[target] = synced[target])
    BY <1>1, <1>7, <2>1, <2>3 DEF Write, TypeOK, Names
  <2> QED  BY <1>1, <1>4, <2>3, <2>4, <2>5, <2>6 DEF Orderly
<1>8. CASE ShortWrite(w)
  <2>1. tmp \in Inodes /\ fd[w] = tmp
    BY <1>1, <1>8 DEF ShortWrite, Orderly, Staged
  <2>2. target # NoInode => target # tmp /\ data'[target] = data[target]
                            /\ synced'[target] = synced[target]
    BY <1>1, <1>8, <2>1 DEF ShortWrite, Orderly, TypeOK, Names
  <2>3. target' = target /\ tmp' \in {NoInode, tmp} /\ pc'[w] = "idle"
    BY <1>1, <1>8 DEF ShortWrite, Fail, TypeOK
  <2>4. Kept  BY <1>5, <1>8, <2>2, <2>3 DEF ShortWrite, Fail
  <2> QED  BY <1>1, <1>4, <2>2, <2>3, <2>4 DEF Orderly
<1>9. CASE SyncAndClose(w)
  <2>1. tmp \in Inodes /\ fd[w] = tmp /\ data[tmp] = Image(version[w])
    BY <1>1, <1>9 DEF SyncAndClose, Orderly, Staged
  <2>2. target # NoInode => target # tmp  BY <1>1 DEF Orderly
  <2>3. UNCHANGED <<tmp, target, data, version>> /\ pc'[w] = "closed"
        /\ (Durable /\ PowerCuts => synced'[tmp])
        /\ (target # NoInode => synced'[target] = synced[target])
    BY <1>1, <1>9, <2>1, <2>2 DEF SyncAndClose, Durable, TypeOK, Names
  <2>4. Kept  BY <1>5, <1>9, <2>3 DEF SyncAndClose
  <2>5. Staged(w)'  BY <2>1, <2>3 DEF Staged
  <2> QED  BY <1>1, <1>4, <2>2, <2>3, <2>4, <2>5 DEF Orderly
<1>10. CASE SyncFails(w) \/ StagingGone(w) \/ Kill(w)
  <2>1. target' = target /\ tmp' \in {NoInode, tmp} /\ pc'[w] = "idle"
        /\ UNCHANGED <<data, synced>>
    BY <1>1, <1>10 DEF SyncFails, StagingGone, Kill, Fail, TypeOK
  <2>2. Kept  BY <1>5, <1>10, <2>1 DEF SyncFails, StagingGone, Kill, Fail
  <2> QED  BY <1>1, <1>4, <2>1, <2>2 DEF Orderly
<1>11. CASE Chmod(w)
  <2>1. UNCHANGED <<tmp, target, data, synced, version>> /\ pc'[w] = "ready"
        /\ pc[w] = "closed"
    BY <1>1, <1>11 DEF Chmod, TypeOK
  <2>2. Kept  BY <1>5, <1>11, <2>1 DEF Chmod
  <2>3. Staged(w)'  BY <1>1, <2>1 DEF Orderly, Staged
  <2> QED  BY <1>1, <1>4, <2>1, <2>2, <2>3 DEF Orderly
<1>12. CASE Replace(w)
  <2>1. tmp \in Inodes /\ data[tmp] = Image(version[w])
        /\ (Durable /\ PowerCuts => synced[tmp])
    BY <1>1, <1>12 DEF Replace, Orderly, Staged
  <2>2. target' = tmp /\ tmp' = NoInode /\ pc'[w] = "idle"
        /\ UNCHANGED <<data, synced>>
    BY <1>1, <1>12 DEF Replace, TypeOK
  <2>3. Complete'  BY <1>1, <2>1, <2>2 DEF Complete, TypeOK
  <2>4. Kept  BY <1>12, <2>3 DEF Replace
  <2> QED  BY <1>1, <1>4, <2>1, <2>2, <2>4 DEF Orderly
<1> QED  BY <1>6, <1>7, <1>8, <1>9, <1>10, <1>11, <1>12 DEF Step

LEMMA OrderlyNext ==
  ASSUME OrderlyInv, [Next]_vars
  PROVE  OrderlyInv'
<1> USE NoInodeAssumption
<1>1. TypeOK /\ TypeOK'  BY TypeNext DEF OrderlyInv
<1>2. CASE overlapped'
  BY <1>1, <1>2 DEF OrderlyInv
<1>3. CASE ~overlapped'
  <2>1. ~overlapped /\ Orderly  BY <1>3, OverlapStays DEF OrderlyInv
  <2>2. CASE UNCHANGED vars
    BY <1>1, <2>1, <2>2 DEF vars, OrderlyInv, Orderly, Complete, OneAtWork, Staged
  <2>3. CASE PowerCut
    <3>1. ~lost' => Complete'
      <4> SUFFICES ASSUME ~lost' PROVE Complete'
        OBVIOUS
      <4>1. ~lost /\ (target # NoInode => data'[target] = data[target])
        BY <1>1, <2>3 DEF PowerCut, TypeOK, Names
      <4> QED  BY <2>1, <2>3, <4>1 DEF PowerCut, Orderly, Complete, Image
    <3>2. Durable => ~lost'  BY <2>1, <2>3 DEF PowerCut, Orderly
    <3>3. target' # NoInode => tmp' # target' /\ synced'[target']
      BY <1>1, <2>1, <2>3 DEF PowerCut, Orderly, TypeOK, Names
    <3> QED  BY <1>1, <2>3, <3>1, <3>2, <3>3 DEF PowerCut, OrderlyInv, Orderly, OneAtWork
  <2>4. ASSUME NEW w \in Writers, Step(w) PROVE OrderlyInv'
    BY <1>1, <1>3, <2>1, <2>4, OrderlyStep DEF OrderlyInv
  <2> QED  BY <2>2, <2>3, <2>4 DEF Next
<1> QED  BY <1>2, <1>3

\* Until two renderers overlap the file is never half-written, whatever fails or
\* is killed, except between a power cut that found it unsynced and the next write.
THEOREM FileIsComplete == Spec => []TargetComplete
<1>1. OrderlyInv => TargetComplete  BY DEF OrderlyInv, Orderly, TargetComplete
<1>2. OrderlyInv /\ [Next]_vars => OrderlyInv'  BY OrderlyNext
<1> QED  BY <1>1, <1>2, OrderlyInit, PTL DEF Spec

\* A power cut is no exception where every writer syncs, as the renderers do.
THEOREM SyncedFileIsComplete ==
  ASSUME Durable
  PROVE  Spec => [](~overlapped => Complete)
<1>1. OrderlyInv => (~overlapped => Complete)  BY DEF OrderlyInv, Orderly
<1>2. OrderlyInv /\ [Next]_vars => OrderlyInv'  BY OrderlyNext
<1> QED  BY <1>1, <1>2, OrderlyInit, PTL DEF Spec

(***************************************************************************)
(* Refinement.                                                             *)
(***************************************************************************)
\* The abstract content depends on nothing but the published inode.
LEMMA ContentStays ==
  ASSUME target' = target, target # NoInode => data'[target] = data[target]
  PROVE  Content' = Content
BY DEF Content, Image

LEMMA FileUntouched ==
  ASSUME TypeOK, Orderly, NEW w \in Writers, Step(w), ~Replace(w)
  PROVE  target' = target /\ (target # NoInode => data'[target] = data[target])
<1> USE NoInodeAssumption
<1>1. ASSUME NEW v \in Versions, Open(w, v)
      PROVE  target' = target /\ (target # NoInode => data'[target] = data[target])
  <2>1. PICK i \in IF tmp = NoInode THEN Free ELSE {tmp} :
           data' = [data EXCEPT ![i] = <<>>]
    BY <1>1 DEF Open
  <2>2. i # target  BY <2>1 DEF Free, Orderly, TypeOK, Names
  <2> QED  BY <1>1, <2>1, <2>2 DEF Open, TypeOK, Names
<1>2. CASE Write(w) \/ ShortWrite(w)
  <2>1. fd[w] = tmp /\ (target # NoInode => tmp # target)
    BY <1>2 DEF Write, ShortWrite, Orderly, Staged
  <2> QED  BY <1>2, <2>1 DEF Write, ShortWrite, Fail, TypeOK, Names
<1>3. CASE SyncAndClose(w) \/ SyncFails(w) \/ Chmod(w) \/ StagingGone(w) \/ Kill(w)
  BY <1>3 DEF SyncAndClose, SyncFails, Chmod, StagingGone, Kill, Fail
<1> QED  BY <1>1, <1>2, <1>3 DEF Step

\* A step of a writer that has the helper to itself is a step of AtomicFile.
LEMMA AbstractStep ==
  ASSUME OrderlyInv, ~overlapped, NEW w \in Writers, Step(w)
  PROVE  [File!Next]_(File!vars)
<1> USE NoInodeAssumption, MarkAssumption
<1>1. TypeOK /\ Orderly  BY DEF OrderlyInv
<1>2. CASE Replace(w)
  <2>1. target' = tmp /\ data' = data /\ pc' = [pc EXCEPT ![w] = "idle"]
        /\ pc[w] = "ready" /\ version' = version /\ version[w] \in Versions
        /\ overlapped' = overlapped /\ lost' = FALSE
    BY <1>1, <1>2 DEF Replace, TypeOK
  <2>2. tmp \in Inodes /\ data[tmp] = Image(version[w])
    BY <1>1, <2>1 DEF Orderly, Staged
  <2>3. target' # NoInode /\ data'[target'] = Image(version[w])  BY <2>1, <2>2
  <2>4. Content' = version[w]
    <3>1. \A v \in Versions : data'[target'] = Image(v) => v = version[w]
      BY <2>1, <2>3, ImageInjective
    <3> QED  BY <2>1, <2>3, <3>1 DEF Content, Image
  <2>5. Request[w] = version[w] /\ Request' = [Request EXCEPT ![w] = NoVersion]
    BY <1>1, <2>1 DEF Request, TypeOK
  <2>6. File!Publish(w)  BY <2>1, <2>4, <2>5 DEF File!Publish
  <2> QED  BY <2>6 DEF File!Next
<1>3. CASE ~Replace(w)
  <2>1. Content' = Content  BY <1>1, <1>3, FileUntouched, ContentStays
  <2>2. ASSUME NEW v \in Versions, Open(w, v) PROVE File!Ask(w, v)
    <3>1. Request[w] = NoVersion /\ Request' = [Request EXCEPT ![w] = v]
      BY <1>1, <2>2 DEF Open, Request, TypeOK
    <3>2. \A u \in Writers : Request[u] # NoVersion <=> pc[u] # "idle"
      BY <1>1 DEF Request, TypeOK
    <3> QED  BY <2>1, <2>2, <3>1, <3>2 DEF Open, File!Ask
  <2>3. CASE Write(w) \/ SyncAndClose(w) \/ Chmod(w)
    <3>1. Request' = Request /\ UNCHANGED <<overlapped, lost>>
      BY <1>1, <2>3 DEF Write, SyncAndClose, Chmod, Request, TypeOK
    <3> QED  BY <2>1, <3>1 DEF File!vars
  <2>4. CASE ShortWrite(w) \/ SyncFails(w) \/ StagingGone(w) \/ Kill(w)
    <3>1. /\ Request' = [u \in Writers |-> IF u \in {w} THEN NoVersion ELSE Request[u]]
          /\ UNCHANGED <<overlapped, lost>>
      BY <1>1, <2>4 DEF ShortWrite, SyncFails, StagingGone, Kill, Fail, Request, TypeOK
    <3>2. File!Reject({w})  BY <2>1, <3>1 DEF File!Reject
    <3>3. {w} \in SUBSET Writers  OBVIOUS
    <3> QED  BY <3>2, <3>3 DEF File!Next
  <2> QED  BY <1>3, <2>2, <2>3, <2>4 DEF Step, File!Next
<1> QED  BY <1>2, <1>3

LEMMA AbstractNext ==
  ASSUME OrderlyInv, [Next]_vars
  PROVE  [File!Next]_(File!vars)
<1>1. CASE overlapped
  BY <1>1, OverlapStays DEF File!Next, File!Anything
<1>2. CASE UNCHANGED vars
  BY <1>2 DEF vars, File!vars, Content, Request, Image
<1>3. CASE ~overlapped /\ PowerCut
  <2>1. TypeOK /\ Orderly /\ Orderly'
    BY <1>3, OrderlyNext DEF OrderlyInv, PowerCut, Next
  <2>2. Request' = [w \in Writers |-> NoVersion] /\ overlapped' = overlapped
    BY <1>3 DEF PowerCut, Request
  <2>3. CASE lost'
    BY <2>1, <2>2, <2>3 DEF Orderly, File!Lose, File!Next
  <2>4. CASE ~lost'
    <3>1. ~lost /\ (target # NoInode => data'[target] = data[target])
      BY <1>3, <2>1, <2>4 DEF PowerCut, TypeOK, Names
    <3>2. Content' = Content  BY <1>3, <3>1, ContentStays DEF PowerCut
    <3>3. Request' = [w \in Writers |->
                        IF w \in Writers THEN NoVersion ELSE Request[w]]
      BY <2>2
    <3>4. File!Reject(Writers)  BY <2>2, <2>4, <3>1, <3>2, <3>3 DEF File!Reject
    <3> QED  BY <3>4 DEF File!Next
  <2> QED  BY <2>1, <2>3, <2>4 DEF OrderlyInv, TypeOK
<1>4. ASSUME ~overlapped, NEW w \in Writers, Step(w)
      PROVE  [File!Next]_(File!vars)
  BY <1>4, AbstractStep
<1> QED  BY <1>1, <1>2, <1>3, <1>4 DEF Next

\* The helper implements AtomicFile: each run of it either publishes the version
\* its own caller asked for, in one step, or changes nothing a reader can see,
\* until two runs overlap.
THEOREM HelperImplementsAtomicFile == Spec => Implements
<1>1. Init => File!Init
  BY DEF Init, File!Init, Content, Request
<1>2. OrderlyInv /\ [Next]_vars => OrderlyInv'  BY OrderlyNext
<1>3. OrderlyInv /\ [Next]_vars => [File!Next]_(File!vars)
  BY AbstractNext
<1> QED  BY <1>1, <1>2, <1>3, OrderlyInit, PTL DEF Spec, Implements, File!Spec
=============================================================================

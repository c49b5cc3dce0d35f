----------------------------- MODULE AtomicFile -----------------------------
(***************************************************************************)
(* What a caller is promised by the write-a-file-atomically helper that    *)
(* the renderers and the certificate exporter share: a file that readers   *)
(* may open at any moment, and that holds nothing, or one complete version *)
(* some caller asked for.  A request is published in one step or rejected  *)
(* without any effect on the file.                                         *)
(*                                                                         *)
(* The promise is for requests that do not overlap: nothing serialises the *)
(* helper's callers, so once two requests have been under way at the same  *)
(* time nothing is promised any more.  A helper that is not durable may    *)
(* lose the file when the power fails, and has it again with the next      *)
(* version that is published.                                              *)
(***************************************************************************)
CONSTANTS Writers,    \* processes that ask for a new version
          Versions,   \* what a file may be asked to hold
          NoVersion,  \* the file does not exist, or there is no request
          Durable     \* what was published survives a power cut

VARIABLES content,    \* the version a reader finds
          request,    \* the version each writer is asking for
          void        \* nothing is promised: an overlap, or the file was lost

vars == <<content, request, void>>

Init == /\ content = NoVersion
        /\ request = [w \in Writers |-> NoVersion]
        /\ void = FALSE

Ask(w, v) == /\ request[w] = NoVersion
             /\ request' = [request EXCEPT ![w] = v]
             /\ void' = (void \/ \E u \in Writers \ {w} : request[u] # NoVersion)
             /\ UNCHANGED content

Publish(w) == /\ request[w] # NoVersion
              /\ content' = request[w]
              /\ request' = [request EXCEPT ![w] = NoVersion]
              /\ void' \in {void, FALSE}

\* An error, a kill or a power cut: any set of requests is dropped.
Reject(W) == /\ request' = [w \in Writers |->
                              IF w \in W THEN NoVersion ELSE request[w]]
             /\ UNCHANGED <<content, void>>

\* A power cut may take what was published, and drops every request.
Lose == /\ ~Durable /\ void'
        /\ request' = [w \in Writers |-> NoVersion]

\* No promise is left: content and request are arbitrary.
Anything == void /\ void'

Next == \/ \E w \in Writers, v \in Versions : Ask(w, v)
        \/ \E w \in Writers : Publish(w)
        \/ \E W \in SUBSET Writers : Reject(W)
        \/ Lose
        \/ Anything

Spec == Init /\ [][Next]_vars
=============================================================================

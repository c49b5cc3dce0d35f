---------------------------- MODULE MCFreeBsdTun ----------------------------
(* Two interface names and two managed routes: the smallest instance where a  *)
(* route is added after another and an interface appears beside the client's. *)
EXTENDS FreeBsdTun

CONSTANTS tun0, tun1, junk, r1, r2

MCTuns == {tun0, tun1}
MCMalformed == {junk}
MCRoutes == {r1, r2}
RouteLists == {<<>>, <<r1>>, <<r1, r2>>}

Auto == [attach : {FALSE}, name : {NoTun}, routes : RouteLists]
Attached == [attach : {TRUE}, name : MCTuns \cup MCMalformed \cup {NoTun},
             routes : RouteLists]
Explicit == [attach : {FALSE}, name : MCTuns \cup MCMalformed, routes : RouteLists]

AutoOrAttached == Auto \cup Attached
=============================================================================

--------------------------- MODULE MCClientService ---------------------------
EXTENDS ClientService, TLC

CONSTANTS tun0, tun1, junk, r1

MCTuns == {tun0, tun1}
MCMalformed == {junk}
MCRoutes == {r1}
AllVerbs == {"apply", "reconfigure", "restart", "stop", "start"}
Auto == [attach : {FALSE}, name : {NoTun}, routes : {<<r1>>}]
AutoUnrouted == [attach : {FALSE}, name : {NoTun}, routes : {<<>>}]
Named == [attach : {FALSE}, name : {tun0}, routes : {<<>>}]
Bad == [attach : {TRUE}, name : {NoTun, junk}, routes : {<<>>}]
AutoNamedBad == Auto \cup Named \cup Bad
\* The steps of an apply contain those of a reconfigure, a restart and a start.
LongVerbs == {"apply", "stop"}
Sym == Permutations(Jobs) \cup Permutations(Daemons)
=============================================================================

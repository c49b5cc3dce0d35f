--------------------------- MODULE MCAtomicWrite ---------------------------
(* Two versions of different sizes, so that a shorter one written over a    *)
(* longer one, a prefix and a mixture are all distinguishable.              *)
EXTENDS AtomicWrite

CONSTANTS short, long
MCVersions == {short, long}
MCSizeOf == [v \in MCVersions |-> IF v = short THEN 1 ELSE 2]
=============================================================================

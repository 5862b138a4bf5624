------------------------ MODULE MCGitSubmoduleExtra ------------------------
(* The submodule script for TLC: two submodules, four settings files.        *)
EXTENDS GitSubmoduleExtra
CONSTANTS p, q, u, v
Both == <<[path |-> p, url |-> u], [path |-> q, url |-> u]>>
Moved == <<[path |-> q, url |-> v], [path |-> p, url |-> v]>>
One == <<[path |-> p, url |-> v]>>
Defaults == {Both, One}
Overrides == {None, Moved, Bad}
=============================================================================

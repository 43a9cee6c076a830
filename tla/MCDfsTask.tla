----------------------------- MODULE MCDfsTask ------------------------------
(* One channel of each path mode; either may come first in the list.       *)
EXTENDS DfsTask
CONSTANTS c1, c2
MCChan == {c1, c2}
MCNative == {c1}
=============================================================================

---------------------------- MODULE SingleServer ----------------------------
(* What bitbake.lock and bitbake.sock are for: in a build directory at most    *)
(* one server accepts connections at a time, and one that has stopped never    *)
(* comes back.                                                                 *)
CONSTANTS Servers, None

VARIABLES listening,  \* the server that accepts connections, or None
          stopped     \* those that no longer do

vars == <<listening, stopped>>

Init == listening = None /\ stopped = {}

Listen(n) ==
  /\ listening = None /\ n \notin stopped
  /\ listening' = n
  /\ UNCHANGED stopped

Stop(n) ==
  /\ listening = n
  /\ listening' = None
  /\ stopped' = stopped \cup {n}

\* A server that ends before it listens
GiveUp(n) ==
  /\ listening # n
  /\ stopped' = stopped \cup {n}
  /\ UNCHANGED listening

Next == \E n \in Servers : Listen(n) \/ Stop(n) \/ GiveUp(n)

Spec == Init /\ [][Next]_vars
=============================================================================

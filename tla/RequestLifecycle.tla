-------------------------- MODULE RequestLifecycle --------------------------
(***************************************************************************)
(* What ds4-server promises a generation request that entered its queue:   *)
(* requests are served one at a time, in the order they entered, each      *)
(* exactly once; a client is released only after its request was served;   *)
(* and the server closes its session only when every request that entered  *)
(* has been served and released.                                           *)
(***************************************************************************)
EXTENDS Integers, Sequences

CONSTANTS Requests,  \* the requests that may enter
          NoRequest  \* no request is being served

VARIABLES line,      \* the requests that entered, in order
          current,   \* the request being served, or NoRequest
          served,    \* how many have been served
          released,  \* those whose client was let go
          status     \* "open", "closed", or "killed" by a second signal

vars == <<line, current, served, released, status>>

Entered == {line[i] : i \in 1..Len(line)}

Init ==
  /\ line = <<>> /\ current = NoRequest /\ served = 0 /\ released = {}
  /\ status = "open"

Enter(r) ==
  /\ status = "open"
  /\ r \notin Entered
  /\ line' = Append(line, r)
  /\ UNCHANGED <<current, served, released, status>>

Begin ==
  /\ status = "open"
  /\ current = NoRequest /\ served < Len(line)
  /\ current' = line[served + 1]
  /\ UNCHANGED <<line, served, released, status>>

Finish ==
  /\ status = "open"
  /\ current # NoRequest
  /\ current' = NoRequest /\ served' = served + 1
  /\ UNCHANGED <<line, released, status>>

Release(r) ==
  /\ status = "open"
  /\ r \notin released
  /\ \E i \in 1..served : line[i] = r
  /\ released' = released \cup {r}
  /\ UNCHANGED <<line, current, served, status>>

Close ==
  /\ status = "open"
  /\ current = NoRequest /\ served = Len(line) /\ released = Entered
  /\ status' = "closed"
  /\ UNCHANGED <<line, current, served, released>>

Kill ==
  /\ status = "open"
  /\ status' = "killed"
  /\ UNCHANGED <<line, current, served, released>>

Next ==
  \/ \E r \in Requests : Enter(r) \/ Release(r)
  \/ Begin \/ Finish \/ Close \/ Kill

Fairness ==
  /\ WF_vars(Begin) /\ WF_vars(Finish)
  /\ \A r \in Requests : WF_vars(Release(r))

SafeSpec == Init /\ [][Next]_vars
Spec == SafeSpec /\ Fairness
=============================================================================

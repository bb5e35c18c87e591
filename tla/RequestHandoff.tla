--------------------------- MODULE RequestHandoff ---------------------------
(***************************************************************************)
(* What the queue of compress requests promises to the windows it serves,  *)
(* and to the user who issued the requests: requests are offered in the    *)
(* order they came in, one at a time; an offer whose window dies goes back *)
(* to the queue; a request that has been handed over is never offered      *)
(* again; and only a request that was handed over, or that has nothing to  *)
(* do, is ever closed.                                                     *)
(***************************************************************************)
EXTENDS Naturals

CONSTANTS
    MaxRequests,  \* bound: how many requests arrive
    Empty         \* the requests that carry no path

Requests == 1 .. MaxRequests

VARIABLE state    \* the state of every request

States == {"unborn", "waiting", "offered", "handed", "closed"}

HandoffTypeOK == state \in [Requests -> States]

HandoffInit == state = [r \in Requests |-> "unborn"]

Becomes(r, from, to) == state[r] \in from /\ state' = [state EXCEPT ![r] = to]

\* A request arrives, after all the earlier ones.
Arrive(r) ==
    /\ \A q \in Requests : q < r => state[q] # "unborn"
    /\ Becomes(r, {"unborn"}, "waiting")

\* The oldest open request is offered to a window.
Offer(r) ==
    /\ \A q \in Requests : q < r => state[q] = "closed"
    /\ Becomes(r, {"waiting"}, "offered")

\* The window died before it was told to go ahead.
TakeBack(r) == Becomes(r, {"offered"}, "waiting")

\* The window is told to go ahead: from here on there is no way back.
HandOver(r) == Becomes(r, {"offered"}, "handed")

\* The request is over: carried out, or given up with the window that had it.
Close(r) ==
    \/ Becomes(r, {"handed"}, "closed")
    \/ r \in Empty /\ Becomes(r, {"offered"}, "closed")

HandoffNext ==
    \E r \in Requests : Arrive(r) \/ Offer(r) \/ TakeBack(r) \/ HandOver(r) \/ Close(r)

HandoffSpec == HandoffInit /\ [][HandoffNext]_state

=============================================================================

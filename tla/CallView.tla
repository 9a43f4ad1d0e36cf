------------------------------ MODULE CallView ------------------------------
(***************************************************************************)
(* What an application is promised about the events of one call object:    *)
(* the order in which UA_EVENT_CALL_INCOMING, _RINGING, _PROGRESS and      *)
(* _ESTABLISHED can reach an event handler before the object goes away.    *)
(* Call.tla implements this specification (call.c and the event handler of *)
(* ept.c); the user interface of menu.c and the back-to-back agent of      *)
(* b2bua.c are written against it.                                         *)
(***************************************************************************)
CONSTANT Calls

VARIABLE view   \* view[c]: the last event reported for the object c

Views == {"none", "incoming", "ringing", "progress", "established"}

Init == view = [c \in Calls |-> "none"]

(* A call the peer starts is announced at most once, and never after the   *)
(* far end has been reported ringing or connected.                         *)
Announce(c) ==
  /\ view[c] = "none"
  /\ view' = [view EXCEPT ![c] = "incoming"]

(* The progress of a call the user starts: ringing and early media may     *)
(* alternate, but never follow ESTABLISHED nor mix with an incoming call.  *)
Progress(c) ==
  /\ view[c] \in {"none", "ringing", "progress"}
  /\ \E e \in {"ringing", "progress"} : view' = [view EXCEPT ![c] = e]

Establish(c) ==
  /\ view[c] # "established"
  /\ view' = [view EXCEPT ![c] = "established"]

(* The object is freed: closed, failed, or transferred away.               *)
End(c) == view' = [view EXCEPT ![c] = "none"]

Next == \E c \in Calls : Announce(c) \/ Progress(c) \/ Establish(c) \/ End(c)

Spec == Init /\ [][Next]_view
=============================================================================

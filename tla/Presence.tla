------------------------------ MODULE Presence ------------------------------
(***************************************************************************)
(* Who holds a reference to a user agent, and how the application stops    *)
(* (ua_stop_all() of ept.c with the modules presence and mwi): presence    *)
(* subscriptions to contacts, which use the first agent, publishers,       *)
(* notifiers, and message waiting subscriptions.  All react to the event   *)
(* SHUTDOWN of an agent, some by a timer; the SIP stack is closed when     *)
(* nobody uses an agent any more, and the application ends when it is.     *)
(***************************************************************************)
EXTENDS Integers, FiniteSets, FiniteSetsExt

CONSTANTS
  PrAgents,  \* agents, numbered in the order of the list
  Contacts   \* contacts with presence=p2p

None == 0

ASSUME PresenceAssumption ==
  PrAgents \subseteq Nat \ {None} /\ IsFiniteSet(PrAgents)

VARIABLES
  uas,    \* listed (uag.ual), owned (the reference of the owner)
  pres,   \* struct presence of each contact: st, ua
  mwi,    \* struct mwi of each agent
  pub,    \* agents with a publisher
  notf,   \* agents with a notifier
  stop    \* at: where ua_stop_all() is; asked: how often, ext (ext_ref), delayed
          \* (delayed_close), closed (sip_close() called), exited

prVars == <<uas, pres, mwi, pub, notf, stop>>

(* No object, waiting to subscribe, subscribed, and released after a while *)
(* (shutdown).                                                             *)
SubState == {"none", "wait", "active", "closing"}

NoPres == [st |-> "none", ua |-> None]

(* Agents of which somebody holds a reference.                             *)
Held(p, m, b, n) ==
  {p[c].ua : c \in {d \in Contacts : p[d].st # "none"}}
    \cup {a \in PrAgents : m[a] # "none"} \cup b \cup n

Alive(u, p, m, b, n) == u.owned \cup (Held(p, m, b, n) \ {None})

(* ua_destructor() of the agents that lose their last reference closes the *)
(* SIP stack if that was left to it.                                       *)
ReleasedBy ==
  LET freed == Alive(uas, pres, mwi, pub, notf)
                 \ Alive(uas', pres', mwi', pub', notf')
  IN stop' = [stop EXCEPT
       !.closed = @ \/ (stop.delayed /\ freed # {} /\ uas'.listed = {})]

Idle == stop.at \in {"no", "done"} /\ ~stop.exited

uag_find_aor == Min(uas.listed)

-----------------------------------------------------------------------------
(* The module presence.                                                    *)

(* A new contact (contact_handler() is removed at SHUTDOWN).               *)
presence_alloc(c) ==
  /\ Idle /\ stop.at = "no"
  /\ pres[c].st = "none"
  /\ pres' = [pres EXCEPT ![c] = [st |-> "wait", ua |-> None]]
  /\ UNCHANGED <<uas, mwi, pub, notf, stop>>

(* tmr_handler(): subscribe with the first agent, or try again later.      *)
subscribe(c, ok) ==
  /\ Idle
  /\ pres[c].st = "wait" /\ uas.listed # {}
  /\ pres' = [pres EXCEPT ![c] = [st |-> IF ok THEN "active" ELSE "wait",
                                  ua |-> uag_find_aor]]
  /\ UNCHANGED <<uas, mwi, pub, notf>>
  /\ ReleasedBy

(* The subscription ends: try again later.                                 *)
close_handler(c) ==
  /\ Idle
  /\ pres[c].st = "active"
  /\ pres' = [pres EXCEPT ![c].st = "wait"]
  /\ UNCHANGED <<uas, mwi, pub, notf, stop>>

(* The contact is removed, or deref_handler() runs, or notify_handler()    *)
(* after the shutdown.                                                     *)
FreePresence(c, from) ==
  /\ Idle
  /\ pres[c].st \in from
  /\ pres' = [pres EXCEPT ![c] = NoPres]
  /\ UNCHANGED <<uas, mwi, pub, notf>>
  /\ ReleasedBy

RemoveContact(c) == stop.at = "no" /\ FreePresence(c, {"wait", "active"})
deref_handler(c) == FreePresence(c, {"closing"})

(* Faulty: a subscription that is active is only marked.                   *)
subscriber_close_all_mark ==
  [c \in Contacts |->
     IF pres[c].st = "active" THEN pres[c] ELSE NoPres]

(* Those with a subscription go later, the others at once: also those that *)
(* an earlier SHUTDOWN has sent away.                                      *)
subscriber_close_all ==
  [c \in Contacts |->
     IF pres[c].st = "active" THEN [pres[c] EXCEPT !.st = "closing"]
     ELSE NoPres]

notifier_add(a) ==
  /\ Idle /\ stop.at = "no"
  /\ a \in uas.listed \ notf
  /\ notf' = notf \cup {a}
  /\ UNCHANGED <<uas, pres, mwi, pub, stop>>

sipnot_close_handler(a) ==
  /\ Idle /\ a \in notf
  /\ notf' = notf \ {a}
  /\ UNCHANGED <<uas, pres, mwi, pub>>
  /\ ReleasedBy

-----------------------------------------------------------------------------
(* The module mwi.                                                         *)

(* After REGISTER_OK.                                                      *)
mwi_subscribe(a) ==
  /\ Idle
  /\ a \in uas.listed /\ mwi[a] = "none"
  /\ mwi' = [mwi EXCEPT ![a] = "active"]
  /\ UNCHANGED <<uas, pres, pub, notf, stop>>

(* close_handler(), or deref_handler() after the shutdown.                 *)
FreeMwi(a, from) ==
  /\ Idle
  /\ mwi[a] = from
  /\ mwi' = [mwi EXCEPT ![a] = "none"]
  /\ UNCHANGED <<uas, pres, pub, notf>>
  /\ ReleasedBy

-----------------------------------------------------------------------------
(* Stopping.                                                               *)

(* Bound: the user quits at most twice.                                    *)
ua_stop_all ==
  /\ Idle /\ stop.asked < 2
  /\ stop' = [stop EXCEPT !.at = "loop", !.ext = 0, !.asked = @ + 1]
  /\ UNCHANGED <<uas, pres, mwi, pub, notf>>

(* The modules at SHUTDOWN of an agent: presence closes everything at the  *)
(* first one, mwi what belongs to the agent.                               *)
event_handler ==
  /\ pres' = subscriber_close_all
  /\ pub' = {} /\ notf' = {}

mwi_event_handler(a) ==
  mwi' = [mwi EXCEPT ![a] = IF @ = "active" THEN "closing" ELSE "none"]

(* One turn of its loop: the agent leaves the list, SHUTDOWN goes to the   *)
(* modules, the owner gives up its reference.                              *)
ua_destroy ==
  /\ stop.at = "loop" /\ uas.listed # {}
  /\ LET a == Min(uas.listed) IN
     /\ uas' = [listed |-> uas.listed \ {a}, owned |-> uas.owned \ {a}]
     /\ event_handler /\ mwi_event_handler(a)
     /\ stop' = [stop EXCEPT
          !.ext = IF a \in Held(pres', mwi', pub', notf') THEN @ + 1 ELSE @]

(* After the loop: close the stack, or leave it to who holds an agent.     *)
StopEnds ==
  /\ stop.at = "loop" /\ uas.listed = {}
  /\ stop' = IF stop.ext > 0 THEN [stop EXCEPT !.at = "done", !.delayed = TRUE]
             ELSE [stop EXCEPT !.at = "done", !.closed = TRUE]
  /\ UNCHANGED <<uas, pres, mwi, pub, notf>>

(* The SIP stack has finished its transactions.                            *)
exit_handler ==
  /\ Idle /\ stop.closed
  /\ stop' = [stop EXCEPT !.exited = TRUE]
  /\ UNCHANGED <<uas, pres, mwi, pub, notf>>

-----------------------------------------------------------------------------
PrInit ==
  /\ uas = [listed |-> PrAgents, owned |-> PrAgents]
  /\ pres = [c \in Contacts |-> NoPres]
  /\ mwi = [a \in PrAgents |-> "none"]
  /\ pub \in SUBSET PrAgents
  /\ notf = {}
  /\ stop = [at |-> "no", asked |-> 0, ext |-> 0, delayed |-> FALSE, closed |-> FALSE,
             exited |-> FALSE]

Timers ==
  \/ \E c \in Contacts : deref_handler(c)
  \/ \E a \in PrAgents : FreeMwi(a, "closing")

Stopping == ua_destroy \/ StopEnds \/ exit_handler

PrNext ==
  \/ \E c \in Contacts :
       \/ presence_alloc(c) \/ close_handler(c) \/ RemoveContact(c)
       \/ \E ok \in BOOLEAN : subscribe(c, ok)
  \/ \E a \in PrAgents :
       \/ notifier_add(a) \/ sipnot_close_handler(a)
       \/ mwi_subscribe(a) \/ FreeMwi(a, "active")
  \/ ua_stop_all \/ Timers \/ Stopping

PrSpec == PrInit /\ [][PrNext]_prVars

(* Timers run out, a loop goes on, transactions end.                       *)
PrFairSpec == PrSpec /\ WF_prVars(Timers) /\ WF_prVars(Stopping)

-----------------------------------------------------------------------------
(* Properties.                                                             *)

PrTypeOK ==
  /\ uas.listed \subseteq uas.owned /\ uas.owned \subseteq PrAgents
  /\ \A c \in Contacts : pres[c].st \in SubState
                           /\ (pres[c].st = "active" => pres[c].ua # None)
  /\ pub \cup notf \subseteq PrAgents
  /\ stop.ext \in 0..Cardinality(PrAgents)

(* Once the application is told to stop, every agent is freed, whoever     *)
(* subscribes, publishes or is subscribed to at that time.                 *)
AgentsFreed ==
  (stop.at # "no") ~> (Alive(uas, pres, mwi, pub, notf) = {} \/ stop.exited)

(* ept.c, uag_set_exit_handler(): "The exit handler will be called         *)
(* asyncronously when the SIP stack has exited": stopping all agents ends  *)
(* the application.                                                        *)
StopExits == (stop.at # "no") ~> stop.exited
=============================================================================

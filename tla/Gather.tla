------------------------------- MODULE Gather -------------------------------
(***************************************************************************)
(* Media NAT traversal of one call (modules stun, turn, natpmp, pcp, ice): *)
(* a request per component (RTP, RTCP) of every media, answers and errors  *)
(* in any order, and one report to the call when all addresses are known,  *)
(* for which its INVITE or the event of its incoming call waits.  With ICE *)
(* another report may follow, after the connectivity checks.  Each module  *)
(* counts in its own way: medias that are not ready (stun, turn), grants   *)
(* (natpmp, pcp), requests under way (ice).                                *)
(***************************************************************************)
EXTENDS Integers, FiniteSets

CONSTANTS
  Medias,    \* audio, video
  Comps,     \* components of each: RTP, and RTCP unless multiplexed
  NatKinds   \* modules; ice comes with a STUN or a TURN server or without one

ASSUME GatherAssumption ==
  /\ IsFiniteSet(Medias) /\ Medias # {} /\ IsFiniteSet(Comps) /\ Comps # {}
  /\ NatKinds \subseteq {"stun", "turn", "natpmp", "pcp",
                         "ice", "ice_stun", "ice_turn"}

VARIABLES
  nat,   \* the kind of the session
  nsess, \* struct mnat_sess: dns (done), mediac, estabh (set), started,
         \* reinvite (send_reinvite), offerer
  req,   \* the request of each component: idle, under way (turn, stun,
         \* refresh), done, failed, lost (natpmp: gone without a report);
         \* pairs of media and component
  med,   \* ICE, of each media: nstun, gathered, complete
  app,   \* the call: open, wait (mnat_wait), modify (re-INVITEs by reports)
  moved  \* an address changed while others were not yet known

gaVars == <<nat, nsess, req, med, app, moved>>

Requests == Medias \X Comps
UnderWay == {"turn", "stun", "refresh"}
Counted == nat \in {"stun", "turn"}
Granting == nat \in {"natpmp", "pcp"}
Ice == nat \in {"ice", "ice_stun", "ice_turn"}

(* mnat_handler() of the call: an error closes it, and the session is freed*)
(* with it; the first success lets it go on, any other sends a re-INVITE.  *)
mnat_handler(ok) ==
  app' = IF ~ok THEN [app EXCEPT !.open = FALSE]
         ELSE IF app.wait THEN [app EXCEPT !.wait = FALSE]
         ELSE [app EXCEPT !.modify = @ + 1]

-----------------------------------------------------------------------------
(* Starting.                                                               *)

FirstRequest ==
  CASE nat \in {"turn", "ice_turn"} -> "turn" [] nat = "ice" -> "done"
    [] OTHER -> "stun"

(* dns_handler() starts all medias; ice without a server does it by a      *)
(* timer, and has nothing to ask for (tmr_async_handler()).                *)
dns_handler(ok) ==
  /\ app.open /\ ~nsess.dns
  /\ nsess' = [nsess EXCEPT !.dns = TRUE]
  /\ IF ok
     THEN /\ req' = [r \in Requests |-> FirstRequest]
          /\ med' = [m \in Medias |->
                      [med[m] EXCEPT !.gathered = nat = "ice",
                         !.nstun = IF nat \in {"ice_stun", "ice_turn"}
                                   THEN Cardinality(Comps) ELSE 0]]
          /\ IF nat = "ice" THEN mnat_handler(TRUE) ELSE UNCHANGED app
     ELSE mnat_handler(FALSE) /\ UNCHANGED <<req, med>>
  /\ UNCHANGED <<nat, moved>>

-----------------------------------------------------------------------------
(* stun and turn.                                                          *)

Others(r) == {s \in Requests : s[1] = r[1] /\ s # r}

(* Faulty: the other component of the media is not looked at.              *)
mapped_handler_any(r) ==
  /\ req' = [req EXCEPT ![r] = "done"]
  /\ nsess' = [nsess EXCEPT !.mediac = @ - 1]
  /\ IF nsess.mediac = 1 THEN mnat_handler(TRUE) ELSE UNCHANGED app

(* mapped_handler1() and 2, turn_handler1() and 2, without an error.       *)
mapped_handler(r) ==
  /\ req' = [req EXCEPT ![r] = "done"]
  /\ IF \E s \in Others(r) : req[s] # "done"
     THEN UNCHANGED <<nsess, app>>
     ELSE /\ nsess' = [nsess EXCEPT !.mediac = @ - 1]
          /\ IF nsess.mediac = 1 THEN mnat_handler(TRUE) ELSE UNCHANGED app

(* The first answer; the keepalive of stun also reports a change later.    *)
(* Bound: no changes when the count is below zero.                         *)
Mapped(r) ==
  /\ app.open /\ Counted
  /\ req[r] \in UnderWay \/ (nat = "stun" /\ req[r] = "done"
                             /\ nsess.mediac >= 0)
  /\ mapped_handler(r)
  /\ moved' = (moved \/ (req[r] = "done" /\ app.wait))
  /\ UNCHANGED <<nat, med>>

(* An error of a request, a keepalive or a refresh, at any time.           *)
MappingFails(r) ==
  /\ app.open /\ Counted /\ req[r] \in UnderWay \cup {"done"}
  /\ mnat_handler(FALSE)
  /\ UNCHANGED <<nat, nsess, req, med, moved>>

-----------------------------------------------------------------------------
(* natpmp and pcp.                                                         *)

(* Faulty: the handler of the call is kept.                                *)
complete_keep(ok) ==
  IF nsess.estabh THEN mnat_handler(ok) /\ UNCHANGED nsess
  ELSE UNCHANGED <<nsess, app>>

complete(ok) ==
  IF nsess.estabh
  THEN mnat_handler(ok) /\ nsess' = [nsess EXCEPT !.estabh = FALSE]
  ELSE UNCHANGED <<nsess, app>>

(* comp->granted, which a refresh and its failure do not take back.        *)
Granted(q, r) == q[r] \notin {"stun", "lost"}

(* Of the answer to another question (natpmp) only the request is gone: it *)
(* was freed before the handler, which returns, and nobody asks again.     *)
natpmp_resp_handler(r, fits) ==
  /\ app.open /\ Granting /\ req[r] \in UnderWay
  /\ ~fits => nat = "natpmp"
  /\ req' = [req EXCEPT ![r] = CASE fits -> "done"
                                 [] ~fits /\ @ = "refresh" -> "failed"
                                 [] OTHER -> "lost"]
  /\ IF fits /\ \A s \in Requests : Granted(req', s) THEN complete(TRUE)
     ELSE UNCHANGED <<nsess, app>>
  /\ UNCHANGED <<nat, med, moved>>

(* After a refresh that failed there is no other.                          *)
GrantFails(r) ==
  /\ app.open /\ Granting /\ req[r] \in UnderWay
  /\ req' = [req EXCEPT ![r] = IF @ = "refresh" THEN "failed" ELSE @]
  /\ complete(FALSE)
  /\ UNCHANGED <<nat, med, moved>>

refresh_timeout(r) ==
  /\ app.open /\ Granting /\ req[r] = "done"
  /\ req' = [req EXCEPT ![r] = "refresh"]
  /\ UNCHANGED <<nat, nsess, med, app, moved>>

-----------------------------------------------------------------------------
(* ice.                                                                    *)

(* call_gather_handler() and gather_handler(): only the last answer of a   *)
(* media counts, so an error is forgotten if another answer follows; the   *)
(* default candidates may be missing (ok is FALSE).                        *)
Gathered(m, n, ok) ==
  /\ med' = [med EXCEPT ![m].nstun = n, ![m].gathered = @ \/ (n = 0 /\ ok)]
  /\ IF n # 0 THEN UNCHANGED <<nsess, app>>
     ELSE IF ~ok THEN complete(FALSE)
     ELSE IF \A k \in Medias : med'[k].gathered
     THEN mnat_handler(TRUE) /\ UNCHANGED nsess
     ELSE UNCHANGED <<nsess, app>>

(* Faulty: a failed request is not counted.                                *)
stun_resp_handler_no_count(r, ok) ==
  /\ app.open /\ Ice /\ req[r] = "stun"
  /\ req' = [req EXCEPT ![r] = IF ok THEN "done" ELSE "failed"]
  /\ IF ok THEN Gathered(r[1], med[r[1]].nstun - 1, ok)
     ELSE UNCHANGED <<nsess, med, app>>
  /\ UNCHANGED <<nat, moved>>

stun_resp_handler(r, ok) ==
  /\ app.open /\ Ice /\ req[r] = "stun"
  /\ req' = [req EXCEPT ![r] = IF ok THEN "done" ELSE "failed"]
  /\ Gathered(r[1], med[r[1]].nstun - 1, ok)
  /\ UNCHANGED <<nat, moved>>

(* A refusal, or an answer without a mapped address, leads to a binding    *)
(* request of the same component.                                          *)
turnc_handler(r, outcome) ==
  IF outcome \in {"refused", "unmapped"}
  THEN /\ req' = [req EXCEPT ![r] = "stun"]
       /\ UNCHANGED <<nsess, med, app>>
  ELSE /\ req' = [req EXCEPT ![r] = IF outcome = "ok" THEN "done" ELSE "failed"]
       /\ Gathered(r[1], med[r[1]].nstun - 1, outcome = "ok")

Relayed(r) ==
  /\ app.open /\ Ice /\ req[r] = "turn"
  /\ \E outcome \in {"ok", "unmapped", "refused", "error"} :
       turnc_handler(r, outcome)
  /\ UNCHANGED <<nat, moved>>

(* The peer has answered or offered: update() starts the checks once.      *)
ice_start ==
  /\ app.open /\ Ice /\ ~app.wait /\ ~nsess.started
  /\ nsess' = [nsess EXCEPT !.started = TRUE]
  /\ \E without \in SUBSET Medias : \* medias the peer does not have
       med' = [m \in Medias |-> [med[m] EXCEPT !.complete = m \in without]]
  /\ UNCHANGED <<nat, req, app, moved>>

(* The checks of a media end: a failure is only logged, a success may      *)
(* select other addresses than were sent, which the offerer sends again    *)
(* when all medias have come so far.                                       *)
conncheck_handler(m, changed) ==
  /\ app.open /\ nsess.started /\ ~med[m].complete
  /\ med' = [med EXCEPT ![m].complete = TRUE]
  /\ LET again == nsess.reinvite \/ changed IN
     IF again /\ nsess.offerer /\ \A k \in Medias : med'[k].complete
     THEN mnat_handler(TRUE) /\ nsess' = [nsess EXCEPT !.reinvite = FALSE]
     ELSE nsess' = [nsess EXCEPT !.reinvite = again] /\ UNCHANGED app
  /\ UNCHANGED <<nat, req, moved>>

HangUpWaiting ==
  /\ app.open
  /\ app' = [app EXCEPT !.open = FALSE]
  /\ UNCHANGED <<nat, nsess, req, med, moved>>

-----------------------------------------------------------------------------
session_alloc ==
  nsess \in [dns : {Granting}, mediac : {Cardinality(Medias)},
             estabh : {TRUE}, started : {FALSE}, reinvite : {FALSE},
             offerer : BOOLEAN]

(* natpmp and pcp ask at once, the others look up their server first.      *)
media_alloc ==
  /\ req = [r \in Requests |-> IF Granting THEN "stun" ELSE "idle"]
  /\ med = [m \in Medias |-> [nstun |-> 0, gathered |-> FALSE, complete |-> FALSE]]

GaInit ==
  /\ nat \in NatKinds
  /\ session_alloc /\ media_alloc
  /\ app = [open |-> TRUE, wait |-> TRUE, modify |-> 0]
  /\ moved = FALSE

(* A request is answered, or fails.                                        *)
Answers(r) ==
  \/ req[r] \in UnderWay /\ (Mapped(r) \/ MappingFails(r))
  \/ GrantFails(r) \/ \E fits \in BOOLEAN : natpmp_resp_handler(r, fits)
  \/ Relayed(r) \/ \E ok \in BOOLEAN : stun_resp_handler(r, ok)

(* Every request runs into its timeout at last, but not those of pcp, which*)
(* are sent again without a bound.                                         *)
AnswersOrTimeout(r) == nat # "pcp" /\ Answers(r)

Resolved == \E ok \in BOOLEAN : dns_handler(ok)

GaNext ==
  \/ Resolved \/ ice_start \/ HangUpWaiting
  \/ \E r \in Requests : Answers(r) \/ Mapped(r) \/ MappingFails(r) \/ refresh_timeout(r)
  \/ \E m \in Medias, changed \in BOOLEAN : conncheck_handler(m, changed)

GaFairness ==
  WF_gaVars(Resolved) /\ \A r \in Requests : WF_gaVars(AnswersOrTimeout(r))

GaSpec == GaInit /\ [][GaNext]_gaVars
GaFairSpec == GaSpec /\ GaFairness

-----------------------------------------------------------------------------
(* Properties.                                                             *)

GaTypeOK ==
  /\ nsess.mediac \in -1-Cardinality(Medias)..Cardinality(Medias)
  /\ req \in [Requests -> UnderWay \cup {"idle", "done", "failed", "lost"}]
  /\ \A m \in Medias : med[m].nstun \in 0..Cardinality(Comps)
  /\ app \in [open : BOOLEAN, wait : BOOLEAN, modify : Nat]

(* The call goes on only when every component of every media has got its   *)
(* address, or with ICE its last answer, in every order of the answers.    *)
(* (stun: unless an address changed before all were known, which counts as *)
(* one more media.)                                                        *)
GatheredAll ==
  app.open /\ ~app.wait /\ ~moved
    => \A r \in Requests :
         req[r] \in {"done", "refresh"} \cup IF Counted THEN {} ELSE {"failed"}

(* The report is given once: refreshes, changes and late answers send no   *)
(* re-INVITE; ICE sends at most one, when all its checks have ended.       *)
OneReport ==
  app.modify > 0 =>
    Ice /\ nsess.offerer /\ app.modify = 1 /\ \A m \in Medias : med[m].complete

(* The call goes on or is closed, unless a request stays without a report: *)
(* one that natpmp lost, or one of pcp that no server answers.             *)
Unreported ==
  \E r \in Requests : req[r] = "lost" \/ (nat = "pcp" /\ req[r] = "stun")
GatheringEnds == <>[]Unreported \/ (app.wait ~> (~app.wait \/ ~app.open))
=============================================================================

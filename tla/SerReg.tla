------------------------------- MODULE SerReg -------------------------------
(***************************************************************************)
(* Serial registration (modules/serreg/serreg.c) over the registration     *)
(* clients of the user agents (reg.c, start_register() of ept.c).          *)
(*                                                                         *)
(* Accounts have priorities, 0 is the first choice.  Accounts of one       *)
(* priority are registered; when all of them fail the next priority is     *)
(* tried.  An account with a fallback interval is polled with REGISTER     *)
(* requests that expire at once while another priority is in use.          *)
(*                                                                         *)
(* An action is one callback of the event loop: the answer to a REGISTER   *)
(* goes through register_handler() and ua_event() into the event handler   *)
(* of serreg.c, which may register or poll other accounts before it        *)
(* returns.  The client that sends, refreshes and retries (sipreg of       *)
(* libre) is outside the repository: once started it answers again and     *)
(* again, until it is replaced.                                            *)
(***************************************************************************)
EXTENDS Integers

CONSTANTS
  Agents,      \* user agents, one account and one registration client each
  Accounts,    \* the accounts the agents may have
  NoPrio,      \* (uint32_t)-1, above every priority
  MaxResets    \* bound on how often the network changes

ASSUME SerRegAssumption ==
  /\ NoPrio \in Nat
  /\ Accounts \subseteq [Agents -> [prio : 0 .. NoPrio - 1,
                                   regint : BOOLEAN, fbregint : BOOLEAN]]
  /\ \A f \in Accounts : \E a \in Agents : f[a].prio = 0 /\ f[a].regint
  /\ MaxResets \in Nat

VARIABLES
  acc,     \* acc[a]: prio, whether regint and fbregint are not zero
  client,  \* client[a]: what the registration client of a is doing
  sreg,    \* prio: current priority, sprio: last that succeeded
  up,      \* up[a]: the server of a answers with 200
  resets   \* number of network changes so far

vars == <<acc, client, sreg, up, resets>>

(* none: no client.  register: it sends REGISTER, fallback: it polls.      *)
(* status is its last answer; a client that replaces one that failed       *)
(* starts as failed (sipreg_incfailc()).                                   *)
Client == [mode : {"none", "register", "fallback"},
           status : {"new", "ok", "failed"}]

-----------------------------------------------------------------------------
(* Registration clients: c is the function client during a callback.       *)

Serial == {a \in Agents : acc[a].regint}

ua_regfailed(c, a) == c[a].status = "failed"

(* Start clients of mode m for the agents S, replacing those they have.    *)
reg_register(c, S, m) ==
  [a \in Agents |->
     IF a \in S
     THEN [mode |-> m,
           status |-> IF ua_regfailed(c, a) THEN "failed" ELSE "new"]
     ELSE c[a]]

ua_register(c, S) == reg_register(c, S \cap Serial, "register")

(* Faulty: accounts without a fallback interval are polled too.            *)
ua_fallback_all(c, S) == reg_register(c, S \cap Serial, "fallback")

ua_fallback(c, S) ==
  reg_register(c, {a \in S \cap Serial : acc[a].fbregint}, "fallback")

ua_isregistered(a) == client[a] = [mode |-> "register", status |-> "ok"]

-----------------------------------------------------------------------------
(* The choice of the priority.                                             *)

OfPrio(p) == {a \in Serial : acc[a].prio = p}

(* All registrations of the priority p failed, also if it has none.        *)
check_registrations(c, p) == \A a \in OfPrio(p) : ua_regfailed(c, a)

(* Faulty: accounts that do not register are not skipped.                  *)
register_curprio_all(c, p) ==
  {a \in Agents :
     acc[a].prio = p /\ (acc[a].fbregint => ~ua_regfailed(c, a))}

(* Whom register_curprio() registers: not those whose last poll failed.    *)
register_curprio(c, p) ==
  {a \in OfPrio(p) : acc[a].fbregint => ~ua_regfailed(c, a)}

(* The priorities inc_account_prio() visits, those of accounts that do not *)
(* register too; after sreg.maxprio it starts again from 0.                *)
inc_account_prio ==
  {0} \cup {acc[a].prio : a \in {b \in Agents :
                                  \E m \in Serial : acc[b].prio <= acc[m].prio}}

(* q comes before r when one starts above p.                               *)
Before(p, q, r) ==
  \/ q > p /\ r <= p
  \/ (q > p <=> r > p) /\ q < r

(* The loop of next_account() from priority p, where s was the last that   *)
(* succeeded: it ends at s, at the first priority with somebody to         *)
(* register, or where it started.                                          *)
LoopEnd(c, p, s) ==
  LET Ends(q) == q = s \/ q = p \/ register_curprio(c, q) # {}
  IN CHOOSE q \in inc_account_prio :
       /\ Ends(q)
       /\ \A r \in inc_account_prio : Ends(r) => ~Before(p, r, q)

(* The current priority has a failure: agent a is polled from now on, and  *)
(* when nobody of that priority is left the next one is registered.        *)
next_account(c, a) ==
  LET p == sreg.prio
      s == IF sreg.sprio = NoPrio THEN p ELSE sreg.sprio
      q == LoopEnd(c, p, s)
      R == IF q = s THEN {} ELSE register_curprio(c, q)
  IN IF check_registrations(c, p)
     THEN /\ sreg' = [prio |-> IF R = {} THEN NoPrio ELSE q, sprio |-> s]
          /\ client' = ua_fallback(ua_register(c, R), {a})
     ELSE /\ sreg' = [sreg EXCEPT !.sprio = s]
          /\ client' = ua_fallback(c, {a})

(* Faulty: the other priorities keep their registrations.                  *)
fallback_ok_no_update(c, a) ==
  LET p == acc[a].prio
  IN IF p <= sreg.prio
     THEN /\ sreg' = [sreg EXCEPT !.prio = p]
          /\ client' = ua_register(c, register_curprio(c, p))
     ELSE /\ client' = c
          /\ UNCHANGED sreg

(* Faulty: only a better priority counts, as if one were always in use.    *)
fallback_ok_strict(c, a) ==
  LET p == acc[a].prio
  IN IF p < sreg.prio /\ sreg.prio # NoPrio
     THEN /\ sreg' = [sreg EXCEPT !.prio = p]
          /\ client' = ua_fallback(ua_register(c, register_curprio(c, p)),
                                   Serial \ OfPrio(p))
     ELSE /\ client' = c
          /\ UNCHANGED sreg

(* A polled server is back.  If its priority is as good as the current one *)
(* its agents are registered, and those of all other priorities polled.    *)
fallback_ok(c, a) ==
  LET p == acc[a].prio
  IN IF p <= sreg.prio
     THEN /\ sreg' = [sreg EXCEPT !.prio = p]
          /\ client' = ua_fallback(ua_register(c, register_curprio(c, p)),
                                   Serial \ OfPrio(p))
     ELSE /\ client' = c
          /\ UNCHANGED sreg

-----------------------------------------------------------------------------
(* Actions.                                                                *)

(* The answer to a REGISTER request and the event it causes.               *)
register_handler(a) ==
  /\ client[a].mode # "none"
  /\ LET c == [client EXCEPT ![a].status = IF up[a] THEN "ok" ELSE "failed"]
     IN CASE client[a].mode = "register" /\ up[a] ->
               /\ sreg' = [prio |-> acc[a].prio, sprio |-> acc[a].prio]
               /\ client' = c
          [] /\ client[a].mode = "register" /\ ~up[a]
             /\ acc[a].prio = sreg.prio -> next_account(c, a)
          [] client[a].mode = "fallback" /\ up[a] -> fallback_ok(c, a)
          [] OTHER -> /\ client' = c
                      /\ UNCHANGED sreg
  /\ UNCHANGED <<acc, up, resets>>

(* The first choice is registered and the rest polled, when the accounts   *)
(* are loaded and again when the network changes.                          *)
RegisterAll(c) ==
  ua_fallback(ua_register(c, OfPrio(0)), Serial \ OfPrio(0))

uag_reset_transp ==
  /\ resets < MaxResets
  /\ resets' = resets + 1
  /\ client' = RegisterAll(client)
  /\ UNCHANGED <<acc, sreg, up>>

(* A server goes down or comes back.                                       *)
Server(a) ==
  /\ up' = [up EXCEPT ![a] = ~@]
  /\ UNCHANGED <<acc, client, sreg, resets>>

Init ==
  /\ acc \in Accounts
  /\ client = RegisterAll([a \in Agents |-> [mode |-> "none", status |-> "new"]])
  /\ sreg = [prio |-> 0, sprio |-> NoPrio]
  /\ up \in [Agents -> BOOLEAN]
  /\ resets = 0

Next ==
  \/ \E a \in Agents : register_handler(a) \/ Server(a)
  \/ uag_reset_transp

(* Every client gets an answer in the end, and another one after that: the *)
(* transaction times out, and refresh, retry and poll have timers.         *)
Fairness == \A a \in Agents : WF_vars(register_handler(a))

Spec == Init /\ [][Next]_vars
FairSpec == Spec /\ Fairness

-----------------------------------------------------------------------------
(* Properties.                                                             *)

(* Every variable has its type; an agent has a client if and only if its   *)
(* account registers, or is polled instead (ept.c, start_register()).      *)
TypeOK ==
  /\ acc \in Accounts
  /\ client \in [Agents -> Client]
  /\ sreg \in [prio : 0 .. NoPrio, sprio : 0 .. NoPrio]
  /\ up \in [Agents -> BOOLEAN]
  /\ resets \in 0 .. MaxResets
  /\ \A a \in Agents :
       /\ client[a].mode = "register" => a \in Serial
       /\ client[a].mode = "fallback" => a \in Serial /\ acc[a].fbregint

(* The current priority is one that an account with a registration has, or *)
(* none: the search never stops in a gap (inc_account_prio() visits gaps   *)
(* and accounts that do not register).                                     *)
PrioInUse ==
  /\ sreg.prio # NoPrio => OfPrio(sreg.prio) # {}
  /\ sreg.sprio # NoPrio => OfPrio(sreg.sprio) # {}

Polled == \A a \in Serial : acc[a].fbregint

(* When all accounts are polled, only those of the current priority        *)
(* register; every other one is polled, so that its return is noticed and  *)
(* nobody is registered on two priorities at once (next_account(),         *)
(* fallback_ok()).  The network does not change here.                      *)
OnePriority ==
  resets = 0 /\ Polled =>
    \A a \in Serial :
      client[a].mode = IF acc[a].prio = sreg.prio /\ client[a].mode = "register"
                       THEN "register" ELSE "fallback"

(* The servers stop changing, and that of an agent that registers answers. *)
ServersSettle ==
  /\ \A a \in Agents : <>[](up[a]) \/ <>[](~up[a])
  /\ \E a \in Agents : <>[](a \in Serial /\ up[a])

(* Giving up is never final: once the servers stop changing and one of     *)
(* them answers, somebody is registered again and again, whichever order   *)
(* answers and failovers came in before.  This is so in both modes: with   *)
(* no account polled, and, as long as the network does not change, with    *)
(* all of them polled.                                                     *)
RegisteredInTheEnd ==
  /\ ServersSettle
  /\ \/ \A a \in Serial : ~acc[a].fbregint
     \/ Polled /\ [](resets = 0)
  => []<>(\E a \in Agents : ua_isregistered(a))

(* serreg.c: "Prio 1 accounts are fallback accounts and are registered if  *)
(* all of the prio 0 accounts registrations fail.  Prio 2 accounts are     *)
(* fallback accounts second stage": also after the network changed.        *)
FallbackStages ==
  ServersSettle => []<>(\E a \in Agents : ua_isregistered(a))

(* serreg.c: "If a (re-)REGISTER with positive expires value fails, serreg *)
(* switches to the next available UA": it does not give up while a polled  *)
(* server is known to be available.                                        *)
SwitchesToAvailable ==
  [][ sreg.prio # NoPrio /\ sreg.prio' = NoPrio =>
        \A a \in Serial : client[a] # [mode |-> "fallback", status |-> "ok"]
    ]_vars
=============================================================================

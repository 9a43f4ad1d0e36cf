---------------------------- MODULE SerRegProofs ----------------------------
(***************************************************************************)
(* Proofs about SerReg.tla, for any set of agents and accounts, any number *)
(* of priorities and of network changes.                                   *)
(*                                                                         *)
(* The argument: as long as all accounts are polled and the network does   *)
(* not change, an agent that registers belongs to the current priority and *)
(* has not failed (Registering).  So when check_registrations() finds that *)
(* the whole priority failed, the agent that just failed is the last one   *)
(* that registers, and nobody stays behind on the old priority.            *)
(***************************************************************************)
EXTENDS SerReg, TLAPS

Registering(a) ==
  /\ client[a].mode \in {"register", "fallback"}
  /\ client[a].mode = "register" =>
       acc[a].prio = sreg.prio /\ client[a].status # "failed"

IInv ==
  /\ TypeOK
  /\ PrioInUse
  /\ resets = 0 /\ Polled => \A a \in Serial : Registering(a)

-----------------------------------------------------------------------------
(* Registration clients.                                                   *)

(* An agent has a client of a kind its account allows.                     *)
Allowed(c) ==
  /\ c \in [Agents -> Client]
  /\ \A a \in Agents :
       /\ c[a].mode = "register" => a \in Serial
       /\ c[a].mode = "fallback" => a \in Serial /\ acc[a].fbregint

(* ua_register(): the agents of S that may register do, the others keep    *)
(* what they have, and a failure is remembered.                            *)
LEMMA RegisterFacts ==
  ASSUME NEW c, Allowed(c), NEW S
  PROVE  /\ Allowed(ua_register(c, S))
         /\ \A a \in Agents :
              /\ a \in S /\ a \in Serial =>
                   /\ ua_register(c, S)[a].mode = "register"
                   /\ ua_register(c, S)[a].status = "failed"
                        <=> c[a].status = "failed"
              /\ ~(a \in S /\ a \in Serial) => ua_register(c, S)[a] = c[a]
BY DEF Allowed, ua_register, reg_register, ua_regfailed, Client

(* ua_fallback(): the same for those that may be polled.                   *)
LEMMA FallbackFacts ==
  ASSUME NEW c, Allowed(c), NEW S
  PROVE  /\ Allowed(ua_fallback(c, S))
         /\ \A a \in Agents :
              /\ a \in S /\ a \in Serial /\ acc[a].fbregint =>
                   ua_fallback(c, S)[a].mode = "fallback"
              /\ ~(a \in S /\ a \in Serial /\ acc[a].fbregint) =>
                   ua_fallback(c, S)[a] = c[a]
BY DEF Allowed, ua_fallback, reg_register, ua_regfailed, Client

(* What the accounts are, from the type of the variable.                   *)
LEMMA AccountFacts ==
  ASSUME acc \in Accounts
  PROVE  /\ \A a \in Agents : acc[a].prio \in 0 .. NoPrio - 1
         /\ OfPrio(0) # {}
         /\ NoPrio \in Nat
BY SerRegAssumption DEF OfPrio, Serial

-----------------------------------------------------------------------------
(* The start.                                                              *)

LEMMA InitInvariant == Init => IInv
<1> SUFFICES ASSUME Init
             PROVE  IInv
  OBVIOUS
<1> DEFINE c0 == [a \in Agents |-> [mode |-> "none", status |-> "new"]]
           c1 == ua_register(c0, OfPrio(0))
<1>1. acc \in Accounts /\ sreg = [prio |-> 0, sprio |-> NoPrio] /\ resets = 0
      /\ up \in [Agents -> BOOLEAN] /\ client = RegisterAll(c0)
  BY DEF Init
<1>2. Allowed(c0)
  BY DEF Allowed, Client
<1>3. \A a \in Agents : c0[a].status = "new"
  OBVIOUS
<1>4. client = ua_fallback(c1, Serial \ OfPrio(0))
  BY <1>1 DEF RegisterAll
<1> HIDE DEF c0
<1>5. Allowed(c1)
  BY <1>2, RegisterFacts
<1>6. \A a \in Agents : a \in OfPrio(0) =>
         c1[a].mode = "register" /\ c1[a].status # "failed"
  BY <1>2, <1>3, RegisterFacts DEF OfPrio
<1> HIDE DEF c1
<1>7. Allowed(client)
  BY <1>4, <1>5, FallbackFacts
<1>8. \A a \in Serial : acc[a].prio = 0 => client[a] = c1[a]
  BY <1>4, <1>5, FallbackFacts DEF Serial, OfPrio
<1>9. ASSUME Polled, NEW a \in Serial
      PROVE  Registering(a)
  <2>1. CASE acc[a].prio = 0
    BY <2>1, <1>1, <1>6, <1>8 DEF Registering, Serial, OfPrio
  <2>2. CASE acc[a].prio # 0
    <3>1. client[a].mode = "fallback"
      BY <2>2, <1>4, <1>5, <1>9, FallbackFacts DEF Polled, Serial, OfPrio
    <3> QED
      BY <3>1 DEF Registering
  <2> QED
    BY <2>1, <2>2
<1>10. TypeOK
  <2>1. sreg \in [prio : 0 .. NoPrio, sprio : 0 .. NoPrio]
    BY <1>1, SerRegAssumption
  <2>2. resets \in 0 .. MaxResets
    BY <1>1, SerRegAssumption
  <2> QED
    BY <2>1, <2>2, <1>1, <1>7 DEF TypeOK, Allowed
<1>11. PrioInUse
  BY <1>1, AccountFacts DEF PrioInUse
<1> QED
  BY <1>9, <1>10, <1>11 DEF IInv

-----------------------------------------------------------------------------
(* The answer to a REGISTER request.  c is the function client after the   *)
(* status was stored, when the event handler of serreg.c starts.           *)

Answered(c, a) ==
  /\ TypeOK
  /\ PrioInUse
  /\ Allowed(c)
  /\ \A b \in Agents : b # a => c[b] = client[b]
  /\ c[a].mode = client[a].mode

(* What an event handler has to establish.                                 *)
Handled ==
  /\ Allowed(client')
  /\ sreg' \in [prio : 0 .. NoPrio, sprio : 0 .. NoPrio]
  /\ sreg'.prio # NoPrio => OfPrio(sreg'.prio) # {}
  /\ sreg'.sprio # NoPrio => OfPrio(sreg'.sprio) # {}

HandledRegistering ==
  \A a \in Serial :
    /\ client'[a].mode \in {"register", "fallback"}
    /\ client'[a].mode = "register" =>
         acc[a].prio = sreg'.prio /\ client'[a].status # "failed"

(* Enough for the invariant, as an answer changes no account.              *)
LEMMA HandledInvariant ==
  ASSUME IInv, Handled, resets = 0 /\ Polled => HandledRegistering,
         acc' = acc, up' = up, resets' = resets
  PROVE  IInv'
<1>1. Serial' = Serial /\ (Polled <=> Polled')
  BY DEF Serial, Polled
<1>2. TypeOK'
  BY <1>1 DEF IInv, TypeOK, Handled, Allowed
<1>3. PrioInUse'
  BY DEF PrioInUse, Handled, OfPrio, Serial
<1>4. ASSUME resets' = 0, Polled'
      PROVE  (\A a \in Serial : Registering(a))'
  BY <1>1, <1>4 DEF HandledRegistering, Registering
<1> QED
  BY <1>2, <1>3, <1>4 DEF IInv

(* Whoever is registered has the priority asked for and did not fail.      *)
LEMMA CurprioFacts ==
  ASSUME acc \in Accounts, NEW c, NEW p
  PROVE  /\ register_curprio(c, p) \subseteq Serial
         /\ \A a \in register_curprio(c, p) : acc[a].prio = p
         /\ register_curprio(c, p) # {} =>
              p \in 0 .. NoPrio - 1 /\ OfPrio(p) # {}
         /\ Polled => \A a \in register_curprio(c, p) : c[a].status # "failed"
BY AccountFacts DEF register_curprio, OfPrio, Serial, ua_regfailed, Polled

(* The failover keeps the types: the priority it stops at is one that has  *)
(* somebody to register, or it gives up.                                   *)
LEMMA NextAccountHandled ==
  ASSUME NEW c, NEW a \in Agents, Answered(c, a), next_account(c, a)
  PROVE  Handled
<1> DEFINE p == sreg.prio
           s == IF sreg.sprio = NoPrio THEN p ELSE sreg.sprio
           q == LoopEnd(c, p, s)
           R == IF q = s THEN {} ELSE register_curprio(c, q)
           c1 == ua_register(c, R)
<1>1. /\ TypeOK /\ PrioInUse /\ Allowed(c)
      /\ sreg \in [prio : 0 .. NoPrio, sprio : 0 .. NoPrio]
      /\ acc \in Accounts
      /\ NoPrio \in Nat
  BY SerRegAssumption DEF Answered, TypeOK
<1>2. s \in 0 .. NoPrio /\ (s # NoPrio => OfPrio(s) # {})
  BY <1>1 DEF PrioInUse
<1>3. CASE check_registrations(c, p)
  <2>1. /\ sreg' = [prio |-> IF R = {} THEN NoPrio ELSE q, sprio |-> s]
        /\ client' = ua_fallback(c1, {a})
    BY <1>3 DEF next_account
  <2> HIDE DEF s
  <2>2. R # {} => q \in 0 .. NoPrio - 1 /\ OfPrio(q) # {}
    BY <1>1, CurprioFacts
  <2> HIDE DEF q, R
  <2>3. Allowed(c1)
    BY <1>1, RegisterFacts
  <2> HIDE DEF c1
  <2>4. Allowed(client')
    BY <2>1, <2>3, FallbackFacts
  <2> QED
    BY <1>1, <1>2, <2>1, <2>2, <2>4 DEF Handled
<1>4. CASE ~check_registrations(c, p)
  <2>1. /\ sreg' = [sreg EXCEPT !.sprio = s]
        /\ client' = ua_fallback(c, {a})
    BY <1>4 DEF next_account
  <2> HIDE DEF s
  <2>2. Allowed(client')
    BY <1>1, <2>1, FallbackFacts
  <2> QED
    BY <1>1, <1>2, <2>1, <2>2 DEF Handled, PrioInUse
<1> QED
  BY <1>3, <1>4

(* The failover leaves nobody registering on the old priority.             *)
LEMMA NextAccountRegistering ==
  ASSUME NEW c, NEW a \in Agents, Answered(c, a), next_account(c, a),
         Polled, \A b \in Serial : Registering(b),
         client[a].mode = "register", acc[a].prio = sreg.prio,
         c[a].status = "failed"
  PROVE  HandledRegistering
<1> DEFINE p == sreg.prio
           s == IF sreg.sprio = NoPrio THEN p ELSE sreg.sprio
           q == LoopEnd(c, p, s)
           R == IF q = s THEN {} ELSE register_curprio(c, q)
           c1 == ua_register(c, R)
<1>1. Allowed(c) /\ acc \in Accounts /\ a \in Serial /\ Serial \subseteq Agents
  BY DEF Answered, TypeOK, Serial
<1>2. \A b \in Serial : acc[b].fbregint
  BY DEF Polled
<1>3. \A b \in Serial : b # a =>
        /\ c[b].mode \in {"register", "fallback"}
        /\ c[b].mode = "register" =>
             acc[b].prio = p /\ c[b].status # "failed"
  BY <1>1 DEF Answered, Registering
<1>4. CASE check_registrations(c, p)
  <2>1. /\ sreg'.prio = IF R = {} THEN NoPrio ELSE q
        /\ client' = ua_fallback(c1, {a})
    BY <1>4 DEF next_account
  <2> HIDE DEF s
  <2>2. /\ R \subseteq Serial
        /\ \A b \in R : acc[b].prio = q /\ c[b].status # "failed"
    BY <1>1, CurprioFacts
  <2>3. \A b \in Serial : b # a => c[b].mode = "fallback"
    BY <1>1, <1>3, <1>4 DEF check_registrations, OfPrio, ua_regfailed
  <2> HIDE DEF p, q, R
  <2>4. /\ Allowed(c1)
        /\ \A b \in R : c1[b].mode = "register" /\ c1[b].status # "failed"
        /\ \A b \in Serial : b \notin R => c1[b] = c[b]
    BY <1>1, <2>2, RegisterFacts
  <2> HIDE DEF c1
  <2>5. /\ client'[a].mode = "fallback"
        /\ \A b \in Serial : b # a => client'[b] = c1[b]
    BY <1>1, <1>2, <2>1, <2>4, FallbackFacts
  <2>6. ASSUME NEW b \in Serial, b # a
        PROVE  /\ client'[b].mode \in {"register", "fallback"}
               /\ client'[b].mode = "register" =>
                    acc[b].prio = sreg'.prio /\ client'[b].status # "failed"
    <3>1. CASE b \in R
      <4>1. sreg'.prio = q
        BY <3>1, <2>1
      <4> QED
        BY <4>1, <3>1, <2>2, <2>4, <2>5, <2>6
    <3>2. CASE b \notin R
      BY <3>2, <2>3, <2>4, <2>5, <2>6
    <3> QED
      BY <3>1, <3>2
  <2> QED
    BY <2>5, <2>6 DEF HandledRegistering
<1>5. CASE ~check_registrations(c, p)
  <2>1. /\ sreg'.prio = p
        /\ client' = ua_fallback(c, {a})
    <3> HIDE DEF s
    <3>1. sreg' = [sreg EXCEPT !.sprio = s] /\ client' = ua_fallback(c, {a})
      BY <1>5 DEF next_account, s
    <3> QED
      BY <3>1 DEF Answered, TypeOK
  <2>2. /\ client'[a].mode = "fallback"
        /\ \A b \in Serial : b # a => client'[b] = c[b]
    BY <1>1, <1>2, <2>1, FallbackFacts
  <2> QED
    BY <1>1, <1>3, <2>1, <2>2 DEF HandledRegistering
<1> QED
  BY <1>4, <1>5

(* A polled server is back: the types.                                     *)
LEMMA FallbackOkHandled ==
  ASSUME NEW c, NEW a \in Agents, Answered(c, a), fallback_ok(c, a),
         a \in Serial
  PROVE  Handled
<1> DEFINE p == acc[a].prio
           c1 == ua_register(c, register_curprio(c, p))
<1>1. /\ TypeOK /\ PrioInUse /\ Allowed(c)
      /\ sreg \in [prio : 0 .. NoPrio, sprio : 0 .. NoPrio]
      /\ acc \in Accounts
  BY DEF Answered, TypeOK
<1>2. p \in 0 .. NoPrio - 1 /\ OfPrio(p) # {} /\ NoPrio \in Nat
  BY <1>1, AccountFacts DEF OfPrio
<1>3. CASE p <= sreg.prio
  <2>1. /\ sreg' = [sreg EXCEPT !.prio = p]
        /\ client' = ua_fallback(c1, Serial \ OfPrio(p))
    BY <1>3 DEF fallback_ok
  <2> HIDE DEF p
  <2>2. Allowed(c1)
    BY <1>1, RegisterFacts
  <2> HIDE DEF c1
  <2>3. Allowed(client')
    BY <2>1, <2>2, FallbackFacts
  <2> QED
    BY <1>1, <1>2, <2>1, <2>3 DEF Handled, PrioInUse
<1>4. CASE ~(p <= sreg.prio)
  BY <1>1, <1>4 DEF fallback_ok, Handled, PrioInUse
<1> QED
  BY <1>3, <1>4

(* A polled server is back: all other priorities are polled.               *)
LEMMA FallbackOkRegistering ==
  ASSUME NEW c, NEW a \in Agents, Answered(c, a), fallback_ok(c, a),
         Polled, \A b \in Serial : Registering(b),
         client[a].mode = "fallback", a \in Serial
  PROVE  HandledRegistering
<1> DEFINE p == acc[a].prio
           R == register_curprio(c, p)
           c1 == ua_register(c, R)
<1>1. Allowed(c) /\ acc \in Accounts /\ Serial \subseteq Agents
  BY DEF Answered, TypeOK, Serial
<1>2. \A b \in Serial : acc[b].fbregint
  BY DEF Polled
<1>3. \A b \in Serial :
        /\ c[b].mode \in {"register", "fallback"}
        /\ c[b].mode = "register" =>
             acc[b].prio = sreg.prio /\ c[b].status # "failed"
  BY <1>1 DEF Answered, Registering
<1>4. CASE p <= sreg.prio
  <2>1. /\ sreg' = [sreg EXCEPT !.prio = p]
        /\ client' = ua_fallback(c1, Serial \ OfPrio(p))
    BY <1>4 DEF fallback_ok
  <2>2. sreg'.prio = p
    BY <2>1 DEF Answered, TypeOK
  <2>3. /\ R \subseteq Serial
        /\ \A b \in R : c[b].status # "failed"
        /\ \A b \in Serial : acc[b].prio = p /\ b \notin R =>
             c[b].status = "failed"
    BY <1>1, CurprioFacts DEF register_curprio, OfPrio, ua_regfailed
  <2> HIDE DEF p, R
  <2>4. /\ Allowed(c1)
        /\ \A b \in R : c1[b].mode = "register" /\ c1[b].status # "failed"
        /\ \A b \in Serial : b \notin R => c1[b] = c[b]
    BY <1>1, <2>3, RegisterFacts
  <2> HIDE DEF c1
  <2>5. ASSUME NEW b \in Serial
        PROVE  IF acc[b].prio = p THEN client'[b] = c1[b]
               ELSE client'[b].mode = "fallback"
    BY <1>1, <1>2, <2>1, <2>4, FallbackFacts DEF OfPrio
  <2> QED
    BY <1>3, <2>2, <2>3, <2>4, <2>5 DEF HandledRegistering
<1>5. CASE ~(p <= sreg.prio)
  BY <1>3, <1>5 DEF fallback_ok, HandledRegistering
<1> QED
  BY <1>4, <1>5

-----------------------------------------------------------------------------
(* The actions.                                                            *)

(* An answer: every case leaves the invariant.                             *)
LEMMA AnswerPreserves ==
  ASSUME IInv, NEW a \in Agents, register_handler(a)
  PROVE  IInv'
<1> DEFINE c == [client EXCEPT ![a].status = IF up[a] THEN "ok" ELSE "failed"]
<1>1. /\ TypeOK /\ PrioInUse
      /\ client \in [Agents -> Client]
      /\ sreg \in [prio : 0 .. NoPrio, sprio : 0 .. NoPrio]
      /\ acc \in Accounts
      /\ client[a].mode # "none"
      /\ acc' = acc /\ up' = up /\ resets' = resets
  BY DEF IInv, TypeOK, register_handler
<1>2. /\ \A b \in Agents : b # a => c[b] = client[b]
      /\ c[a].mode = client[a].mode
      /\ c[a].status = IF up[a] THEN "ok" ELSE "failed"
  BY <1>1 DEF Client
<1>3. Allowed(c)
  BY <1>1 DEF Allowed, TypeOK, Client
<1>4. CASE client[a].mode = "register" /\ up[a]
  <2>1. /\ sreg' = [prio |-> acc[a].prio, sprio |-> acc[a].prio]
        /\ client' = c
    BY <1>4 DEF register_handler
  <2> HIDE DEF c
  <2>2. a \in OfPrio(acc[a].prio) /\ acc[a].prio \in 0 .. NoPrio
    BY <1>1, <1>4, AccountFacts, SerRegAssumption DEF TypeOK, OfPrio
  <2>3. Handled
    BY <1>3, <2>1, <2>2 DEF Handled
  <2>4. ASSUME resets = 0, Polled
        PROVE  HandledRegistering
    <3>1. a \in Serial /\ Serial \subseteq Agents
          /\ \A b \in Serial : Registering(b)
      BY <1>1, <1>4, <2>4 DEF IInv, TypeOK, Serial
    <3>2. sreg'.prio = acc[a].prio /\ sreg.prio = acc[a].prio
      BY <3>1, <1>4, <2>1 DEF Registering
    <3>3. ASSUME NEW b \in Serial
          PROVE  /\ c[b].mode \in {"register", "fallback"}
                 /\ c[b].mode = "register" =>
                      acc[b].prio = sreg.prio /\ c[b].status # "failed"
      BY <3>1, <1>2, <1>4 DEF Registering
    <3> QED
      BY <3>2, <3>3, <2>1 DEF HandledRegistering
  <2> QED
    BY <2>3, <2>4, <1>1, HandledInvariant
<1>5. CASE /\ client[a].mode = "register" /\ ~up[a]
           /\ acc[a].prio = sreg.prio
  <2>1. next_account(c, a)
    BY <1>5 DEF register_handler
  <2> HIDE DEF c
  <2>2. Answered(c, a) /\ c[a].status = "failed"
    BY <1>1, <1>2, <1>3, <1>5 DEF Answered
  <2>3. Handled
    BY <2>1, <2>2, NextAccountHandled
  <2>4. ASSUME resets = 0, Polled
        PROVE  HandledRegistering
    BY <1>5, <2>1, <2>2, <2>4, NextAccountRegistering DEF IInv
  <2> QED
    BY <2>3, <2>4, <1>1, HandledInvariant
<1>6. CASE client[a].mode = "fallback" /\ up[a]
  <2>1. fallback_ok(c, a)
    BY <1>6 DEF register_handler
  <2> HIDE DEF c
  <2>2. Answered(c, a) /\ a \in Serial
    BY <1>1, <1>2, <1>3, <1>6 DEF Answered, TypeOK
  <2>3. Handled
    BY <2>1, <2>2, FallbackOkHandled
  <2>4. ASSUME resets = 0, Polled
        PROVE  HandledRegistering
    BY <1>6, <2>1, <2>2, <2>4, FallbackOkRegistering DEF IInv
  <2> QED
    BY <2>3, <2>4, <1>1, HandledInvariant
<1>7. CASE /\ ~up[a]
           /\ ~(client[a].mode = "register" /\ acc[a].prio = sreg.prio)
  <2>1. client' = c /\ sreg' = sreg
    BY <1>7 DEF register_handler
  <2> HIDE DEF c
  <2>2. Handled
    BY <1>1, <1>3, <2>1 DEF Handled, PrioInUse
  <2>3. ASSUME resets = 0, Polled
        PROVE  HandledRegistering
    <3>1. \A b \in Serial : Registering(b)
      BY <2>3 DEF IInv
    <3>2. ASSUME NEW b \in Serial
          PROVE  /\ c[b].mode \in {"register", "fallback"}
                 /\ c[b].mode = "register" =>
                      acc[b].prio = sreg.prio /\ c[b].status # "failed"
      BY <3>1, <1>2, <1>7 DEF Registering, Serial
    <3> QED
      BY <3>2, <2>1 DEF HandledRegistering
  <2> QED
    BY <2>2, <2>3, <1>1, HandledInvariant
<1>8. \/ client[a].mode = "register" /\ up[a]
      \/ client[a].mode = "fallback" /\ up[a]
      \/ ~up[a]
  BY <1>1 DEF Client
<1> QED
  BY <1>4, <1>5, <1>6, <1>7, <1>8

(* A change of the network registers the first choice again; what it does  *)
(* to OnePriority is why that speaks of the time before.                   *)
LEMMA ResetPreserves ==
  ASSUME IInv, uag_reset_transp
  PROVE  IInv'
<1> DEFINE c1 == ua_register(client, OfPrio(0))
<1>1. /\ TypeOK /\ PrioInUse /\ Allowed(client)
      /\ resets \in Nat /\ resets' = resets + 1 /\ resets' \in 0 .. MaxResets
      /\ client' = ua_fallback(c1, Serial \ OfPrio(0))
      /\ acc' = acc /\ sreg' = sreg /\ up' = up
  BY SerRegAssumption DEF IInv, TypeOK, Allowed, uag_reset_transp, RegisterAll
<1>2. Allowed(c1)
  BY <1>1, RegisterFacts
<1> HIDE DEF c1
<1>3. Allowed(client')
  BY <1>1, <1>2, FallbackFacts
<1>4. Serial' = Serial /\ \A p : OfPrio(p)' = OfPrio(p)
  BY <1>1 DEF Serial, OfPrio
<1>5. TypeOK'
  BY <1>1, <1>3, <1>4 DEF TypeOK, Allowed
<1>6. PrioInUse'
  BY <1>1 DEF PrioInUse, OfPrio, Serial
<1>7. resets' # 0
  BY <1>1
<1> QED
  BY <1>5, <1>6, <1>7 DEF IInv

(* A server that goes down or comes back changes nothing here.             *)
LEMMA ServerPreserves ==
  ASSUME IInv, NEW a \in Agents, Server(a)
  PROVE  IInv'
<1>1. /\ acc' = acc /\ client' = client /\ sreg' = sreg /\ resets' = resets
      /\ up' \in [Agents -> BOOLEAN]
  BY DEF IInv, TypeOK, Server
<1> QED
  BY <1>1 DEF IInv, TypeOK, PrioInUse, Polled, Registering, Serial, OfPrio

LEMMA NextInvariant == IInv /\ [Next]_vars => IInv'
<1> SUFFICES ASSUME IInv, [Next]_vars
             PROVE  IInv'
  OBVIOUS
<1>1. ASSUME NEW a \in Agents, register_handler(a)
      PROVE  IInv'
  BY <1>1, AnswerPreserves
<1>2. ASSUME NEW a \in Agents, Server(a)
      PROVE  IInv'
  BY <1>2, ServerPreserves
<1>3. CASE uag_reset_transp
  BY <1>3, ResetPreserves
<1>4. CASE UNCHANGED vars
  BY <1>4 DEF vars, IInv, TypeOK, PrioInUse, Polled, Registering, Serial, OfPrio
<1> QED
  BY <1>1, <1>2, <1>3, <1>4 DEF Next

-----------------------------------------------------------------------------
(* Theorems.                                                               *)

THEOREM Invariant == Spec => []IInv
BY InitInvariant, NextInvariant, PTL DEF Spec

(* Every variable always has its type, and an agent has only the client    *)
(* that its account allows.                                                *)
THEOREM TypeCorrect == Spec => []TypeOK
<1>1. IInv => TypeOK
  BY DEF IInv
<1> QED
  BY <1>1, Invariant, PTL

(* serreg.c never stops its search at a priority nobody registers with.    *)
THEOREM PriorityInUse == Spec => []PrioInUse
<1>1. IInv => PrioInUse
  BY DEF IInv
<1> QED
  BY <1>1, Invariant, PTL

(* Failover and return to a better priority leave nobody registering on    *)
(* another priority, whatever order the answers come in.                   *)
THEOREM RegisteredOnOnePriority == Spec => []OnePriority
<1>1. IInv => OnePriority
  BY DEF IInv, OnePriority, Registering
<1> QED
  BY <1>1, Invariant, PTL
=============================================================================

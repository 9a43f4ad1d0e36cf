------------------------------ MODULE AgentProofs ------------------------------
(***************************************************************************)
(* Proofs about what the application does with its agents: the menu        *)
(* (Menu.tla) and the publisher of their presence (Publisher.tla), for any *)
(* number of agents, calls, redials and tags.                              *)
(***************************************************************************)
EXTENDS Menu, Publisher, SequenceTheorems, TLAPS

(***************************************************************************)
(* Menu.                                                                   *)
(***************************************************************************)

CallType ==
  [st : {"free", "outgoing", "incoming", "ringing", "early", "established"},
   ua : Agents \cup {NoAgent}, out : BOOLEAN]

Tones == {"none", "ring", "waiting", "ringback", "error"}
Unanswered == {"outgoing", "ringing", "early"}

(* The list of agents names each once.                                     *)
Listed ==
  /\ ual \in Seq(Agents) /\ IsInjective(ual)
  /\ {cur, le_cur} \subseteq Agents \cup {NoAgent}

(* A call is listed with one of the agents there are, and the calls of an  *)
(* agent are in some order.                                                *)
CallsListed ==
  /\ mcall \in [MenuCalls -> CallType]
  /\ order \subseteq MenuCalls \X MenuCalls
  /\ \A c \in MenuCalls : /\ Agented(c) => Usable(mcall[c].ua)
                          /\ ~Agented(c) => mcall[c].ua = NoAgent
  /\ \A c, d \in MenuCalls :
       <<c, d>> \in order \/ <<d, c>> \in order
         <=> Agented(c) /\ mcall[c].ua = mcall[d].ua /\ c # d

(* Every redial is one of the attempts, and so is the one that the timer   *)
(* is set for.                                                             *)
RedialsCounted ==
  /\ redial \in [tmr : BOOLEAN, attempts : Nat, dials : Nat,
                 aor : Agents \cup {NoAgent}]
  /\ redial.dials <= redial.attempts
  /\ redial.tmr => redial.dials < redial.attempts
  /\ redial.dials <= RedialAttempts

MnInv ==
  Listed /\ CallsListed /\ RedialsCounted /\ tone \in Tones /\ EndlessToneHasCall

LEMMA MnInvImplies == MnInv => MnTypeOK /\ RedialLimit
<1> SUFFICES ASSUME MnInv PROVE MnTypeOK /\ RedialLimit
  OBVIOUS
<1>1. ToSet(ual) \subseteq Agents
  BY DEF MnInv, Listed, ToSet
<1> QED
  BY <1>1 DEF MnInv, Listed, CallsListed, RedialsCounted, MnTypeOK, RedialLimit, Tones

LEMMA MnInitInvariant == MnInit => MnInv
<1> SUFFICES ASSUME MnInit PROVE MnInv
  OBVIOUS
<1> USE MenuAssumption DEF MnInit
<1>1. Listed
  BY DEF Listed, IsInjective
<1>2. CallsListed
  BY DEF CallsListed, CallType, NoCall, Agented
<1>3. RedialsCounted
  BY DEF RedialsCounted, NoRedial
<1> QED
  BY <1>1, <1>2, <1>3 DEF MnInv, EndlessToneHasCall, Tones

(* Deleting an agent from the list takes it away and nothing else.         *)
LEMMA UnlistedKeeps ==
  ASSUME ual \in Seq(Agents), IsInjective(ual), NEW a \in ToSet(ual)
  PROVE  /\ Unlisted(a) \in Seq(Agents) /\ IsInjective(Unlisted(a))
         /\ ToSet(ual) \ {a} \subseteq ToSet(Unlisted(a))
<1> DEFINE n == Len(ual)
           p == Position(a)
           at(i) == IF i < p THEN i ELSE i + 1
<1>1. n \in Nat /\ DOMAIN ual = 1..n /\ \A i \in 1..n : ual[i] \in Agents
  BY LenProperties, ElementOfSeq
<1>2. \E i \in DOMAIN ual : ual[i] = a
  BY DEF ToSet
<1>3. p \in 1..n /\ ual[p] = a
  BY <1>1, <1>2 DEF Position
<1>4. Unlisted(a) = [i \in 1..n-1 |-> ual[at(i)]]
  BY DEF Unlisted
<1> HIDE DEF n, p
<1>5. \A i \in 1..n-1 : at(i) \in 1..n
  BY <1>1, <1>3
<1>6. \A i, j \in 1..n-1 : at(i) = at(j) => i = j
  BY <1>1, <1>3
<1>7. \A k \in 1..n : k # p => \E i \in 1..n-1 : at(i) = k
  <2> SUFFICES ASSUME NEW k \in 1..n, k # p PROVE \E i \in 1..n-1 : at(i) = k
    OBVIOUS
  <2>1. CASE k < p
    <3>1. k \in 1..n-1 /\ at(k) = k
      BY <1>1, <1>3, <2>1
    <3> QED
      BY <3>1
  <2>2. CASE k > p
    <3>1. k - 1 \in 1..n-1 /\ at(k - 1) = k
      BY <1>1, <1>3, <2>2
    <3> QED
      BY <3>1
  <2> QED
    BY <1>1, <1>3, <2>1, <2>2
<1>8. n - 1 \in Nat /\ DOMAIN Unlisted(a) = 1..n-1
      /\ \A i \in 1..n-1 : Unlisted(a)[i] = ual[at(i)]
  BY <1>1, <1>3, <1>4
<1> HIDE DEF at
<1>9. Unlisted(a) \in Seq(Agents)
  <2>1. Unlisted(a) \in [1..n-1 -> Agents]
    BY <1>1, <1>4, <1>5
  <2> QED
    BY <1>8, <2>1, SeqDef
<1>10. IsInjective(Unlisted(a))
  BY <1>1, <1>5, <1>6, <1>8 DEF IsInjective
<1>11. ToSet(ual) \ {a} \subseteq ToSet(Unlisted(a))
  BY <1>1, <1>3, <1>7, <1>8 DEF ToSet
<1> QED
  BY <1>9, <1>10, <1>11

LEMMA AppendKeeps ==
  ASSUME ual \in Seq(Agents), IsInjective(ual), NEW a \in Agents, a \notin ToSet(ual)
  PROVE  /\ Append(ual, a) \in Seq(Agents) /\ IsInjective(Append(ual, a))
         /\ ToSet(ual) \subseteq ToSet(Append(ual, a))
<1> DEFINE t == Append(ual, a)
           n == Len(ual)
<1>1. /\ n \in Nat /\ DOMAIN ual = 1..n
      /\ t \in Seq(Agents) /\ DOMAIN t = 1..n+1
      /\ \A i \in 1..n : t[i] = ual[i]
      /\ t[n + 1] = a
  BY AppendProperties, LenProperties
<1>2. \A i \in 1..n : ual[i] # a
  BY <1>1 DEF ToSet
<1> HIDE DEF t, n
<1>3. \A i \in 1..n+1 : i \in 1..n \/ i = n + 1
  BY <1>1
<1>4. IsInjective(t) /\ ToSet(ual) \subseteq ToSet(t)
  BY <1>1, <1>2, <1>3 DEF IsInjective, ToSet
<1> QED
  BY <1>1, <1>4 DEF t

(* A call that is there, with the state of another one as it was.          *)
LEMMA NewKeeps ==
  ASSUME CallsListed, UNCHANGED ual, NEW c \in MenuCalls, NEW a \in Agents,
         NEW out \in BOOLEAN, Usable(a), New(c, a, out)
  PROVE  /\ CallsListed'
         /\ \A d \in MenuCalls : Agented(d) => mcall'[d] = mcall[d]
<1> DEFINE new == [st |-> IF out THEN "outgoing" ELSE "incoming", ua |-> a, out |-> out]
<1>1. new \in CallType /\ new.st # "free" /\ new.ua = a
  BY DEF CallType
<1>2. ~Agented(c) /\ mcall' = [mcall EXCEPT ![c] = new] /\ order' = order \cup AfterAll(c, a)
  BY DEF New
<1> HIDE DEF new
<1>3. /\ mcall' \in [MenuCalls -> CallType]
      /\ mcall'[c] = new /\ \A d \in MenuCalls \ {c} : mcall'[d] = mcall[d]
  BY <1>1, <1>2 DEF CallsListed
<1>4. a # NoAgent
  BY MenuAssumption
<1>5. order' \subseteq MenuCalls \X MenuCalls
  BY <1>2 DEF CallsListed, AfterAll, CallsOf
<1>6. \A d \in MenuCalls : /\ Agented(d)' => Usable(mcall[d].ua)'
                           /\ ~Agented(d)' => mcall'[d].ua = NoAgent
  BY <1>1, <1>3 DEF CallsListed, Agented, Usable
<1>7. \A d, e \in MenuCalls :
        <<d, e>> \in order' <=> <<d, e>> \in order \/ (e = c /\ d # c /\ mcall[d].ua = a)
  BY <1>2 DEF AfterAll, CallsOf
<1>8. \A d, e \in MenuCalls :
        <<d, e>> \in order' \/ <<e, d>> \in order'
          <=> Agented(d)' /\ mcall'[d].ua = mcall'[e].ua /\ d # e
  <2> SUFFICES ASSUME NEW d \in MenuCalls, NEW e \in MenuCalls
               PROVE  <<d, e>> \in order' \/ <<e, d>> \in order'
                        <=> Agented(d)' /\ mcall'[d].ua = mcall'[e].ua /\ d # e
    OBVIOUS
  <2>1. CASE d # c /\ e # c
    BY <1>3, <1>7, <2>1 DEF CallsListed, Agented
  <2>2. CASE d = c /\ e # c
    BY <1>1, <1>2, <1>3, <1>4, <1>7, <2>2 DEF CallsListed, Agented
  <2>3. CASE d # c /\ e = c
    BY <1>1, <1>2, <1>3, <1>4, <1>7, <2>3 DEF CallsListed, Agented
  <2>4. CASE d = c /\ e = c
    BY <1>2, <1>7, <2>4 DEF CallsListed
  <2> QED
    BY <2>1, <2>2, <2>3, <2>4
<1> QED
  BY <1>2, <1>3, <1>5, <1>6, <1>8 DEF CallsListed, Agented

(* A call whose state changes stays where it is.                           *)
LEMMA StateKeeps ==
  ASSUME CallsListed, ual' = ual, order' = order, NEW c \in MenuCalls, Agented(c),
         \E st \in {"outgoing", "incoming", "ringing", "early", "established"} :
           mcall' = [mcall EXCEPT ![c].st = st]
  PROVE  /\ CallsListed' /\ \A d \in MenuCalls \ {c} : mcall'[d] = mcall[d]
<1>1. PICK st \in {"outgoing", "incoming", "ringing", "early", "established"} :
        mcall' = [mcall EXCEPT ![c].st = st]
  OBVIOUS
<1>2. /\ mcall' \in [MenuCalls -> CallType]
      /\ mcall'[c].st = st /\ mcall'[c].ua = mcall[c].ua
      /\ \A d \in MenuCalls \ {c} : mcall'[d] = mcall[d]
  BY <1>1 DEF CallsListed, CallType
<1>3. \A d \in MenuCalls : mcall'[d].ua = mcall[d].ua /\ (Agented(d)' <=> Agented(d))
  BY <1>2 DEF Agented
<1> QED
  BY <1>2, <1>3 DEF CallsListed, Usable

(* The calls of gone, all of which go, are freed.                          *)
LEMMA FreeKeeps ==
  ASSUME Listed, CallsListed, NEW gones \in SUBSET MenuCalls,
         mcall' = [c \in MenuCalls |-> IF c \in gones THEN NoCall ELSE mcall[c]],
         order' = Among(MenuCalls \ gones),
         \A c \in MenuCalls \ gones : Agented(c) => Usable(mcall[c].ua)'
  PROVE  CallsListed'
<1>1. NoCall \in CallType /\ NoCall.st = "free" /\ NoCall.ua = NoAgent
  BY DEF NoCall, CallType
<1>2. /\ mcall' \in [MenuCalls -> CallType]
      /\ \A c \in MenuCalls : mcall'[c] = IF c \in gones THEN NoCall ELSE mcall[c]
  BY <1>1 DEF CallsListed
<1>3. order' \subseteq MenuCalls \X MenuCalls
  BY DEF CallsListed, Among
<1>4. \A d, e \in MenuCalls :
        <<d, e>> \in order' <=> <<d, e>> \in order /\ d \notin gones /\ e \notin gones
  BY DEF Among
<1>5. \A c \in MenuCalls : /\ Agented(c)' => Usable(mcall[c].ua)'
                           /\ ~Agented(c)' => mcall'[c].ua = NoAgent
  BY <1>1, <1>2 DEF CallsListed, Agented, Usable
<1>6. \A c \in MenuCalls : Agented(c) => mcall[c].ua # NoAgent
  <2>1. ToSet(ual) \subseteq Agents
    BY DEF Listed, ToSet
  <2> QED
    BY <2>1, MenuAssumption DEF CallsListed, Usable
<1>7. \A d, e \in MenuCalls :
        <<d, e>> \in order' \/ <<e, d>> \in order'
          <=> Agented(d)' /\ mcall'[d].ua = mcall'[e].ua /\ d # e
  BY <1>1, <1>2, <1>4, <1>6 DEF CallsListed, Agented
<1> QED
  BY <1>2, <1>3, <1>5, <1>7 DEF CallsListed, Agented

(* The tone after a call has closed belongs to one of the others.          *)
LEMMA ResumeTone ==
  ASSUME NEW c \in MenuCalls, NEW t \in {"none", "error"}
  PROVE  LET new == play_resume(c, t) IN
         /\ new \in Tones
         /\ new = "ring" => \E d \in MenuCalls \ {c} : Calling(d, {"incoming"})
         /\ new = "ringback" => \E d \in MenuCalls \ {c} : Calling(d, {"ringing"})
<1>1. \A a, w : play_incoming(a, w) \in {"none", "waiting", "ring"}
  BY DEF play_incoming
<1> HIDE DEF play_incoming
<1>2. \A S \in SUBSET MenuCalls : \A a :
        (\E d \in S \cap CallsOf(a) : Calling(d, {"incoming"}))
          => \E d \in S : Calling(d, {"incoming"})
  OBVIOUS
<1>3. {i \in DOMAIN ual : \E d \in (MenuCalls \ {c}) \cap CallsOf(ual[i]) :
                            Calling(d, {"incoming"})} # {}
        => \E d \in MenuCalls \ {c} : Calling(d, {"incoming"})
  BY <1>2
<1> QED
  BY <1>1, <1>3 DEF play_resume, Tones

(* Every action of the menu keeps the invariant.                           *)
LEMMA MnNextInvariant ==
  ASSUME MnInv, [MnNext]_mnVars
  PROVE  MnInv'
<1> USE MenuAssumption
<1>1. /\ Listed /\ CallsListed /\ RedialsCounted /\ tone \in Tones
      /\ EndlessToneHasCall /\ ToSet(ual) \subseteq Agents
      /\ \A a : Usable(a) => a \in Agents
  BY DEF MnInv, Listed, ToSet, Usable
(* Calls that only come, or that only change within their states, keep the *)
(* tone.                                                                   *)
<1>2. ASSUME tone' = tone, gone' = gone,
             \A d \in MenuCalls : Calling(d, {"incoming"}) => Calling(d, {"incoming"})',
             \A d \in MenuCalls : Calling(d, Unanswered) => Calling(d, Unanswered)'
      PROVE  EndlessToneHasCall' /\ tone' \in Tones
  BY <1>1, <1>2 DEF EndlessToneHasCall, Unanswered
<1>3. ASSUME tone' \in {"none", "waiting", "error"}
      PROVE  EndlessToneHasCall' /\ tone' \in Tones
  BY <1>3 DEF EndlessToneHasCall, Tones
<1>4. ASSUME UNCHANGED <<mcall, order, ual>> PROVE CallsListed'
  BY <1>1, <1>4 DEF CallsListed, Agented, Usable
<1>5. ASSUME UNCHANGED <<ual, cur, le_cur>> PROVE Listed'
  BY <1>1, <1>5 DEF Listed
<1>6. ASSUME UNCHANGED redial PROVE RedialsCounted'
  BY <1>1, <1>6 DEF RedialsCounted
<1>7. ASSUME NEW c \in MenuCalls, NEW a \in Agents, Usable(a), NEW out \in BOOLEAN,
             New(c, a, out), UNCHANGED <<ual, gone>>
      PROVE  /\ CallsListed' /\ mcall'[c].st = (IF out THEN "outgoing" ELSE "incoming")
             /\ tone' = tone => EndlessToneHasCall' /\ tone' \in Tones
  <2>1. CallsListed' /\ \A d \in MenuCalls : Agented(d) => mcall'[d] = mcall[d]
    BY <1>1, <1>7, NewKeeps
  <2>2. mcall'[c].st = (IF out THEN "outgoing" ELSE "incoming")
    BY <1>1, <1>7 DEF New, CallsListed
  <2>3. \A d \in MenuCalls :
          /\ Calling(d, {"incoming"}) => Calling(d, {"incoming"})'
          /\ Calling(d, Unanswered) => Calling(d, Unanswered)'
    BY <2>1 DEF Calling, Agented, Unanswered
  <2> QED
    BY <1>2, <1>7, <2>1, <2>2, <2>3
<1>8. ASSUME NEW c \in MenuCalls, dial_handler(c)
      PROVE  MnInv'
  BY <1>1, <1>5, <1>6, <1>7, <1>8 DEF dial_handler, MnInv
<1>9. ASSUME NEW c \in MenuCalls, NEW a \in Agents, Incoming(c, a)
      PROVE  MnInv'
  <2>1. Usable(a) /\ New(c, a, FALSE) /\ UNCHANGED <<ual, le_cur, redial, gone>>
    BY <1>9 DEF Incoming
  <2>2. CallsListed' /\ mcall'[c].st = "incoming"
        /\ (tone' = tone => EndlessToneHasCall' /\ tone' \in Tones)
    BY <1>7, <2>1
  <2>3. cur' \in {cur, a} /\ (tone' = tone \/ tone' \in {"none", "waiting", "ring"})
    BY <1>9 DEF Incoming, play_incoming
  <2>4. Listed'
    BY <1>1, <2>1, <2>3 DEF Listed
  <2>5. tone' = "ring" => EndlessToneHasCall' /\ tone' \in Tones
    BY <2>2 DEF EndlessToneHasCall, Calling, Tones
  <2> QED
    BY <1>3, <1>6, <2>1, <2>2, <2>3, <2>4, <2>5 DEF MnInv
<1>10. ASSUME NEW c \in MenuCalls, NEW scode \in {180, 181, 183}, NEW media \in BOOLEAN,
              Provisional(c, scode, media)
       PROVE  MnInv'
  <2>1. /\ mcall[c].st \in Unanswered
        /\ UNCHANGED <<ual, cur, le_cur, order, redial, gone>>
        /\ tone' \in {tone, "none", "ringback"}
    BY <1>10 DEF Provisional, Calling, Unanswered
  <2>2. PICK st \in Unanswered : mcall' = [mcall EXCEPT ![c].st = st]
    <3> DEFINE k == CASE scode = 180 -> "ringing" [] scode = 183 -> "early"
                      [] OTHER -> mcall[c].st
    <3>1. mcall' = [mcall EXCEPT ![c].st = k]
      BY <1>10 DEF Provisional
    <3>2. k \in Unanswered
      BY <2>1 DEF Unanswered
    <3> HIDE DEF k
    <3> QED
      BY <3>1, <3>2
  <2>3. /\ CallsListed' /\ mcall'[c].st = st
        /\ \A d \in MenuCalls \ {c} : mcall'[d] = mcall[d]
    <3>1. Agented(c) /\ ual' = ual /\ order' = order
      BY <2>1 DEF Unanswered, Agented
    <3>2. \E k \in {"outgoing", "incoming", "ringing", "early", "established"} :
            mcall' = [mcall EXCEPT ![c].st = k]
      BY <2>2 DEF Unanswered
    <3>3. mcall'[c].st = st
      BY <1>1, <2>2 DEF CallsListed, CallType
    <3> QED
      BY <1>1, <3>1, <3>2, <3>3, StateKeeps
  <2>4. \A d \in MenuCalls :
          /\ Calling(d, {"incoming"}) => Calling(d, {"incoming"})'
          /\ Calling(d, Unanswered) => Calling(d, Unanswered)'
    BY <2>1, <2>3 DEF Calling, Unanswered
  <2>5. tone' = "ringback" => EndlessToneHasCall' /\ tone' \in Tones
    BY <2>3 DEF EndlessToneHasCall, Calling, Tones, Unanswered
  <2> QED
    BY <1>2, <1>3, <1>5, <1>6, <2>1, <2>3, <2>4, <2>5 DEF MnInv
<1>11. ASSUME NEW c \in MenuCalls, Established(c)
       PROVE  MnInv'
  <2>1. /\ Agented(c) /\ mcall' = [mcall EXCEPT ![c].st = "established"] /\ tone' = "none"
        /\ redial' = NoRedial /\ UNCHANGED <<ual, cur, le_cur, order>>
    BY <1>11 DEF Established, Becomes, Calling, Agented
  <2>2. CallsListed'
    <3>1. \E st \in {"outgoing", "incoming", "ringing", "early", "established"} :
            mcall' = [mcall EXCEPT ![c].st = st]
      BY <2>1
    <3> QED
      BY <1>1, <2>1, <3>1, StateKeeps
  <2>3. RedialsCounted'
    BY <2>1 DEF RedialsCounted, NoRedial
  <2> QED
    BY <1>3, <1>5, <2>1, <2>2, <2>3 DEF MnInv
<1>12. ASSUME NEW c \in MenuCalls, NEW code \in {"none", "error", "701"}, Closed(c, code)
       PROVE  MnInv'
  <2>1. /\ Agented(c) /\ tone' = play_resume(c, menu_play_closed(code))
        /\ redial' = StartRedial(c, code) /\ mcall' = [mcall EXCEPT ![c] = NoCall]
        /\ order' = Among(MenuCalls \ {c}) /\ UNCHANGED <<ual, cur, le_cur, gone>>
    BY <1>12 DEF Closed
  <2>2. menu_play_closed(code) \in {"none", "error"}
    BY DEF menu_play_closed
  <2>3. /\ tone' \in Tones
        /\ tone' = "ring" => \E d \in MenuCalls \ {c} : Calling(d, {"incoming"})
        /\ tone' = "ringback" => \E d \in MenuCalls \ {c} : Calling(d, {"ringing"})
    BY <2>1, <2>2, ResumeTone
  <2>4. /\ mcall' = [d \in MenuCalls |-> IF d \in {c} THEN NoCall ELSE mcall[d]]
        /\ \A d \in MenuCalls \ {c} : mcall'[d] = mcall[d]
    BY <1>1, <2>1 DEF CallsListed
  <2>5. CallsListed'
    <3>1. \A d \in MenuCalls \ {c} : Agented(d) => Usable(mcall[d].ua)'
      BY <1>1, <2>1, <2>4 DEF CallsListed, Usable
    <3> QED
      BY <1>1, <2>1, <2>4, <3>1, FreeKeeps
  <2>6. EndlessToneHasCall'
    BY <2>3, <2>4 DEF EndlessToneHasCall, Calling
  <2>7. RedialsCounted'
    <3>1. CASE redial' = redial
      BY <1>6, <3>1
    <3>2. CASE redial' = [redial EXCEPT !.tmr = TRUE, !.attempts = @ + 1, !.aor = mcall[c].ua]
      <4>1. mcall[c].ua \in Agents \cup {NoAgent}
        BY <1>1 DEF CallsListed, CallType
      <4>2. /\ redial.dials \in Nat /\ redial.attempts + 1 \in Nat
            /\ redial.dials < redial.attempts + 1 /\ redial.dials <= RedialAttempts
        BY <1>1 DEF RedialsCounted
      <4>3. redial' \in [tmr : {TRUE}, attempts : {redial.attempts + 1},
                         dials : {redial.dials}, aor : Agents \cup {NoAgent}]
        BY <1>1, <3>2, <4>1 DEF RedialsCounted
      <4>4. /\ redial' \in [tmr : BOOLEAN, attempts : Nat, dials : Nat,
                            aor : Agents \cup {NoAgent}]
            /\ redial'.attempts = redial.attempts + 1 /\ redial'.dials = redial.dials
        BY <4>2, <4>3
      <4> QED
        BY <4>2, <4>4 DEF RedialsCounted
    <3> QED
      BY <2>1, <3>1, <3>2 DEF StartRedial
  <2> QED
    BY <1>5, <2>1, <2>3, <2>5, <2>6, <2>7 DEF MnInv
<1>13. ASSUME NEW c \in MenuCalls, redial_handler(c)
       PROVE  MnInv'
  <2>1. redial.tmr /\ UNCHANGED <<ual, cur, le_cur, tone, gone>>
    BY <1>13 DEF redial_handler
  <2>2. /\ RedialDone \in [tmr : {FALSE}, attempts : {redial.attempts},
                          dials : {redial.dials}, aor : {NoAgent}]
    BY DEF RedialDone, NoRedial
  <2>3. CASE redial' = RedialDone /\ UNCHANGED <<mcall, order>>
    <3>1. RedialsCounted'
      BY <1>1, <2>2, <2>3 DEF RedialsCounted
    <3>2. EndlessToneHasCall' /\ tone' \in Tones
      BY <1>2, <2>1, <2>3 DEF Calling
    <3> QED
      BY <1>4, <1>5, <2>1, <2>3, <3>1, <3>2 DEF MnInv
  <2>4. CASE /\ redial.attempts <= RedialAttempts /\ Usable(redial.aor)
             /\ New(c, redial.aor, TRUE) /\ redial' = [RedialDone EXCEPT !.dials = @ + 1]
    <3>1. RedialsCounted'
      <4>1. redial' \in [tmr : {FALSE}, attempts : {redial.attempts},
                         dials : {redial.dials + 1}, aor : {NoAgent}]
        BY <2>2, <2>4
      <4>2. /\ redial.dials + 1 \in Nat /\ redial.attempts \in Nat
            /\ redial.dials + 1 <= redial.attempts /\ redial.dials + 1 <= RedialAttempts
        BY <1>1, <2>1, <2>4 DEF RedialsCounted
      <4> QED
        BY <4>1, <4>2 DEF RedialsCounted
    <3>2. CallsListed' /\ EndlessToneHasCall' /\ tone' \in Tones
      BY <1>1, <1>7, <2>1, <2>4
    <3> QED
      BY <1>5, <2>1, <3>1, <3>2 DEF MnInv
  <2>5. redial.attempts > RedialAttempts \/ redial.attempts <= RedialAttempts
    BY <1>1 DEF RedialsCounted
  <2>6. CASE redial.attempts > RedialAttempts \/ ~Usable(redial.aor)
    BY <1>13, <2>3, <2>6 DEF redial_handler
  <2>7. CASE ~(redial.attempts > RedialAttempts \/ ~Usable(redial.aor))
    BY <1>13, <2>4, <2>5, <2>7 DEF redial_handler
  <2> QED
    BY <2>6, <2>7
<1>14. ASSUME UNCHANGED <<ual, mcall, order, redial, gone>>, {cur', le_cur'} \subseteq Agents \cup {NoAgent},
              tone' \in {tone, "none"}
       PROVE  MnInv'
  <2>1. Listed'
    BY <1>1, <1>14 DEF Listed
  <2>2. EndlessToneHasCall' /\ tone' \in Tones
    BY <1>2, <1>3, <1>14 DEF Calling
  <2> QED
    BY <1>4, <1>6, <1>14, <2>1, <2>2 DEF MnInv
<1>15. CASE cmd_answer \/ ToneEnds
  BY <1>1, <1>14, <1>15 DEF cmd_answer, ToneEnds, Listed
<1>16. ASSUME NEW c \in MenuCalls, set_current_call(c)
       PROVE  MnInv'
  <2>1. /\ Agented(c) /\ mcall[c].ua = uag_current
        /\ order' = Among(MenuCalls \ {c}) \cup AfterAll(c, uag_current)
        /\ UNCHANGED <<ual, cur, le_cur, mcall, tone, redial, gone>>
    BY <1>16 DEF set_current_call
  <2>2. order' \subseteq MenuCalls \X MenuCalls
    BY <1>1, <2>1 DEF CallsListed, Among, AfterAll, CallsOf
  <2>3. \A d, e \in MenuCalls :
          <<d, e>> \in order'
            <=> \/ <<d, e>> \in order /\ d # c /\ e # c
                \/ e = c /\ d # c /\ mcall[d].ua = mcall[c].ua
    <3>1. \A d, e \in MenuCalls :
            <<d, e>> \in Among(MenuCalls \ {c}) <=> <<d, e>> \in order /\ d # c /\ e # c
      BY DEF Among
    <3>2. \A d, e \in MenuCalls :
            <<d, e>> \in AfterAll(c, mcall[c].ua)
              <=> e = c /\ d # c /\ mcall[d].ua = mcall[c].ua
      BY DEF AfterAll, CallsOf
    <3> QED
      BY <2>1, <3>1, <3>2
  <2>4. \A d, e \in MenuCalls :
          <<d, e>> \in order' \/ <<e, d>> \in order'
            <=> Agented(d)' /\ mcall'[d].ua = mcall'[e].ua /\ d # e
    <3> SUFFICES ASSUME NEW d \in MenuCalls, NEW e \in MenuCalls
                 PROVE  <<d, e>> \in order' \/ <<e, d>> \in order'
                          <=> Agented(d) /\ mcall[d].ua = mcall[e].ua /\ d # e
      BY <2>1 DEF Agented
    <3>1. mcall[c].ua # NoAgent
      BY <1>1, <2>1 DEF CallsListed
    <3>2. \A f \in MenuCalls : mcall[f].ua # NoAgent => Agented(f)
      BY <1>1 DEF CallsListed
    <3>3. CASE d # c /\ e # c
      <4>1. <<d, e>> \in order \/ <<e, d>> \in order
              <=> Agented(d) /\ mcall[d].ua = mcall[e].ua /\ d # e
        BY <1>1 DEF CallsListed
      <4> QED
        BY <2>3, <3>3, <4>1
    <3>4. CASE d = c /\ e # c
      BY <2>1, <2>3, <3>4
    <3>5. CASE d # c /\ e = c
      BY <2>3, <3>1, <3>2, <3>5
    <3>6. CASE d = c /\ e = c
      BY <2>3, <3>6
    <3> QED
      BY <3>3, <3>4, <3>5, <3>6
  <2>5. CallsListed'
    BY <1>1, <2>1, <2>2, <2>4 DEF CallsListed, Agented, Usable
  <2>6. EndlessToneHasCall' /\ tone' \in Tones
    BY <1>2, <2>1 DEF Calling
  <2> QED
    BY <1>5, <1>6, <2>1, <2>5, <2>6 DEF MnInv
(* The next agent of the list.                                             *)
<1>17. ASSUME ual # <<>>, le_cur = NoAgent \/ Usable(le_cur)
       PROVE  ua_next \in Agents
  <2>1. Len(ual) \in Nat \ {0} /\ DOMAIN ual = 1..Len(ual) /\ \A i \in 1..Len(ual) : ual[i] \in Agents
    BY <1>1, <1>17, EmptySeq, LenProperties, ElementOfSeq DEF Listed
  <2>2. \A a \in ToSet(ual) : Position(a) \in 1..Len(ual)
    BY <2>1 DEF ToSet, Position
  <2>3. ual[1] \in ToSet(ual)
    BY <2>1 DEF ToSet
  <2>4. (IF le_cur = NoAgent THEN ual[1] ELSE le_cur) \in ToSet(ual)
    BY <1>17, <2>3 DEF Usable
  <2>5. \A a \in ToSet(ual) : Next_(a) \in Agents
    BY <2>1, <2>2 DEF Next_
  <2> QED
    BY <2>4, <2>5 DEF ua_next
<1>18. CASE cmd_ua_next
  <2>1. cur' = ua_next /\ le_cur' = ua_next /\ ua_next \in Agents
    BY <1>17, <1>18 DEF cmd_ua_next
  <2> QED
    BY <1>14, <1>18, <2>1 DEF cmd_ua_next
<1>19. ASSUME NEW a \in Agents, cmd_ua_find(a)
       PROVE  MnInv'
  BY <1>1, <1>14, <1>19 DEF cmd_ua_find, Listed
<1>20. ASSUME NEW a \in Agents, cmd_ua_delete(a)
       PROVE  MnInv'
  <2>1. /\ a \in ToSet(ual) /\ ual' = Unlisted(a) /\ UNCHANGED <<tone, redial>>
        /\ mcall' = [c \in MenuCalls |-> IF mcall[c].ua = a THEN NoCall ELSE mcall[c]]
        /\ order' = Among(MenuCalls \ CallsOf(a))
        /\ gone'.calls = (gone.calls \/ CallsOf(a) # {})
    BY <1>20 DEF cmd_ua_delete, Usable
  <2>2. /\ ual' \in Seq(Agents) /\ IsInjective(ual')
        /\ ToSet(ual) \ {a} \subseteq ToSet(ual')
    BY <1>1, <2>1, UnlistedKeeps DEF Listed
  <2>3. {cur', le_cur'} \subseteq Agents \cup {NoAgent}
    <3>1. ual # <<>>
      BY <2>1 DEF ToSet
    <3> QED
      BY <1>1, <1>17, <1>20, <3>1 DEF cmd_ua_delete, Listed
  <2>4. CallsListed'
    <3>1. mcall' = [c \in MenuCalls |-> IF c \in CallsOf(a) THEN NoCall ELSE mcall[c]]
      BY <2>1 DEF CallsOf
    <3>2. CallsOf(a) \in SUBSET MenuCalls
      BY DEF CallsOf
    <3>3. \A c \in MenuCalls \ CallsOf(a) : Agented(c) => Usable(mcall[c].ua)'
      <4> SUFFICES ASSUME NEW c \in MenuCalls \ CallsOf(a), Agented(c)
                   PROVE  Usable(mcall[c].ua)'
        OBVIOUS
      <4>1. mcall'[c] = mcall[c] /\ mcall[c].ua # a
        BY <3>1 DEF CallsOf
      <4>2. mcall[c].ua \in ToSet(ual)
        BY <1>1 DEF CallsListed, Usable
      <4> QED
        BY <2>2, <4>1, <4>2 DEF Usable
    <3> QED
      BY <1>1, <2>1, <3>1, <3>2, <3>3, FreeKeeps
  <2>5. EndlessToneHasCall'
    <3>1. CASE CallsOf(a) = {}
      <4>1. \A c \in MenuCalls : mcall'[c] = mcall[c]
        BY <2>1, <3>1 DEF CallsOf
      <4> QED
        BY <1>1, <2>1, <4>1 DEF EndlessToneHasCall, Calling
    <3> QED
      BY <2>1, <3>1 DEF EndlessToneHasCall
  <2> QED
    BY <1>1, <1>6, <2>1, <2>2, <2>3, <2>4, <2>5 DEF MnInv, Listed
<1>21. ASSUME NEW a \in Agents, create_ua(a)
       PROVE  MnInv'
  <2>1. /\ a \notin ToSet(ual) /\ ual' = Append(ual, a) /\ cur' \in {cur, a}
        /\ UNCHANGED <<le_cur, mcall, order, tone, redial, gone>>
    BY <1>21 DEF create_ua, Usable
  <2>2. /\ ual' \in Seq(Agents) /\ IsInjective(ual')
        /\ ToSet(ual) \subseteq ToSet(ual')
    BY <1>1, <2>1, AppendKeeps DEF Listed
  <2>3. Listed'
    BY <1>1, <2>1, <2>2 DEF Listed
  <2>4. CallsListed'
    BY <1>1, <2>1, <2>2 DEF CallsListed, Agented, Usable
  <2>5. EndlessToneHasCall' /\ tone' \in Tones
    BY <1>2, <2>1 DEF Calling
  <2> QED
    BY <1>6, <2>1, <2>3, <2>4, <2>5 DEF MnInv
<1>22. CASE UNCHANGED mnVars
  BY <1>1, <1>14, <1>22 DEF mnVars, Listed
<1> QED
  BY <1>8, <1>9, <1>10, <1>11, <1>12, <1>13, <1>15, <1>16, <1>18, <1>19, <1>20, <1>21, <1>22
     DEF MnNext, CallEvents, UserCommands

(* The types of the menu: agents are listed once, calls with their agent,  *)
(* in an order.                                                            *)
THEOREM MenuTypes == MnSpec => []MnTypeOK
<1> QED
  BY MnInvImplies, MnInitInvariant, MnNextInvariant, PTL DEF MnSpec

(* A tone that does not end by itself has a call it is for.                *)
THEOREM ToneHasCall == MnSpec => []EndlessToneHasCall
<1>1. MnInv => EndlessToneHasCall
  BY DEF MnInv
<1> QED
  BY <1>1, MnInitInvariant, MnNextInvariant, PTL DEF MnSpec

(* No more calls are redialled than configured.                            *)
THEOREM RedialsLimited == MnSpec => []RedialLimit
<1> QED
  BY MnInvImplies, MnInitInvariant, MnNextInvariant, PTL DEF MnSpec

(***************************************************************************)
(* Publisher.                                                              *)
(***************************************************************************)

Request == [tag : 0..MaxTag, body : Statuses \cup {Empty, Removal}]
Response == [code : {200, 400, 412, 500}, tag : 0..MaxTag]

(* The server gives out tags in order, and everybody names only those.     *)
PbTypes ==
  /\ user \in Statuses
  /\ pubr \in [etag : 0..MaxTag, refresh : BOOLEAN, tmr : BOOLEAN, expires : BOOLEAN,
               sent : Nat]
  /\ toServer \in Seq(Request) /\ toAgent \in Seq(Response)
  /\ server = [used |-> server.used, pubs |-> server.pubs]
  /\ server.used \in 0..MaxTag /\ DOMAIN server.pubs \subseteq 1..server.used
  /\ pubr.etag <= server.used
  /\ \A i \in 1..Len(toServer) : toServer[i].tag <= server.used
  /\ \A i \in 1..Len(toAgent) :
       /\ toAgent[i].tag <= server.used
       /\ toAgent[i].code = 200 => toAgent[i].tag # NoTag
  /\ failed \in BOOLEAN

(* As long as the agent publishes: a refresh names a tag, so that nothing  *)
(* it sends is refused as bad, and a status that has changed is followed by*)
(* the one of now.                                                         *)
Publishing ==
  pubr.expires =>
    /\ pubr.refresh => pubr.etag # NoTag
    /\ \A i \in 1..Len(toServer) :
         /\ toServer[i].body # Removal
         /\ toServer[i].body = Empty => toServer[i].tag # NoTag
         /\ toServer[i].body \in Statuses =>
              \E j \in i..Len(toServer) : toServer[j].body = user
    /\ \A i \in 1..Len(toAgent) : toAgent[i].code # 400
    /\ pubr.sent = 0 =>
         pubr.tmr /\ ~pubr.refresh /\ toServer = <<>> /\ toAgent = <<>>

(* Somebody knows the status: a request that carries it, an answer or a    *)
(* request that makes the agent send it again, a publication; or the server*)
(* has no publication at all.                                              *)
StatusSent == \E i \in 1..Len(toServer) : toServer[i].body = user
ToSendAgain ==
  \/ \E i \in 1..Len(toAgent) : toAgent[i].code = 412
  \/ \E i \in 1..Len(toServer) : toServer[i].tag # NoTag /\ ~Known(toServer[i].tag)
StatusKept ==
  DOMAIN server.pubs = {} \/ \E t \in DOMAIN server.pubs : server.pubs[t] = user

NoError == ~failed /\ \A i \in 1..Len(toAgent) : toAgent[i].code # 500

(* Without an error the status is on its way or kept, and what is sent last*)
(* is followed by a refresh that names a tag.                              *)
Kept ==
  pubr.expires /\ pubr.sent > 0 /\ NoError =>
    /\ toServer = <<>> /\ toAgent = <<>> => pubr.tmr /\ pubr.etag # NoTag
    /\ StatusSent \/ ToSendAgain \/ StatusKept

PbInv == PbTypes /\ Publishing /\ Kept

LEMMA PbInvImplies == PbInv => PbTypeOK /\ ServerKnows
<1> SUFFICES ASSUME PbInv PROVE PbTypeOK /\ ServerKnows
  OBVIOUS
<1> USE PublisherAssumption
<1>1. PbTypeOK
  <2>1. \A i \in DOMAIN toServer : toServer[i] \in Request
    BY ElementOfSeq, LenProperties DEF PbInv, PbTypes
  <2> QED
    BY <2>1 DEF PbInv, PbTypes, PbTypeOK, Request
<1>2. ServerKnows
  <2> SUFFICES ASSUME pubr.expires, toServer = <<>>, toAgent = <<>>, ~failed
               PROVE  /\ pubr.tmr
                      /\ pubr.sent > 0 =>
                           \/ \E t \in DOMAIN server.pubs : server.pubs[t] = user
                           \/ pubr.etag # NoTag /\ ~Known(pubr.etag)
    BY DEF ServerKnows
  <2>1. NoError /\ ~StatusSent /\ ~ToSendAgain
    BY DEF NoError, StatusSent, ToSendAgain
  <2>2. CASE pubr.sent = 0
    BY <2>2 DEF PbInv, Publishing
  <2>3. CASE pubr.sent > 0
    <3>1. pubr.tmr /\ pubr.etag # NoTag /\ StatusKept
      BY <2>1, <2>3 DEF PbInv, Kept
    <3> QED
      BY <3>1 DEF StatusKept, Known
  <2> QED
    BY <2>2, <2>3 DEF PbInv, PbTypes
<1> QED
  BY <1>1, <1>2

LEMMA PbInitInvariant == PbInit => PbInv
<1> SUFFICES ASSUME PbInit PROVE PbInv
  OBVIOUS
<1> USE PublisherAssumption DEF PbInit, NoTag
<1>1. PbTypes
  <2>1. server.used = 0 /\ DOMAIN server.pubs = {}
    OBVIOUS
  <2>2. server = [used |-> server.used, pubs |-> server.pubs]
    BY Zenon
  <2>3. toServer \in Seq(Request) /\ toAgent \in Seq(Response)
        /\ Len(toServer) = 0 /\ Len(toAgent) = 0
    BY EmptySeq
  <2>4. pubr \in [etag : 0..MaxTag, refresh : BOOLEAN, tmr : BOOLEAN, expires : BOOLEAN,
                  sent : Nat] /\ pubr.etag = 0
    OBVIOUS
  <2>5. user \in Statuses /\ failed \in BOOLEAN
    OBVIOUS
  <2>6. 1..0 = {}
    OBVIOUS
  <2> HIDE DEF PbInit
  <2> QED
    BY <2>1, <2>2, <2>3, <2>4, <2>5, <2>6 DEF PbTypes
<1>2. Publishing
  BY DEF Publishing
<1>3. Kept
  BY DEF Kept
<1> QED
  BY <1>1, <1>2, <1>3 DEF PbInv

(* A request that is added, which carries the status of now or, when the   *)
(* status has not changed, is a refresh.                                   *)
LEMMA SendKeeps ==
  ASSUME PbInv, NEW q \in Request, toServer' = Append(toServer, q),
         toAgent' = toAgent \/ (toAgent # <<>> /\ toAgent' = Tail(toAgent)),
         UNCHANGED <<server, failed>>, user' \in Statuses,
         pubr' \in [etag : 0..MaxTag, refresh : BOOLEAN, tmr : BOOLEAN,
                    expires : BOOLEAN, sent : Nat],
         q.tag <= server.used, pubr'.etag \in {pubr.etag, NoTag},
         pubr'.expires => /\ pubr.expires /\ pubr'.sent > 0
                          /\ pubr'.refresh => pubr'.etag # NoTag
                          /\ \/ q.body = user'
                             \/ /\ q.body = Empty /\ q.tag # NoTag /\ user' = user
                                /\ pubr.sent > 0 /\ toAgent' = toAgent
  PROVE  PbInv'
<1> USE PublisherAssumption
<1>1. PbTypes /\ Publishing /\ Kept
  BY DEF PbInv
<1> DEFINE n == Len(toServer)
<1>2. /\ n \in Nat /\ toServer' \in Seq(Request) /\ Len(toServer') = n + 1
      /\ \A i \in 1..n : toServer'[i] = toServer[i]
      /\ toServer'[n+1] = q /\ toServer' # <<>>
  BY <1>1, AppendProperties, LenProperties DEF PbTypes
<1>3. /\ toAgent' \in Seq(Response) /\ Len(toAgent') \in Nat
      /\ \A i \in 1..Len(toAgent') : \E j \in 1..Len(toAgent) : toAgent'[i] = toAgent[j]
  <2>1. CASE toAgent' = toAgent
    BY <1>1, <2>1, LenProperties DEF PbTypes
  <2>2. CASE toAgent # <<>> /\ toAgent' = Tail(toAgent)
    <3>1. /\ toAgent' \in Seq(Response) /\ Len(toAgent') = Len(toAgent) - 1
          /\ \A i \in 1..Len(toAgent') : toAgent'[i] = toAgent[i+1]
      BY <1>1, <2>2, HeadTailProperties DEF PbTypes
    <3>2. Len(toAgent) \in Nat /\ Len(toAgent') \in Nat
      BY <1>1, <3>1, LenProperties DEF PbTypes
    <3>3. \A i \in 1..Len(toAgent') : i + 1 \in 1..Len(toAgent)
      BY <3>1, <3>2
    <3> QED
      BY <3>1, <3>2, <3>3
  <2> QED
    BY <2>1, <2>2
<1> HIDE DEF n
<1>4. \A i \in 1..n+1 : i \in 1..n \/ i = n + 1
  BY <1>2
<1>5. PbTypes'
  <2>1. \A i \in 1..n+1 : toServer'[i].tag <= server.used
    BY <1>1, <1>2, <1>4 DEF PbTypes, n
  <2>2. \A i \in 1..Len(toAgent') :
          /\ toAgent'[i].tag <= server.used
          /\ toAgent'[i].code = 200 => toAgent'[i].tag # NoTag
    <3>1. \A i \in 1..Len(toAgent) :
            /\ toAgent[i].tag <= server.used
            /\ toAgent[i].code = 200 => toAgent[i].tag # NoTag
      BY <1>1 DEF PbTypes
    <3> QED
      BY <1>3, <3>1
  <2>3. pubr'.etag <= server.used
    BY <1>1 DEF PbTypes, NoTag
  <2> QED
    BY <1>1, <1>2, <1>3, <2>1, <2>2, <2>3 DEF PbTypes
<1>6. Publishing'
  <2> SUFFICES ASSUME pubr'.expires PROVE Publishing'
    BY DEF Publishing
  <2>1. \A i \in 1..n+1 :
          /\ toServer'[i].body # Removal
          /\ toServer'[i].body = Empty => toServer'[i].tag # NoTag
          /\ toServer'[i].body \in Statuses =>
              \E j \in i..n+1 : toServer'[j].body = user'
    <3> SUFFICES ASSUME NEW i \in 1..n+1
                 PROVE  /\ toServer'[i].body # Removal
                        /\ toServer'[i].body = Empty => toServer'[i].tag # NoTag
                        /\ toServer'[i].body \in Statuses =>
                             \E j \in i..n+1 : toServer'[j].body = user'
      OBVIOUS
    <3>1. i <= n + 1 /\ n + 1 \in i..n+1
      BY <1>2
    <3>2. CASE i = n + 1
      BY <1>2, <3>1, <3>2 DEF Empty, Removal
    <3>3. CASE i \in 1..n
      <4>1. /\ toServer'[i] = toServer[i] /\ toServer[i].body # Removal
            /\ toServer[i].body = Empty => toServer[i].tag # NoTag
            /\ toServer[i].body \in Statuses =>
                 \E j \in i..n : toServer[j].body = user
        BY <1>1, <1>2, <3>3 DEF Publishing, n
      <4>2. CASE q.body = user'
        BY <1>2, <3>1, <4>1, <4>2
      <4>3. CASE user' = user
        <5>1. \A j \in i..n : j \in i..n+1 /\ j \in 1..n
          BY <1>2, <3>3
        <5> QED
          BY <1>2, <4>1, <4>3, <5>1
      <4> QED
        BY <4>1, <4>2, <4>3
    <3> QED
      BY <1>4, <3>2, <3>3
  <2>2. \A i \in 1..Len(toAgent') : toAgent'[i].code # 400
    BY <1>1, <1>3 DEF Publishing
  <2> QED
    BY <1>2, <2>1, <2>2 DEF Publishing
<1>7. Kept'
  <2> SUFFICES ASSUME pubr'.expires, NoError' PROVE StatusSent' \/ ToSendAgain' \/ StatusKept'
    BY <1>2 DEF Kept
  <2>1. CASE q.body = user'
    <3>1. n + 1 \in 1..n+1
      BY <1>2
    <3> QED
      BY <1>2, <2>1, <3>1 DEF StatusSent
  <2>2. CASE /\ user' = user /\ pubr.sent > 0 /\ toAgent' = toAgent
    <3>1. NoError
      BY <2>2 DEF NoError
    <3>2. StatusSent \/ ToSendAgain \/ StatusKept
      BY <1>1, <2>2, <3>1 DEF Kept
    <3>3. \A i \in 1..n : i \in 1..n+1
      BY <1>2
    <3>4. StatusSent => StatusSent'
      BY <1>2, <2>2, <3>3 DEF StatusSent, n
    <3>5. ToSendAgain => ToSendAgain'
      BY <1>2, <2>2, <3>3 DEF ToSendAgain, Known, n
    <3>6. StatusKept => StatusKept'
      BY <2>2 DEF StatusKept
    <3> QED
      BY <3>2, <3>4, <3>5, <3>6
  <2> QED
    BY <2>1, <2>2
<1> QED
  BY <1>5, <1>6, <1>7 DEF PbInv

(* An answer that the server adds when it has taken a request.             *)
LEMMA ServeSequences ==
  ASSUME PbTypes, NEW r \in Response, toServer # <<>>, toServer' = Tail(toServer),
         toAgent' \in {toAgent, Append(toAgent, r)}
  PROVE  /\ toServer' \in Seq(Request) /\ Len(toServer') = Len(toServer) - 1
         /\ \A i \in 1..Len(toServer') : i + 1 \in 1..Len(toServer) /\ toServer'[i] = toServer[i+1]
         /\ \A i \in 1..Len(toServer) : i = 1 \/ (i - 1 \in 1..Len(toServer') /\ toServer'[i-1] = toServer[i])
         /\ Head(toServer) = toServer[1] /\ Len(toServer) \in Nat \ {0}
         /\ Head(toServer) \in Request
         /\ toAgent' \in Seq(Response) /\ Len(toAgent') \in Nat
         /\ \A i \in 1..Len(toAgent) : i \in 1..Len(toAgent') /\ toAgent'[i] = toAgent[i]
         /\ \A i \in 1..Len(toAgent') : i \in 1..Len(toAgent) \/ toAgent'[i] = r
         /\ toAgent' # toAgent => \E i \in 1..Len(toAgent') : toAgent'[i] = r
<1>1. /\ toServer' \in Seq(Request) /\ Len(toServer') = Len(toServer) - 1
      /\ \A i \in 1..Len(toServer') : toServer'[i] = toServer[i+1]
      /\ Len(toServer) \in Nat \ {0} /\ Head(toServer) \in Request
  BY HeadTailProperties, EmptySeq DEF PbTypes
<1>2. /\ \A i \in 1..Len(toServer') : i + 1 \in 1..Len(toServer)
      /\ \A i \in 1..Len(toServer) :
           i = 1 \/ (i - 1 \in 1..Len(toServer') /\ toServer'[i-1] = toServer[i])
  BY <1>1
<1>3. Head(toServer) = toServer[1]
  BY DEF PbTypes
<1>4. Len(toAgent) \in Nat
  BY LenProperties DEF PbTypes
<1>5. /\ toAgent' \in Seq(Response) /\ Len(toAgent') \in Nat
      /\ \A i \in 1..Len(toAgent) : i \in 1..Len(toAgent') /\ toAgent'[i] = toAgent[i]
      /\ \A i \in 1..Len(toAgent') : i \in 1..Len(toAgent) \/ toAgent'[i] = r
      /\ toAgent' # toAgent => \E i \in 1..Len(toAgent') : toAgent'[i] = r
  <2>1. CASE toAgent' = toAgent
    BY <1>4, <2>1 DEF PbTypes
  <2>2. CASE toAgent' = Append(toAgent, r)
    <3>1. /\ toAgent' \in Seq(Response) /\ Len(toAgent') = Len(toAgent) + 1
          /\ \A i \in 1..Len(toAgent) : toAgent'[i] = toAgent[i]
          /\ toAgent'[Len(toAgent) + 1] = r
      BY <2>2, AppendProperties DEF PbTypes
    <3>2. /\ \A i \in 1..Len(toAgent) : i \in 1..Len(toAgent')
          /\ \A i \in 1..Len(toAgent') : i \in 1..Len(toAgent) \/ i = Len(toAgent) + 1
          /\ Len(toAgent) + 1 \in 1..Len(toAgent')
      BY <1>4, <3>1
    <3> QED
      BY <1>4, <3>1, <3>2
  <2> QED
    BY <2>1, <2>2
<1> QED
  BY <1>1, <1>2, <1>3, <1>5

(* A request leaves the queue and is answered: what has to hold for the    *)
(* status to be kept is that one of the ways is open afterwards.           *)
LEMMA ServeKeeps ==
  ASSUME PbInv, NEW r \in Response, toServer # <<>>, toServer' = Tail(toServer),
         toAgent' \in {toAgent, Append(toAgent, r)}, UNCHANGED <<user, pubr, failed>>,
         server' = [used |-> server'.used, pubs |-> server'.pubs],
         server'.used \in server.used..MaxTag,
         (DOMAIN server.pubs)' \subseteq 1..server'.used,
         r.tag <= server'.used, r.code = 200 => r.tag # NoTag,
         pubr.expires => toAgent' # toAgent /\ r.code # 400,
         \A t \in 1..server.used : ~Known(t) => ~Known(t)',
         pubr.expires /\ NoError' /\ r.code \notin {412, 500} =>
           \/ StatusKept'
           \/ StatusSent /\ toServer[1].body # user
           \/ StatusSent' \/ ToSendAgain'
  PROVE  PbInv'
<1> USE PublisherAssumption
<1>1. PbTypes /\ Publishing /\ Kept
  BY DEF PbInv
<1>2. /\ toServer' \in Seq(Request) /\ Len(toServer') = Len(toServer) - 1
      /\ \A i \in 1..Len(toServer') : i + 1 \in 1..Len(toServer) /\ toServer'[i] = toServer[i+1]
      /\ \A i \in 1..Len(toServer) : i = 1 \/ (i - 1 \in 1..Len(toServer') /\ toServer'[i-1] = toServer[i])
      /\ Len(toServer) \in Nat \ {0}
      /\ toAgent' \in Seq(Response) /\ Len(toAgent') \in Nat
      /\ \A i \in 1..Len(toAgent) : i \in 1..Len(toAgent') /\ toAgent'[i] = toAgent[i]
      /\ \A i \in 1..Len(toAgent') : i \in 1..Len(toAgent) \/ toAgent'[i] = r
      /\ toAgent' # toAgent => \E i \in 1..Len(toAgent') : toAgent'[i] = r
  BY <1>1, ServeSequences
<1>3. server.used \in Nat /\ server'.used \in Nat /\ server.used <= server'.used
      /\ server'.used \in 0..MaxTag
  BY <1>1 DEF PbTypes
<1>4. PbTypes'
  <2>1. \A i \in 1..Len(toServer') : toServer'[i].tag <= server'.used
    <3>1. \A i \in 1..Len(toServer) : toServer[i] \in Request /\ toServer[i].tag <= server.used
      BY <1>1, ElementOfSeq DEF PbTypes
    <3>2. \A n \in 0..MaxTag : n <= server.used => n <= server'.used
      BY <1>3
    <3> QED
      BY <1>2, <3>1, <3>2 DEF Request
  <2>2. \A i \in 1..Len(toAgent') :
          /\ toAgent'[i].tag <= server'.used
          /\ toAgent'[i].code = 200 => toAgent'[i].tag # NoTag
    <3>1. \A i \in 1..Len(toAgent) : /\ toAgent[i] \in Response /\ toAgent[i].tag <= server.used
                                     /\ toAgent[i].code = 200 => toAgent[i].tag # NoTag
      BY <1>1, ElementOfSeq DEF PbTypes
    <3>2. \A n \in 0..MaxTag : n <= server.used => n <= server'.used
      BY <1>3
    <3>3. \A i \in 1..Len(toAgent) : /\ toAgent[i].tag <= server'.used
                                     /\ toAgent[i].code = 200 => toAgent[i].tag # NoTag
      BY <3>1, <3>2 DEF Response
    <3> QED
      BY <1>2, <3>3
  <2>3. pubr.etag <= server'.used
    BY <1>1, <1>3 DEF PbTypes
  <2> QED
    BY <1>1, <1>2, <1>3, <2>1, <2>2, <2>3 DEF PbTypes
<1>5. Publishing'
  <2> SUFFICES ASSUME pubr.expires PROVE Publishing'
    BY DEF Publishing
  <2>1. \A i \in 1..Len(toServer') :
          /\ toServer'[i].body # Removal
          /\ toServer'[i].body = Empty => toServer'[i].tag # NoTag
          /\ toServer'[i].body \in Statuses =>
              \E j \in i..Len(toServer') : toServer'[j].body = user
    <3> SUFFICES ASSUME NEW i \in 1..Len(toServer')
                 PROVE  /\ toServer'[i].body # Removal
                        /\ toServer'[i].body = Empty => toServer'[i].tag # NoTag
                        /\ toServer'[i].body \in Statuses =>
                            \E j \in i..Len(toServer') : toServer'[j].body = user
      OBVIOUS
    <3>1. /\ i + 1 \in 1..Len(toServer) /\ toServer'[i] = toServer[i+1]
          /\ toServer[i+1].body # Removal
          /\ toServer[i+1].body = Empty => toServer[i+1].tag # NoTag
          /\ toServer[i+1].body \in Statuses =>
               \E j \in i+1..Len(toServer) : toServer[j].body = user
      BY <1>1, <1>2 DEF Publishing
    <3>2. \A j \in i+1..Len(toServer) : /\ j - 1 \in i..Len(toServer')
                                        /\ toServer'[j-1] = toServer[j]
      <4>1. \A j \in i+1..Len(toServer) : j \in 1..Len(toServer) /\ j # 1 /\ j - 1 >= i
        BY <1>2
      <4> QED
        BY <1>2, <4>1
    <3> QED
      BY <3>1, <3>2
  <2>2. \A i \in 1..Len(toAgent') : toAgent'[i].code # 400
    BY <1>1, <1>2 DEF Publishing
  <2>3. pubr.sent # 0
    BY <1>1 DEF Publishing
  <2> QED
    BY <1>1, <2>1, <2>2, <2>3 DEF Publishing
<1>6. Kept'
  <2> SUFFICES ASSUME pubr.expires, NoError'
               PROVE  toAgent' # <<>> /\ (StatusSent' \/ ToSendAgain' \/ StatusKept')
    BY DEF Kept
  <2>1. PICK k \in 1..Len(toAgent') : toAgent'[k] = r
    BY <1>2
  <2>2. toAgent' # <<>>
    BY <1>2, <2>1
  <2>3. r.code # 500
    BY <2>1 DEF NoError
  <2>4. CASE r.code = 412
    BY <2>1, <2>2, <2>4 DEF ToSendAgain
  <2>5. CASE StatusSent /\ toServer[1].body # user
    <3>1. PICK i \in 1..Len(toServer) : toServer[i].body = user
      BY <2>5 DEF StatusSent
    <3>2. i - 1 \in 1..Len(toServer') /\ toServer'[i-1].body = user
      BY <1>2, <2>5, <3>1
    <3> QED
      BY <2>2, <3>2 DEF StatusSent
  <2> QED
    BY <2>2, <2>3, <2>4, <2>5
<1> QED
  BY <1>4, <1>5, <1>6 DEF PbInv

(* Every step of the agent and of the server keeps the invariant.          *)
LEMMA PbNextInvariant ==
  ASSUME PbInv, [PbNext]_pbVars
  PROVE  PbInv'
<1> USE PublisherAssumption
<1>1. PbTypes /\ Publishing /\ Kept
  BY DEF PbInv
<1>2. /\ pubr \in [etag : 0..MaxTag, refresh : BOOLEAN, tmr : BOOLEAN, expires : BOOLEAN,
                   sent : Nat]
      /\ user \in Statuses /\ pubr.etag <= server.used /\ 0 <= server.used
  BY <1>1 DEF PbTypes
(* A request that is sent with the parameters p.                           *)
<1>3. ASSUME NEW p \in [etag : 0..MaxTag, refresh : BOOLEAN, tmr : BOOLEAN,
                       expires : BOOLEAN, sent : {pubr.sent}],
             p.etag \in {pubr.etag, NoTag}, Send(p), user' \in Statuses,
             UNCHANGED <<server, failed>>,
             toAgent' = toAgent \/ (toAgent # <<>> /\ toAgent' = Tail(toAgent)),
             p.expires => pubr.expires,
             p.expires /\ p.refresh => /\ p.etag = pubr.etag /\ pubr.refresh
                                      /\ user' = user /\ toAgent' = toAgent
      PROVE  PbInv'
  <2> DEFINE q == [tag |-> p.etag, body |-> IF ~p.expires THEN Removal
                                            ELSE IF p.refresh THEN Empty ELSE user']
  <2>1. /\ q \in Request /\ q.tag = p.etag /\ q.tag <= server.used
        /\ p.expires /\ p.refresh => q.body = Empty
        /\ p.expires /\ ~p.refresh => q.body = user'
    BY <1>2, <1>3 DEF Request, NoTag
  <2>2. toServer' = Append(toServer, q) /\ pubr' = [p EXCEPT !.sent = @ + 1]
    BY <1>3 DEF Send, publish
  <2> HIDE DEF q
  <2>3. pubr.sent \in Nat /\ pubr.sent + 1 \in Nat /\ pubr.sent + 1 > 0
    BY <1>2
  <2>4. /\ pubr' \in [etag : 0..MaxTag, refresh : BOOLEAN, tmr : BOOLEAN, expires : BOOLEAN,
                      sent : Nat]
        /\ pubr'.etag = p.etag /\ pubr'.sent = pubr.sent + 1 /\ pubr'.expires = p.expires
        /\ pubr'.refresh = p.refresh
    BY <1>3, <2>2, <2>3
  <2>5. p.expires /\ p.refresh => pubr.etag # NoTag /\ pubr.sent > 0
    BY <1>1, <1>2, <1>3 DEF Publishing
  <2>6. p.expires =>
          /\ pubr.expires /\ pubr'.sent > 0
          /\ pubr'.refresh => pubr'.etag # NoTag
          /\ \/ q.body = user'
             \/ /\ q.body = Empty /\ q.tag # NoTag /\ user' = user
                /\ pubr.sent > 0 /\ toAgent' = toAgent
    BY <1>3, <2>1, <2>3, <2>4, <2>5
  <2> QED
    BY <1>3, <2>1, <2>2, <2>4, <2>6, SendKeeps
<1>4. CASE tmr_handler
  <2> DEFINE p == [pubr EXCEPT !.tmr = FALSE]
  <2>1. Send(p) /\ UNCHANGED <<user, toAgent, server, failed>>
    BY <1>4 DEF tmr_handler
  <2>2. /\ p \in [etag : 0..MaxTag, refresh : BOOLEAN, tmr : BOOLEAN,
                  expires : BOOLEAN, sent : {pubr.sent}]
        /\ p.etag = pubr.etag /\ p.expires = pubr.expires /\ p.refresh = pubr.refresh
    BY <1>2
  <2> HIDE DEF p
  <2> QED
    BY <1>2, <1>3, <2>1, <2>2
<1>5. ASSUME NEW s \in Statuses, publisher_update_status(s)
      PROVE  PbInv'
  <2> DEFINE p == [pubr EXCEPT !.refresh = FALSE]
  <2>1. Send(p) /\ UNCHANGED <<toAgent, server, failed>> /\ user' = s
    BY <1>5 DEF publisher_update_status
  <2>2. /\ p \in [etag : 0..MaxTag, refresh : BOOLEAN, tmr : BOOLEAN,
                  expires : BOOLEAN, sent : {pubr.sent}]
        /\ p.etag = pubr.etag /\ p.expires = pubr.expires /\ p.refresh = FALSE
    BY <1>2
  <2> HIDE DEF p
  <2> QED
    BY <1>3, <2>1, <2>2
<1>6. CASE publisher_close
  <2> DEFINE p == [pubr EXCEPT !.expires = FALSE, !.tmr = FALSE]
  <2>1. Send(p) /\ UNCHANGED <<toAgent, server, failed>> /\ user' \in Statuses
    BY <1>6 DEF publisher_close
  <2>2. /\ p \in [etag : 0..MaxTag, refresh : BOOLEAN, tmr : BOOLEAN,
                  expires : {FALSE}, sent : {pubr.sent}]
        /\ p.etag = pubr.etag
    BY <1>2
  <2>3. /\ p \in [etag : 0..MaxTag, refresh : BOOLEAN, tmr : BOOLEAN,
                  expires : BOOLEAN, sent : {pubr.sent}]
        /\ p.expires = FALSE
    BY <2>2
  <2> HIDE DEF p
  <2> QED
    BY <1>3, <2>1, <2>2, <2>3
<1>7. CASE Answer
  <2> DEFINE r == Head(toAgent)
  <2>1. /\ pubr.expires /\ toAgent # <<>> /\ toAgent' = Tail(toAgent)
        /\ UNCHANGED <<user, server>> /\ response_handler(r)
    BY <1>7 DEF Answer, response_handler
  <2>2. /\ r \in Response /\ r = toAgent[1] /\ toAgent' \in Seq(Response)
        /\ Len(toAgent') = Len(toAgent) - 1 /\ Len(toAgent) \in Nat \ {0}
        /\ \A i \in 1..Len(toAgent') : toAgent'[i] = toAgent[i+1]
    BY <1>1, <2>1, HeadTailProperties, EmptySeq DEF PbTypes
  <2>3. /\ 1 \in 1..Len(toAgent)
        /\ \A i \in 1..Len(toAgent') : i + 1 \in 1..Len(toAgent) /\ toAgent'[i] = toAgent[i+1]
        /\ \A i \in 1..Len(toAgent) :
             i = 1 \/ (i - 1 \in 1..Len(toAgent') /\ toAgent'[i-1] = toAgent[i])
    BY <2>2
  <2>4. /\ r.tag \in 0..MaxTag /\ r.tag <= server.used /\ r.code # 400
        /\ r.code = 200 => r.tag # NoTag
    BY <1>1, <2>1, <2>2, <2>3 DEF PbTypes, Publishing, Response
  <2> HIDE DEF r
  <2>5. /\ PbTypes => \A i \in 1..Len(toAgent') :
             /\ toAgent'[i].tag <= server.used
             /\ toAgent'[i].code = 200 => toAgent'[i].tag # NoTag
        /\ \A i \in 1..Len(toAgent') : toAgent'[i].code # 400
    BY <1>1, <2>1, <2>3 DEF PbTypes, Publishing
  <2>6. CASE r.code = 412
    <3> DEFINE p == [pubr EXCEPT !.etag = NoTag, !.refresh = FALSE]
    <3>1. Send(p) /\ UNCHANGED failed
      BY <2>1, <2>6 DEF response_handler
    <3>2. /\ p \in [etag : 0..MaxTag, refresh : BOOLEAN, tmr : BOOLEAN,
                    expires : BOOLEAN, sent : {pubr.sent}]
          /\ p.etag = NoTag /\ p.expires = pubr.expires /\ p.refresh = FALSE
      <4>1. p \in [etag : {0}, refresh : {FALSE}, tmr : BOOLEAN,
                   expires : {pubr.expires}, sent : {pubr.sent}]
        BY <1>2 DEF NoTag
      <4>2. pubr.expires \in BOOLEAN /\ 0 \in 0..MaxTag
        BY <1>2
      <4> HIDE DEF p
      <4> QED
        BY <4>1, <4>2 DEF NoTag
    <3> HIDE DEF p
    <3> QED
      BY <1>2, <1>3, <2>1, <3>1, <3>2
  <2>7. CASE r.code = 200
    <3>1. /\ pubr' = [pubr EXCEPT !.etag = r.tag, !.refresh = TRUE, !.tmr = TRUE]
          /\ UNCHANGED <<toServer, failed>>
      BY <2>1, <2>7 DEF response_handler
    <3>2. /\ pubr' \in [etag : 0..MaxTag, refresh : BOOLEAN, tmr : BOOLEAN,
                        expires : BOOLEAN, sent : Nat]
          /\ pubr'.etag = r.tag /\ pubr'.tmr = TRUE /\ pubr'.sent = pubr.sent
          /\ pubr'.expires = pubr.expires
      BY <1>2, <2>4, <3>1
    <3>3. PbTypes'
      BY <1>1, <2>1, <2>2, <2>4, <2>5, <3>1, <3>2 DEF PbTypes
    <3>4. pubr.sent # 0
      BY <1>1, <2>1 DEF Publishing
    <3>5. Publishing'
      BY <1>1, <2>1, <2>4, <2>5, <2>7, <3>1, <3>2, <3>4 DEF Publishing
    <3>6. Kept'
      <4>1. NoError' => NoError
        BY <2>3, <2>7, <2>2, <3>1 DEF NoError
      <4>2. ToSendAgain => ToSendAgain'
        <5>1. (\E i \in 1..Len(toAgent) : toAgent[i].code = 412)
                => \E i \in 1..Len(toAgent') : toAgent'[i].code = 412
          BY <2>2, <2>3, <2>7
        <5> QED
          BY <2>1, <3>1, <5>1 DEF ToSendAgain, Known
      <4>3. (StatusSent => StatusSent') /\ (StatusKept => StatusKept')
        BY <2>1, <3>1 DEF StatusSent, StatusKept
      <4> QED
        BY <1>1, <2>1, <2>4, <2>7, <3>2, <4>1, <4>2, <4>3 DEF Kept
    <3> QED
      BY <3>3, <3>5, <3>6 DEF PbInv
  <2>8. CASE r.code = 500
    <3>1. failed' = TRUE /\ UNCHANGED <<pubr, toServer>>
      <4>1. failed' = (failed \/ r.code = 500) /\ UNCHANGED <<pubr, toServer>>
        BY <2>1, <2>8 DEF response_handler
      <4> QED
        BY <2>8, <4>1, Zenon
    <3>2. PbTypes'
      BY <1>1, <2>1, <2>2, <2>5, <3>1 DEF PbTypes
    <3>3. pubr.sent # 0
      BY <1>1, <2>1 DEF Publishing
    <3>4. Publishing'
      BY <1>1, <2>1, <2>5, <3>1, <3>3 DEF Publishing
    <3>5. Kept'
      BY <3>1 DEF Kept, NoError
    <3> QED
      BY <3>2, <3>4, <3>5 DEF PbInv
  <2> QED
    BY <2>2, <2>4, <2>6, <2>7, <2>8 DEF Response
<1>8. CASE toServer # <<>> /\ Fail
  <2> DEFINE r == [code |-> 500, tag |-> NoTag]
  <2>1. /\ toServer # <<>> /\ toServer' = Tail(toServer) /\ toAgent' = Append(toAgent, r)
        /\ UNCHANGED <<user, pubr, failed, server>>
    BY <1>8 DEF Fail, Reply
  <2>2. r \in Response /\ r.tag = 0 /\ r.code = 500
    BY DEF Response, NoTag
  <2> HIDE DEF r
  <2>3. toAgent' # toAgent
    BY <1>1, <2>1, <2>2, AppendProperties, LenProperties DEF PbTypes
  <2>4. /\ server' = [used |-> server'.used, pubs |-> server'.pubs]
        /\ server'.used \in server.used..MaxTag
        /\ (DOMAIN server.pubs)' \subseteq 1..server'.used
        /\ \A t \in 1..server.used : ~Known(t) => ~Known(t)'
    BY <1>1, <2>1 DEF PbTypes, Known
  <2> QED
    BY <1>2, <2>1, <2>2, <2>3, <2>4, ServeKeeps
<1>9. ASSUME toServer # <<>>, NEW q \in Request, q = Head(toServer), Serve(q)
      PROVE  PbInv'
  <2>1. /\ toServer' = Tail(toServer) /\ UNCHANGED <<user, pubr, failed>>
        /\ server.used < MaxTag
    BY <1>9 DEF Serve
  <2>2. /\ Len(toServer) \in Nat \ {0} /\ 1 \in 1..Len(toServer) /\ q = toServer[1]
    BY <1>1, <1>9, EmptySeq DEF PbTypes
  <2>3. pubr.expires => /\ q.body # Removal /\ pubr.sent > 0
                        /\ q.body = Empty => q.tag # NoTag
                        /\ q.body \in Statuses =>
                             \E j \in 1..Len(toServer) : toServer[j].body = user
    BY <1>1, <1>2, <1>9, <2>2 DEF Publishing
  <2>4. /\ server = [used |-> server.used, pubs |-> server.pubs]
        /\ server.used \in server.used..MaxTag /\ server.used \in Nat
        /\ DOMAIN server.pubs \subseteq 1..server.used
    BY <1>1 DEF PbTypes
  <2>5. ASSUME NEW r \in Response, toAgent' = Append(toAgent, r)
        PROVE  toAgent' # toAgent
    BY <1>1, <2>5, AppendProperties, LenProperties DEF PbTypes
  <2>6. ASSUME NEW code \in {400, 412}, Reply(code), pubr.expires => code # 400
        PROVE  PbInv'
    <3> DEFINE r == [code |-> code, tag |-> NoTag]
    <3>1. r \in Response /\ r.tag = 0 /\ r.code = code
      BY DEF Response, NoTag
    <3>2. toAgent' = Append(toAgent, r) /\ server' = server
      BY <2>6 DEF Reply
    <3> HIDE DEF r
    <3>3. /\ server' = [used |-> server'.used, pubs |-> server'.pubs]
          /\ server'.used \in server.used..MaxTag
          /\ (DOMAIN server.pubs)' \subseteq 1..server'.used
          /\ \A t \in 1..server.used : ~Known(t) => ~Known(t)'
      BY <2>4, <3>2 DEF Known
    <3>4. toAgent' # toAgent
      BY <2>5, <3>1, <3>2
    <3>5. pubr.expires /\ NoError' /\ r.code \notin {412, 500} => FALSE
      BY <2>6, <3>1
    <3> QED
      BY <1>2, <1>9, <2>1, <2>6, <3>1, <3>2, <3>3, <3>4, <3>5, ServeKeeps
  <2>7. CASE q.tag # NoTag /\ ~Known(q.tag)
    <3>1. Reply(412)
      BY <1>9, <2>7 DEF Serve
    <3> QED
      BY <2>6, <3>1
  <2>8. CASE q.tag = NoTag /\ q.body \in {Empty, Removal}
    <3>1. Reply(400)
      <4>1. ~Known(q.tag)
        BY <2>4, <2>8 DEF Known, NoTag
      <4> QED
        BY <1>9, <2>8, <4>1 DEF Serve
    <3> QED
      BY <2>3, <2>6, <2>8, <3>1
  <2>9. CASE Known(q.tag) /\ q.body = Removal /\ q.tag # NoTag
    <3>1. Unpublish(q)
      BY <1>9, <2>9 DEF Serve, Removal, Empty
    <3> DEFINE left == [t \in DOMAIN server.pubs \ {q.tag} |-> server.pubs[t]]
    <3>2. toAgent' = toAgent /\ server' = [server EXCEPT !.pubs = left]
      BY <3>1 DEF Unpublish
    <3>3. DOMAIN left \subseteq DOMAIN server.pubs
      OBVIOUS
    <3> HIDE DEF left
    <3>4. server' = [used |-> server.used, pubs |-> left]
      BY <2>4, <3>2
    <3>5. server'.used = server.used /\ server'.pubs = left
      BY <3>4
    <3>6. /\ server' = [used |-> server'.used, pubs |-> server'.pubs]
          /\ server'.used \in server.used..MaxTag
          /\ (DOMAIN server.pubs)' \subseteq 1..server'.used
          /\ \A t \in 1..server.used : ~Known(t) => ~Known(t)'
      BY <2>4, <3>3, <3>4, <3>5 DEF Known
    <3>7. PICK r \in Response : r = [code |-> 412, tag |-> NoTag]
      <4> DEFINE k == [code |-> 412, tag |-> NoTag]
      <4>1. k \in Response
        BY DEF Response, NoTag
      <4> QED
        BY <4>1
    <3>8. r.tag = 0 /\ r.code = 412
      BY <3>7 DEF NoTag
    <3>9. ~pubr.expires
      BY <2>3, <2>9
    <3> QED
      BY <1>2, <1>9, <2>1, <3>2, <3>5, <3>6, <3>8, <3>9, ServeKeeps
  <2>10. CASE /\ ~(q.tag # NoTag /\ ~Known(q.tag))
              /\ ~(q.tag = NoTag /\ q.body \in {Empty, Removal})
              /\ ~(Known(q.tag) /\ q.body = Removal)
    <3> DEFINE status == IF q.body = Empty THEN server.pubs[q.tag] ELSE q.body
               tag == server.used + 1
               r == [code |-> 200, tag |-> tag]
               now == [t \in (DOMAIN server.pubs \ {q.tag}) \cup {tag} |->
                         IF t = tag THEN status ELSE server.pubs[t]]
    <3>1. Store(q, status)
      BY <1>9, <2>10 DEF Serve
    <3>2. server' = [used |-> tag, pubs |-> now] /\ toAgent' = Append(toAgent, r)
      BY <3>1 DEF Store
    <3>3. tag \in server.used..MaxTag /\ tag \in 0..MaxTag /\ tag # NoTag /\ tag \in Nat
          /\ tag = server.used + 1
      BY <1>1, <2>1 DEF PbTypes, NoTag
    <3>4. /\ DOMAIN now = (DOMAIN server.pubs \ {q.tag}) \cup {tag} /\ now[tag] = status
          /\ \A t \in DOMAIN server.pubs \ {q.tag} : now[t] = server.pubs[t]
      <4>1. tag \notin DOMAIN server.pubs
        BY <2>4, <3>3
      <4> QED
        BY <4>1
    <3>5. r \in Response /\ r.code = 200 /\ r.tag = tag
      BY <3>3 DEF Response
    <3>6. /\ q.body = Empty => status = server.pubs[q.tag]
          /\ q.body # Empty => status = q.body
      OBVIOUS
    <3> HIDE DEF tag, r, now, status
    <3>7. server'.used = tag /\ server'.pubs = now /\ (DOMAIN server.pubs)' = DOMAIN now
      BY <3>2
    <3>8. /\ server' = [used |-> server'.used, pubs |-> server'.pubs]
          /\ server'.used \in server.used..MaxTag
          /\ (DOMAIN server.pubs)' \subseteq 1..server'.used
          /\ \A t \in 1..server.used : ~Known(t) => ~Known(t)'
      BY <2>4, <3>2, <3>3, <3>4, <3>7 DEF Known
    <3>9. toAgent' # toAgent
      BY <2>5, <3>2, <3>5
    <3>10. /\ \A i \in 1..Len(toServer) : i = 1 \/ (i - 1 \in 1..Len(toServer') /\ toServer'[i-1] = toServer[i])
           /\ \A i \in 1..Len(toAgent) : i \in 1..Len(toAgent') /\ toAgent'[i] = toAgent[i]
      BY <1>1, <1>9, <2>1, <3>2, <3>5, ServeSequences
    <3>11. ASSUME pubr.expires, NoError'
           PROVE  \/ StatusKept'
                  \/ StatusSent /\ toServer[1].body # user
                  \/ StatusSent' \/ ToSendAgain'
      <4>1. NoError
        BY <2>1, <3>10, <3>11 DEF NoError
      <4>2. StatusSent \/ ToSendAgain \/ StatusKept
        BY <1>1, <2>3, <3>11, <4>1 DEF Kept
      <4>3. CASE q.body = user
        <5>1. q.body # Empty
          BY <1>2, <4>3
        <5> QED
          BY <2>1, <3>4, <3>6, <3>7, <4>3, <5>1 DEF StatusKept
      <4>4. CASE q.body # user /\ q.body \in Statuses
        BY <2>2, <2>3, <3>11, <4>4 DEF StatusSent
      <4>5. CASE q.body = Empty
        <5>1. q.tag # NoTag /\ Known(q.tag) /\ q.body # user
          BY <1>2, <2>3, <2>10, <3>11, <4>5
        <5>2. CASE StatusSent
          BY <2>2, <5>1, <5>2
        <5>3. CASE ToSendAgain
          <6>1. CASE \E i \in 1..Len(toAgent) : toAgent[i].code = 412
            BY <3>10, <6>1 DEF ToSendAgain
          <6>2. CASE \E i \in 1..Len(toServer) : toServer[i].tag # NoTag /\ ~Known(toServer[i].tag)
            <7>1. PICK i \in 1..Len(toServer) : toServer[i].tag # NoTag /\ ~Known(toServer[i].tag)
              BY <6>2
            <7>2. /\ i - 1 \in 1..Len(toServer') /\ toServer'[i-1] = toServer[i]
                  /\ toServer[i].tag \in 1..server.used
              <8>1. toServer[i] \in Request /\ toServer[i].tag <= server.used
                BY <1>1, ElementOfSeq DEF PbTypes
              <8>2. toServer[i].tag \in 1..server.used
                BY <7>1, <8>1 DEF Request, NoTag
              <8> QED
                BY <2>2, <3>10, <5>1, <7>1, <8>2
            <7>3. PICK t \in 1..server.used : t = toServer[i].tag
              BY <7>2
            <7>4. t # NoTag /\ ~Known(t)'
              BY <3>8, <7>1, <7>3
            <7>5. toServer'[i-1].tag = t
              BY <7>2, <7>3
            <7> QED
              BY <7>2, <7>4, <7>5 DEF ToSendAgain, Known
          <6> QED
            BY <5>3, <6>1, <6>2 DEF ToSendAgain
        <5>4. CASE StatusKept
          <6>1. PICK t \in DOMAIN server.pubs : server.pubs[t] = user
            BY <5>1, <5>4 DEF StatusKept, Known
          <6>2. CASE t = q.tag
            BY <2>1, <3>4, <3>6, <3>7, <4>5, <6>1, <6>2 DEF StatusKept
          <6>3. CASE t # q.tag
            BY <2>1, <3>4, <3>7, <6>1, <6>3 DEF StatusKept
          <6> QED
            BY <6>2, <6>3
        <5> QED
          BY <4>2, <5>2, <5>3, <5>4
      <4> QED
        BY <2>3, <3>11, <4>3, <4>4, <4>5 DEF Request
    <3> QED
      BY <1>9, <2>1, <3>2, <3>3, <3>5, <3>7, <3>8, <3>9, <3>11, ServeKeeps
  <2> QED
    BY <2>7, <2>8, <2>9, <2>10
<1>10. CASE Forget
  <2>1. /\ server' = [server EXCEPT !.pubs = [t \in {} |-> Empty]]
        /\ UNCHANGED <<user, pubr, toServer, toAgent, failed>>
    BY <1>10 DEF Forget
  <2>2. /\ server'.used = server.used /\ DOMAIN server'.pubs = {}
        /\ server' = [used |-> server'.used, pubs |-> server'.pubs]
    <3> DEFINE none == [t \in {} |-> Empty]
    <3>1. DOMAIN none = {}
      OBVIOUS
    <3> HIDE DEF none
    <3>2. server' = [used |-> server.used, pubs |-> none]
      BY <1>1, <2>1 DEF PbTypes, none
    <3> QED
      BY <3>1, <3>2
  <2>3. PbTypes'
    BY <1>1, <2>1, <2>2 DEF PbTypes
  <2>4. Publishing'
    BY <1>1, <2>1 DEF Publishing
  <2>5. Kept'
    BY <1>1, <2>1, <2>2 DEF Kept, NoError, StatusKept
  <2> QED
    BY <2>3, <2>4, <2>5 DEF PbInv
<1>11. CASE UNCHANGED pbVars
  <2> USE <1>11 DEF pbVars
  <2>1. PbTypes' /\ Publishing'
    BY <1>1 DEF PbTypes, Publishing
  <2>2. Kept'
    BY <1>1 DEF Kept, NoError, StatusKept, StatusSent, ToSendAgain, Known
  <2> QED
    BY <2>1, <2>2 DEF PbInv
<1>12. toServer # <<>> => Head(toServer) \in Request
  BY <1>1, HeadTailProperties DEF PbTypes
<1> QED
  BY <1>4, <1>5, <1>6, <1>7, <1>8, <1>9, <1>10, <1>11, <1>12 DEF PbNext

(* The types of the publisher and of the messages under way.               *)
THEOREM PublisherTypes == PbSpec => []PbTypeOK
<1> QED
  BY PbInvImplies, PbInitInvariant, PbNextInvariant, PTL DEF PbSpec

(* When all is answered the server has the status, or will be told again.  *)
THEOREM StatusReachesServer == PbSpec => []ServerKnows
<1> QED
  BY PbInvImplies, PbInitInvariant, PbNextInvariant, PTL DEF PbSpec
=============================================================================

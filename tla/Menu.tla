-------------------------------- MODULE Menu --------------------------------
(***************************************************************************)
(* The interactive menu (modules/menu) and the user agents it works on     *)
(* (the list and the current agent of ept.c): which tone is played while   *)
(* calls come and go, redialling, and agents that are created, selected    *)
(* and deleted by commands.  Calls are as the menu sees them: a state, an  *)
(* agent, a direction, and the events of Call (see there for what happens  *)
(* inside one).  Every action is one turn of the event loop.               *)
(***************************************************************************)
EXTENDS Integers, Sequences, FiniteSets, SequencesExt

CONSTANTS
  Agents,          \* agents, of which the first is there at the start
  First,
  MenuCalls,       \* call objects
  RedialAttempts,  \* redial_attempts, 0: off
  NoAgent

ASSUME MenuAssumption ==
  /\ First \in Agents /\ NoAgent \notin Agents
  /\ RedialAttempts \in Nat

VARIABLES
  ual,    \* the list of agents
  cur,    \* uag.ua_cur
  le_cur, \* menu.le_cur
  manual, \* agents whose answermode is manual
  mcall,  \* calls: st, ua, out (direction)
  order,  \* pairs of calls of one agent: the first is before the second in
          \* its list of calls
  tone,   \* menu.play
  redial, \* tmr, attempts (current_attempts), aor, dials: since the last
          \* reset
  gone    \* agents deleted, and whether one had calls

mnVars == <<ual, cur, le_cur, manual, mcall, order, tone, redial, gone>>

NoCall == [st |-> "free", ua |-> NoAgent, out |-> FALSE]
Agented(c) == mcall[c].st # "free"
uag_call_count == Cardinality({c \in MenuCalls : Agented(c)})

(* The pointer is only read if there are agents.  It must not be stale:    *)
(* what happens then is undefined, and nothing is modelled beyond it.      *)
uag_current == IF ual = <<>> THEN NoAgent ELSE cur
Usable(a) == a \in ToSet(ual)

(* The current call of an agent is the last one in its list.               *)
CallsOf(a) == {c \in MenuCalls : mcall[c].ua = a}
IsCurrentCall(c) ==
  /\ Usable(uag_current)
  /\ c \in CallsOf(uag_current)
  /\ \A d \in CallsOf(uag_current) \ {c} : <<d, c>> \in order

(* The lists without the calls that are not in cs, and with c put at the   *)
(* end of the list of a.                                                   *)
Among(cs) == order \cap (cs \X cs)
AfterAll(c, a) == {<<d, c>> : d \in CallsOf(a) \ {c}}

Answered == {"early", "established"}
Calling(c, states) == mcall[c].st \in states

-----------------------------------------------------------------------------
(* Tones.                                                                  *)

play_incoming(a, waiting) ==
  IF a \notin manual THEN "none" ELSE IF waiting THEN "waiting" ELSE "ring"

(* Faulty: the call that closes is counted as one of the others.           *)
play_resume_any(c, t) ==
  LET ringing == {i \in DOMAIN ual : \E d \in CallsOf(ual[i]) : Calling(d, {"incoming"})}
  IN IF \E d \in MenuCalls : Calling(d, Answered) THEN t
     ELSE IF ringing # {}
     THEN play_incoming(ual[Max(ringing)], uag_call_count > 2)
     ELSE IF \E d \in MenuCalls : Calling(d, {"ringing"}) THEN "ringback" ELSE t

(* The tone after call c has closed, t plays already: the last agent with  *)
(* a call that comes in decides.                                           *)
play_resume(c, t) ==
  LET others == MenuCalls \ {c}
      ringing == {i \in DOMAIN ual :
                   \E d \in others \cap CallsOf(ual[i]) : Calling(d, {"incoming"})}
  IN IF \E d \in others : Calling(d, Answered) THEN t
     ELSE IF ringing # {}
     THEN play_incoming(ual[Max(ringing)], uag_call_count > 2)
     ELSE IF \E d \in others : Calling(d, {"ringing"}) THEN "ringback" ELSE t

has_established_call == \E c \in MenuCalls : Calling(c, Answered)

(* Codes: none (also 487), an error with its tone, and 701.                *)
menu_play_closed(code) == IF code = "none" THEN "none" ELSE "error"

ToneEnds ==
  /\ tone \in {"waiting", "error"}
  /\ tone' = "none"
  /\ UNCHANGED <<ual, cur, le_cur, manual, mcall, order, redial, gone>>

-----------------------------------------------------------------------------
(* Calls.                                                                  *)

New(c, a, out) ==
  /\ ~Agented(c)
  /\ mcall' = [mcall EXCEPT ![c] = [st |-> IF out THEN "outgoing" ELSE "incoming",
                                    ua |-> a, out |-> out]]
  /\ order' = order \cup AfterAll(c, a)

Becomes(c, from, to) == Calling(c, from) /\ mcall' = [mcall EXCEPT ![c].st = to]

(* The command dial or dialdir.                                            *)
dial_handler(c) ==
  /\ Usable(uag_current)
  /\ New(c, uag_current, TRUE)
  /\ UNCHANGED <<ual, cur, le_cur, manual, tone, redial, gone>>

(* UA_EVENT_CALL_INCOMING, only of agents that answer manually.            *)
Incoming(c, a) ==
  /\ Usable(a)
  /\ New(c, a, FALSE)
  /\ IF a \in manual
     THEN /\ cur' = a
          /\ tone' = play_incoming(a, uag_call_count + 1 > 1)
     ELSE UNCHANGED <<cur, tone>>
  /\ UNCHANGED <<ual, le_cur, manual, redial, gone>>

(* A provisional response: its code decides the state, and whether it came *)
(* with SDP (media) the event, PROGRESS or RINGING.                        *)
Provisional(c, scode, media) ==
  /\ mcall[c].out /\ Calling(c, {"outgoing", "ringing", "early"})
  /\ mcall' = [mcall EXCEPT ![c].st =
                 CASE scode = 180 -> "ringing" [] scode = 183 -> "early"
                   [] OTHER -> @]
  /\ UNCHANGED <<ual, cur, le_cur, manual, order, redial, gone>>
  /\ tone' = IF ~IsCurrentCall(c) THEN tone
             ELSE IF media THEN "none"
             ELSE IF has_established_call' THEN tone ELSE "ringback"

NoRedial == [tmr |-> FALSE, attempts |-> 0, dials |-> 0, aor |-> NoAgent]

(* Once the timer has run out, the agent it was for does not matter.       *)
RedialDone == [NoRedial EXCEPT !.attempts = redial.attempts, !.dials = redial.dials]

Established(c) ==
  /\ Becomes(c, {"outgoing", "ringing", "early", "incoming"}, "established")
  /\ tone' = "none"
  /\ redial' = NoRedial \* redial_reset()
  /\ UNCHANGED <<ual, cur, le_cur, manual, order, gone>>

(* Try again after a call that failed, and after every one that closes     *)
(* while calls are being tried again.                                      *)
StartRedial(c, code) ==
  IF RedialAttempts > 0
     /\ (redial.attempts > 0 \/ (mcall[c].out /\ code = "701"))
  THEN [redial EXCEPT !.tmr = TRUE, !.attempts = @ + 1, !.aor = mcall[c].ua]
  ELSE redial

(* Bound: so many failures are counted.                                    *)
Closed(c, code) ==
  /\ Agented(c)
  /\ redial.attempts <= RedialAttempts + 1
  /\ tone' = play_resume(c, menu_play_closed(code))
  /\ redial' = StartRedial(c, code)
  /\ mcall' = [mcall EXCEPT ![c] = NoCall]
  /\ order' = Among(MenuCalls \ {c})
  /\ UNCHANGED <<ual, cur, le_cur, manual, gone>>

(* Faulty: one attempt more.                                               *)
redial_handler_one_more(c) ==
  /\ redial.tmr
  /\ IF redial.attempts > RedialAttempts + 1 \/ ~Usable(redial.aor)
     THEN /\ redial' = RedialDone
          /\ UNCHANGED <<mcall, order>>
     ELSE /\ New(c, redial.aor, TRUE)
          /\ redial' = [RedialDone EXCEPT !.dials = @ + 1]
  /\ UNCHANGED <<ual, cur, le_cur, manual, tone, gone>>

(* Gives up, finds no agent, or dials again.                               *)
redial_handler(c) ==
  /\ redial.tmr
  /\ IF redial.attempts > RedialAttempts \/ ~Usable(redial.aor)
     THEN /\ redial' = RedialDone
          /\ UNCHANGED <<mcall, order>>
     ELSE /\ New(c, redial.aor, TRUE)
          /\ redial' = [RedialDone EXCEPT !.dials = @ + 1]
  /\ UNCHANGED <<ual, cur, le_cur, manual, tone, gone>>

(* The tone stops, whatever becomes of the answer; the call is established *)
(* later.                                                                  *)
cmd_answer ==
  /\ Usable(uag_current)
  /\ tone' = "none"
  /\ UNCHANGED <<ual, cur, le_cur, manual, mcall, order, redial, gone>>

set_current_call(c) ==
  /\ Agented(c) /\ mcall[c].ua = uag_current
  /\ order' = Among(MenuCalls \ {c}) \cup AfterAll(c, uag_current)
  /\ UNCHANGED <<ual, cur, le_cur, manual, mcall, tone, redial, gone>>

-----------------------------------------------------------------------------
(* Agents.                                                                 *)

Position(a) == CHOOSE i \in DOMAIN ual : ual[i] = a
Unlisted(a) ==
  [i \in 1..Len(ual)-1 |-> ual[IF i < Position(a) THEN i ELSE i + 1]]
Next_(a) == ual[IF Position(a) = Len(ual) THEN 1 ELSE Position(a) + 1]

(* The list element after le_cur, which need not be that of uag_current(). *)
ua_next == Next_(IF le_cur = NoAgent THEN ual[1] ELSE le_cur)

cmd_ua_next ==
  /\ ual # <<>>
  /\ le_cur = NoAgent \/ Usable(le_cur)
  /\ le_cur' = ua_next /\ cur' = ua_next
  /\ UNCHANGED <<ual, manual, mcall, order, tone, redial, gone>>

cmd_ua_find(a) ==
  /\ Usable(a)
  /\ cur' = a
  /\ UNCHANGED <<ual, le_cur, manual, mcall, order, tone, redial, gone>>

(* Faulty: the calls of the agent stay.                                    *)
cmd_ua_delete_keep_calls(a) ==
  /\ Usable(a)
  /\ IF a = uag_current
     THEN /\ le_cur = NoAgent \/ Usable(le_cur)
          /\ le_cur' = ua_next /\ cur' = ua_next
     ELSE UNCHANGED <<cur, le_cur>>
  /\ ual' = Unlisted(a)
  /\ gone' = [gone EXCEPT !.agents = @ \cup {a}]
  /\ UNCHANGED <<manual, mcall, order, tone, redial>>

(* Without the event SHUTDOWN, and its calls are freed without CLOSED.     *)
cmd_ua_delete(a) ==
  /\ Usable(a)
  /\ IF a = uag_current
     THEN /\ le_cur = NoAgent \/ Usable(le_cur)
          /\ le_cur' = ua_next /\ cur' = ua_next
     ELSE UNCHANGED <<cur, le_cur>>
  /\ ual' = Unlisted(a)
  /\ mcall' = [c \in MenuCalls |-> IF mcall[c].ua = a THEN NoCall ELSE mcall[c]]
  /\ order' = Among(MenuCalls \ CallsOf(a))
  /\ gone' = [agents |-> gone.agents \cup {a},
              calls |-> gone.calls \/ CallsOf(a) # {}]
  /\ UNCHANGED <<manual, tone, redial>>

(* ua_alloc(): current if there was none.                                  *)
create_ua(a) ==
  /\ ~Usable(a) /\ a \notin gone.agents
  /\ ual' = Append(ual, a)
  /\ cur' = IF cur = NoAgent THEN a ELSE cur
  /\ UNCHANGED <<le_cur, manual, mcall, order, tone, redial, gone>>

-----------------------------------------------------------------------------
MnInit ==
  /\ ual = <<First>> /\ cur = First /\ le_cur = NoAgent
  /\ manual \in SUBSET Agents
  /\ mcall = [c \in MenuCalls |-> NoCall] /\ order = {}
  /\ tone = "none"
  /\ redial = NoRedial
  /\ gone = [agents |-> {}, calls |-> FALSE]

CallEvents(c) ==
  \/ \E a \in Agents : Incoming(c, a)
  \/ \E scode \in {180, 181, 183}, media \in BOOLEAN : Provisional(c, scode, media)
  \/ Established(c)
  \/ \E code \in {"none", "error", "701"} : Closed(c, code)

UserCommands ==
  \/ \E c \in MenuCalls : dial_handler(c) \/ set_current_call(c)
  \/ \E a \in Agents : cmd_ua_find(a) \/ cmd_ua_delete(a) \/ create_ua(a)
  \/ cmd_answer \/ cmd_ua_next

MnNext ==
  \/ \E c \in MenuCalls : CallEvents(c) \/ redial_handler(c)
  \/ UserCommands \/ ToneEnds

MnSpec == MnInit /\ [][MnNext]_mnVars

-----------------------------------------------------------------------------
(* Properties.                                                             *)

MnTypeOK ==
  /\ ToSet(ual) \subseteq Agents /\ IsInjective(ual)
  /\ {cur, le_cur} \subseteq Agents \cup {NoAgent}
  /\ \A c \in MenuCalls : Agented(c) => Usable(mcall[c].ua)
  /\ \A c, d \in MenuCalls :
       <<c, d>> \in order \/ <<d, c>> \in order
         <=> Agented(c) /\ mcall[c].ua = mcall[d].ua /\ c # d
  /\ tone \in {"none", "ring", "waiting", "ringback", "error"}
  /\ redial.tmr => redial.attempts > 0

(* The two tones that do not end by themselves are only played while there *)
(* is a call to ring for: one that comes in, or one the user makes that    *)
(* nobody has answered, whatever responses it got and whatever became of   *)
(* the other calls.  (An agent deleted with its calls sends no CLOSED, and *)
(* its tone goes on.)                                                      *)
EndlessToneHasCall ==
  \/ gone.calls
  \/ /\ tone = "ring" => \E c \in MenuCalls : Calling(c, {"incoming"})
     /\ tone = "ringback" =>
          \E c \in MenuCalls : Calling(c, {"outgoing", "ringing", "early"})

(* Between two calls that succeed, no more calls are redialled than        *)
(* configured, whatever other calls fail or are hung up meanwhile.         *)
RedialLimit == redial.dials <= RedialAttempts

(* ept.c, uag_current(): "Current User-Agent, NULL if none".               *)
CurrentAgentExists == uag_current # NoAgent => Usable(uag_current)
=============================================================================

--------------------------- MODULE CallViewProofs ---------------------------
(***************************************************************************)
(* Proofs about what a step of Call.tla does to the other calls and what   *)
(* it tells the application, on top of the inductive invariant of          *)
(* CallProofs.tla: Call.tla implements CallView.tla, an incoming call is   *)
(* announced, and a call that ends leaves the others alone.                *)
(*                                                                         *)
(* A step speaks about at most one call (Tells): it may report an event of *)
(* that call, while the state, the session and the last event of all       *)
(* others stay (Quiet).  That the events come in an order CallView.tla     *)
(* allows needs to know which events a call in a given state has had       *)
(* (Told), which in turn depends on the account: with media NAT the        *)
(* announcement of a call waits for mnat_handler().                        *)
(***************************************************************************)
EXTENDS CallProofs

(* What a call r of the account a has told: one that is not yet connected  *)
(* has only rung or progressed; one that comes in waits for its media NAT  *)
(* and has told nothing, or has been announced, if the user answers.       *)
Told(a, r) ==
  /\ r.state \in {"OUTGOING", "RINGING", "EARLY"} =>
       /\ r.sess \in {"none", "calling"}
       /\ r.seen \in {"none", "ringing", "progress"}
  /\ r.state = "INCOMING" =>
       /\ r.sess \in {"incoming", "answered"}
       /\ IF a.mnat # "none" /\ r.wait THEN r.seen = "none"
          ELSE a.answermode = "manual" => r.seen = "incoming"
  /\ r.sess = "calling" => r.state \in {"OUTGOING", "RINGING", "EARLY"}

(* Of every call in a list.                                                *)
AllTold == \A u \in UAs : \A c \in Live(u) : Told(acc[u], call[c])

(* A call that tells nothing.                                              *)
Quiet(r, q) ==
  q.state = r.state /\ q.sess = r.sess /\ q.wait = r.wait /\ q.seen = r.seen

(* The events a call may report when the last one was old.                 *)
Said(old, new) ==
  \/ new = old
  \/ new = "none"
  \/ old = "none" /\ new = "incoming"
  \/ old \in {"none", "ringing", "progress"} /\ new \in {"ringing", "progress"}
  \/ old # "established" /\ new = "established"

(* The two shapes of a step: no call tells anything, or one does.          *)
Silent ==
  /\ \A u \in UAs : Live(u)' \subseteq Live(u)
  /\ \A d \in Calls : Quiet(call[d], call'[d])

Tells(c) ==
  /\ Said(call[c].seen, call'[c].seen)
  /\ \A d \in Calls \ {c} : Quiet(call[d], call'[d])
  /\ \A u \in UAs : Live(u)' \ {c} \subseteq Live(u)
  /\ \A u \in UAs : c \in Live(u)' => Told(acc[u], call'[c])

Spoken == Silent \/ \E c \in Calls : Tells(c)

LEMMA KeepsQuiet ==
  ASSUME NEW r, NEW q, Keeps(r, q)
  PROVE  Quiet(r, q)
BY DEF Keeps, Quiet

(* What a step that speaks about one call keeps.                           *)
LEMMA SpokenKeeps ==
  ASSUME IInv, AllTold, Spoken, UNCHANGED acc
  PROVE  AllTold'
<1>1. \A u \in UAs : Live(u) \subseteq Calls
  BY LiveInCalls DEF IInv
<1>2. ASSUME NEW u \in UAs, NEW d \in Live(u), Quiet(call[d], call'[d])
      PROVE  Told(acc'[u], call'[d])
  BY <1>2 DEF AllTold, Told, Quiet
<1>3. CASE Silent
  BY <1>1, <1>2, <1>3 DEF Silent, AllTold
<1>4. ASSUME NEW c \in Calls, Tells(c)
      PROVE  AllTold'
  <2> SUFFICES ASSUME NEW u \in UAs, NEW d \in Live(u)'
               PROVE  Told(acc'[u], call'[d])
    BY DEF AllTold
  <2>1. CASE d = c
    BY <1>4, <2>1 DEF Tells
  <2>2. CASE d # c
    <3>1. d \in Live(u)
      BY <1>4, <2>2 DEF Tells
    <3>2. Quiet(call[d], call'[d])
      BY <1>1, <1>4, <2>2, <3>1 DEF Tells
    <3> QED
      BY <1>2, <3>1, <3>2
  <2> QED
    BY <2>1, <2>2
<1> QED
  BY <1>3, <1>4 DEF Spoken

(* Such a step is one the abstract specification allows.                   *)
LEMMA SpokenIsViewed ==
  ASSUME TypeOK, Spoken
  PROVE  \/ View!Next
         \/ [c \in Calls |-> call'[c].seen] = [c \in Calls |-> call[c].seen]
<1> DEFINE view == [c \in Calls |-> call[c].seen]
           next == [c \in Calls |-> call'[c].seen]
<1>1. CASE Silent
  BY <1>1 DEF Silent, Quiet
<1>2. ASSUME NEW c \in Calls, Tells(c)
      PROVE  View!Next \/ next = view
  <2>1. next = [view EXCEPT ![c] = call'[c].seen]
    BY <1>2 DEF Tells, Quiet
  <2>2. view[c] = call[c].seen
    OBVIOUS
  <2>3. Said(view[c], call'[c].seen)
    BY <1>2, <2>2 DEF Tells
  <2> DEFINE e == call'[c].seen
  <2>4. CASE e = view[c]
    BY <2>1, <2>4
  <2>5. CASE e = "none"
    BY <2>1, <2>5 DEF View!Next, View!End
  <2>6. CASE view[c] = "none" /\ e = "incoming"
    BY <2>1, <2>6 DEF View!Next, View!Announce
  <2>7. CASE /\ view[c] \in {"none", "ringing", "progress"}
             /\ e \in {"ringing", "progress"}
    <3>1. View!Progress(c)
      BY <2>1, <2>7 DEF View!Progress
    <3> QED
      BY <3>1 DEF View!Next
  <2>8. CASE view[c] # "established" /\ e = "established"
    BY <2>1, <2>8 DEF View!Next, View!Establish
  <2> QED
    BY <2>3, <2>4, <2>5, <2>6, <2>7, <2>8 DEF Said
<1> QED
  BY <1>1, <1>2 DEF Spoken

-----------------------------------------------------------------------------
(* What each kind of step says.                                            *)

LEMMA OneQuiet ==
  ASSUME IInv, NEW u \in UAs, NEW c \in Live(u), NEW q,
         Quiet(call[c], q),
         calls' = calls, call' = [call EXCEPT ![c] = q]
  PROVE  Spoken
<1>1. c \in Calls /\ call \in [Calls -> CallObject]
  BY LiveFacts DEF IInv, TypeOK
<1>2. \A d \in Calls : Quiet(call[d], call'[d])
  BY <1>1 DEF Quiet
<1> QED
  BY <1>2 DEF Spoken, Silent, Live

LEMMA OneTells ==
  ASSUME IInv, NEW u \in UAs, NEW c \in Live(u), NEW q,
         Said(call[c].seen, q.seen), Told(acc[u], q),
         calls' = calls, call' = [call EXCEPT ![c] = q]
  PROVE  Spoken
<1>1. c \in Calls /\ call \in [Calls -> CallObject]
  BY LiveFacts DEF IInv, TypeOK
<1>2. call'[c] = q /\ \A d \in Calls \ {c} : Quiet(call[d], call'[d])
  BY <1>1 DEF Quiet
<1>3. \A v \in UAs : Live(v)' = Live(v)
  BY DEF Live
<1>4. \A v \in UAs : c \in Live(v) => v = u
  BY DEF IInv, TypeOK
<1>5. Tells(c)
  BY <1>2, <1>3, <1>4 DEF Tells
<1> QED
  BY <1>1, <1>5 DEF Spoken

LEMMA UnlinkLive ==
  ASSUME IInv, NEW u \in UAs, NEW c \in Live(u),
         calls' = [calls EXCEPT ![u] = Unlink(@, c)]
  PROVE  \A v \in UAs : Live(v)' = Live(v) \ {c}
<1>1. calls \in [UAs -> Seq(Calls)] /\ IsInjective(calls[u])
  BY DEF IInv, TypeOK
<1>2. Range(Unlink(calls[u], c)) = Live(u) \ {c}
  BY <1>1, UnlinkFacts DEF Live
<1>3. \A v \in UAs \ {u} : c \notin Live(v)
  BY DEF IInv, TypeOK
<1> QED
  BY <1>1, <1>2, <1>3 DEF Live

LEMMA DestructorTells ==
  ASSUME IInv, NEW u \in UAs, NEW c \in Live(u), call_destructor(u, c)
  PROVE  Spoken
<1>1. c \in Calls /\ call \in [Calls -> CallObject]
  BY LiveFacts DEF IInv, TypeOK
<1>2. call'[c].seen = "none" /\ \A d \in Calls \ {c} : Quiet(call[d], call'[d])
  BY <1>1 DEF call_destructor, Zeroed, Quiet
<1>3. \A v \in UAs : Live(v)' = Live(v) \ {c}
  BY UnlinkLive DEF call_destructor
<1>4. Tells(c)
  BY <1>2, <1>3 DEF Tells, Said
<1> QED
  BY <1>1, <1>4 DEF Spoken

LEMMA CloseTells ==
  ASSUME IInv, NEW u \in UAs, NEW c \in Live(u), CloseCall(u, c)
  PROVE  Spoken
<1> DEFINE s == Unlink(calls[u], c)
           k == [call EXCEPT ![c] = Zeroed]
<1>1. /\ c \in Calls /\ acc[u].mnat \in MnatKinds
      /\ calls[u] \in Seq(Calls) /\ IsInjective(calls[u])
  BY LiveFacts
<1>2. s \in Seq(Calls)
  BY <1>1, UnlinkFacts DEF Live
<1>3. /\ k \in [Calls -> CallObject]
      /\ k[c] = Zeroed
      /\ \A d \in Calls \ {c} : k[d] = call[d]
  BY <1>1, ZeroedType DEF IInv, TypeOK
<1>4. call' = resume_call(acc[u].mnat, s, k)
  BY DEF CloseCall
<1> HIDE DEF s, k
<1>5. \A d \in Calls : Quiet(k[d], call'[d])
  BY <1>1, <1>2, <1>3, <1>4, ResumeKeeps, KeepsQuiet
<1>6. call'[c].seen = "none" /\ \A d \in Calls \ {c} : Quiet(call[d], call'[d])
  BY <1>1, <1>3, <1>5 DEF Quiet, Zeroed
<1>7. \A v \in UAs : Live(v)' = Live(v) \ {c}
  BY UnlinkLive DEF CloseCall
<1>8. Tells(c)
  BY <1>6, <1>7 DEF Tells, Said
<1> QED
  BY <1>1, <1>8 DEF Spoken

(* CALL_EVENT_INCOMING is announced here and nowhere else.                 *)
LEMMA IncomingSays ==
  ASSUME NEW u \in UAs, NEW c \in Calls, NEW s, NEW r \in CallObject,
         acc[u].mnat \in MnatKinds,
         r.state = "INCOMING", r.sess \in {"incoming", "answered"},
         r.seen = "none", acc[u].mnat = "none" \/ ~r.wait,
         IncomingEvent(u, c, s, r)
  PROVE  \/ /\ calls' = [calls EXCEPT ![u] = Unlink(s, c)]
            /\ call' = [call EXCEPT ![c] = Zeroed]
         \/ /\ calls' = [calls EXCEPT ![u] = s]
            /\ \E q \in CallObject :
                 /\ Told(acc[u], q) /\ q.seen \in {"none", "incoming"}
                 /\ call' = [call EXCEPT ![c] = q]
<1> DEFINE announced == [r EXCEPT !.seen = "incoming"]
           early == [r EXCEPT !.tmr = FALSE]
           started == call_stream_start(acc[u].mnat, early)
           mode == acc[u].answermode
           Ok(q) == /\ q \in CallObject
                    /\ Told(acc[u], q) /\ q.seen \in {"none", "incoming"}
<1>1. Ok(announced)
  BY DEF CallObject, Told
<1>2. early \in CallObject /\ (mode = "early" => Ok(early))
  BY DEF CallObject, Told
<1>3. mode = "early" => Ok(started)
  <2>1. Keeps(early, started)
    BY <1>2, StreamStartKeeps
  <2> QED
    BY <1>2, <2>1 DEF Keeps, Told
<1>4. ASSUME mode = "auto", NEW q \in AnswerCall(acc[u].mnat, r)
      PROVE  Ok(q)
  <2>1. /\ q \in CallObject
        /\ q.state = r.state /\ q.wait = r.wait /\ q.seen = r.seen
        /\ q.sess = r.sess \/ q.sess = "answered"
    BY AnswerFacts
  <2> QED
    BY <1>4, <2>1 DEF Told
<1> HIDE DEF announced, started, early
<1>5. \/ /\ calls' = [calls EXCEPT ![u] = Unlink(s, c)]
         /\ call' = [call EXCEPT ![c] = Zeroed]
      \/ /\ calls' = [calls EXCEPT ![u] = s]
         /\ \/ call' = [call EXCEPT ![c] = announced]
            \/ mode = "early" /\ call' = [call EXCEPT ![c] = early]
            \/ mode = "early" /\ call' = [call EXCEPT ![c] = started]
            \/ /\ mode = "auto"
               /\ \E q \in AnswerCall(acc[u].mnat, r) :
                    call' = [call EXCEPT ![c] = q]
  BY DEF IncomingEvent, announced, early, started
<1> HIDE DEF mode
<1> QED
  BY <1>1, <1>2, <1>3, <1>4, <1>5

(* Calls that enter a list.                                                *)
LEMMA EnterTells ==
  ASSUME IInv, NEW u \in UAs, NEW c \in Free, NEW r \in CallObject,
         r.seen \in {"none", "incoming"}, Told(acc[u], r),
         calls' = [calls EXCEPT ![u] = Append(calls[u], c)],
         call' = [call EXCEPT ![c] = r]
  PROVE  Spoken
<1>1. /\ c \in Calls /\ call[c].seen = "none"
      /\ call \in [Calls -> CallObject]
  BY DEF IInv, TypeOK, Free, Zeroed
<1>2. \A v \in UAs : c \notin Live(v)
  BY DEF Free, InUse
<1>3. calls \in [UAs -> Seq(Calls)] /\ IsInjective(calls[u])
  BY DEF IInv, TypeOK
<1>4. Range(Append(calls[u], c)) = Live(u) \cup {c}
  BY <1>1, <1>2, <1>3, AppendFacts DEF Live
<1>5. \A v \in UAs : Live(v)' = IF v = u THEN Live(v) \cup {c} ELSE Live(v)
  BY <1>3, <1>4 DEF Live
<1>6. call'[c] = r /\ \A d \in Calls \ {c} : Quiet(call[d], call'[d])
  BY <1>1 DEF Quiet
<1>7. Tells(c)
  BY <1>1, <1>2, <1>5, <1>6 DEF Tells, Said
<1> QED
  BY <1>1, <1>7 DEF Spoken

LEMMA ConnectTells ==
  ASSUME IInv, NEW u \in UAs, ua_connect(u)
  PROVE  Spoken
<1> DEFINE r == call_connect(u)
<1>1. PICK c \in Free :
        /\ calls' = [calls EXCEPT ![u] = Append(calls[u], c)]
        /\ call' = [call EXCEPT ![c] = r]
  BY DEF ua_connect
<1>2. /\ r \in CallObject
      /\ r.state = "OUTGOING" /\ r.sess \in {"none", "calling"}
      /\ r.seen = "none"
  <2>1. NewCall(u) \in CallObject /\ NewCall(u).seen = "none"
    BY NewCallFacts DEF ua_connect
  <2> QED
    BY <2>1 DEF call_connect, CallObject, CallState, Session
<1> HIDE DEF r
<1>3. Told(acc[u], r)
  BY <1>2 DEF Told
<1> QED
  BY <1>1, <1>2, <1>3, EnterTells

LEMMA ConnTells ==
  ASSUME IInv, NEW u \in UAs, NEW offer \in BOOLEAN,
         sipsess_conn_handler(u, offer)
  PROVE  Spoken
<1> DEFINE r == call_accept(u, offer)
<1>1. PICK c \in Free :
        \/ /\ offer
           /\ call' = resume_call(acc[u].mnat, calls[u], call)
           /\ UNCHANGED calls
        \/ IF acc[u].mnat = "none"
           THEN IncomingEvent(u, c, Append(calls[u], c), r)
           ELSE /\ calls' = [calls EXCEPT ![u] = Append(calls[u], c)]
                /\ call' = [call EXCEPT ![c] = r]
  BY DEF sipsess_conn_handler
<1> DEFINE s == Append(calls[u], c)
<1>2. /\ acc[u].mnat \in MnatKinds
      /\ calls \in [UAs -> Seq(Calls)] /\ IsInjective(calls[u])
      /\ call \in [Calls -> CallObject]
  BY DEF IInv, TypeOK, Account
<1>3. /\ r.state = "INCOMING" /\ r.sess = "incoming"
      /\ r.seen = "none" /\ r.wait /\ r \in CallObject
  <2>1. NewCall(u) \in CallObject /\ NewCall(u).seen = "none"
    BY NewCallFacts DEF sipsess_conn_handler
  <2>2. NewCall(u).wait
    BY DEF NewCall, Zeroed
  <2> QED
    BY <2>1, <2>2, CallAssumption
       DEF call_accept, CallObject, CallState, Session
<1> HIDE DEF r
<1>4. c \in Calls
  BY DEF Free
<1>5. CASE call' = resume_call(acc[u].mnat, calls[u], call) /\ UNCHANGED calls
  <2>1. \A d \in Calls : Quiet(call[d], call'[d])
    BY <1>2, <1>5, ResumeKeeps, KeepsQuiet
  <2> QED
    BY <1>5, <2>1 DEF Spoken, Silent, Live
<1>6. CASE acc[u].mnat = "none" /\ IncomingEvent(u, c, s, r)
  <2> HIDE DEF s
  <2>1. \/ /\ calls' = [calls EXCEPT ![u] = Unlink(s, c)]
           /\ call' = [call EXCEPT ![c] = Zeroed]
        \/ /\ calls' = [calls EXCEPT ![u] = s]
           /\ \E q \in CallObject :
                /\ Told(acc[u], q) /\ q.seen \in {"none", "incoming"}
                /\ call' = [call EXCEPT ![c] = q]
    BY <1>2, <1>3, <1>4, <1>6, IncomingSays
  <2>2. CASE /\ calls' = [calls EXCEPT ![u] = Unlink(s, c)]
             /\ call' = [call EXCEPT ![c] = Zeroed]
    <3>1. c \notin Range(calls[u])
      BY DEF Free, InUse, Live
    <3>2. Unlink(s, c) = calls[u]
      BY <1>2, <1>4, <3>1, AppendFacts DEF s
    <3>3. calls' = calls /\ call' = call
      BY <2>2, <3>2 DEF IInv, TypeOK
    <3> QED
      BY <3>3 DEF Spoken, Silent, Quiet, Live
  <2>3. ASSUME calls' = [calls EXCEPT ![u] = s], NEW q \in CallObject,
               Told(acc[u], q), q.seen \in {"none", "incoming"},
               call' = [call EXCEPT ![c] = q]
        PROVE  Spoken
    BY <2>3, EnterTells DEF s
  <2> QED
    BY <2>1, <2>2, <2>3
<1>7. CASE /\ acc[u].mnat # "none"
           /\ calls' = [calls EXCEPT ![u] = s]
           /\ call' = [call EXCEPT ![c] = r]
  <2>1. Told(acc[u], r)
    BY <1>3, <1>7 DEF Told
  <2> QED
    BY <1>3, <1>7, <2>1, EnterTells
<1> QED
  BY <1>1, <1>5, <1>6, <1>7

(* Answering changes the session of a call that rings, and nothing the     *)
(* application hears.                                                      *)
LEMMA AnswerTold ==
  ASSUME NEW a, NEW m \in MnatKinds, NEW r \in CallObject,
         Told(a, r), r.state = "INCOMING", NEW q \in AnswerCall(m, r)
  PROVE  Told(a, q) /\ q.seen = r.seen
<1>1. /\ q.state = r.state /\ q.wait = r.wait /\ q.seen = r.seen
      /\ q.sess = r.sess \/ q.sess = "answered"
  BY AnswerFacts
<1> QED
  BY <1>1 DEF Told

LEMMA AnswerTells ==
  ASSUME IInv, AllTold, NEW u \in UAs, NEW c \in Live(u), ua_answer(u, c)
  PROVE  Spoken
<1>1. PICK q \in AnswerCall(acc[u].mnat, call[c]) :
        call' = [call EXCEPT ![c] = q]
  BY DEF ua_answer
<1>2. Told(acc[u], q) /\ q.seen = call[c].seen
  BY LiveFacts, AnswerTold DEF ua_answer, AllTold
<1> QED
  BY <1>1, <1>2, OneTells DEF ua_answer, Said

LEMMA HoldAnswerTells ==
  ASSUME IInv, AllTold, NEW u \in UAs, ua_hold_answer(u)
  PROVE  Spoken
<1> DEFINE s == calls[u]
           n == Len(s)
           m == acc[u].mnat
           k == IF n < 2 THEN call
                ELSE [call EXCEPT ![s[n-1]] = HoldCall(m, @, TRUE)]
<1>1. s \in Seq(Calls) /\ n \in Nat /\ n > 0
  BY DEF IInv, TypeOK, ua_hold_answer
<1>2. s[n] \in Live(u) /\ (n > 1 => s[n-1] \in Live(u))
  BY <1>1 DEF Live, Range
<1>3. m \in MnatKinds /\ s[n] \in Calls /\ call \in [Calls -> CallObject]
  BY <1>2, LiveFacts DEF IInv, TypeOK
<1>4. k \in [Calls -> CallObject] /\ \A d \in Calls : Quiet(call[d], k[d])
  <2>1. CASE n < 2
    BY <2>1, <1>3 DEF Quiet
  <2>2. CASE ~(n < 2)
    <3> DEFINE p == s[n-1]
    <3>1. p \in Live(u)
      BY <1>1, <1>2, <2>2
    <3>2. Keeps(call[p], HoldCall(m, call[p], TRUE)) /\ p \in Calls
      BY <1>3, <3>1, LiveFacts, HoldKeeps
    <3>3. k = [call EXCEPT ![p] = HoldCall(m, call[p], TRUE)]
      BY <2>2
    <3> HIDE DEF p, k
    <3> QED
      BY <1>3, <3>2, <3>3 DEF Keeps, Quiet
  <2> QED
    BY <2>1, <2>2
<1>5. /\ calls' = calls
      /\ \/ call' = k
         \/ /\ k[s[n]].state = "INCOMING"
            /\ \E q \in AnswerCall(m, k[s[n]]) : call' = [k EXCEPT ![s[n]] = q]
  BY DEF ua_hold_answer
<1> HIDE DEF k
<1>6. CASE call' = k
  BY <1>4, <1>5, <1>6 DEF Spoken, Silent, Live
<1>7. ASSUME k[s[n]].state = "INCOMING",
             NEW q \in AnswerCall(m, k[s[n]]), call' = [k EXCEPT ![s[n]] = q]
      PROVE  Spoken
  <2> DEFINE c == s[n]
  <2>1. k[c] \in CallObject /\ Quiet(call[c], k[c])
    BY <1>3, <1>4
  <2>2. Told(acc[u], k[c])
    BY <1>2, <2>1 DEF AllTold, Told, Quiet
  <2>3. Told(acc[u], q) /\ q.seen = call[c].seen
    BY <1>3, <1>7, <2>1, <2>2, AnswerTold DEF Quiet
  <2>4. call'[c] = q /\ \A d \in Calls \ {c} : Quiet(call[d], call'[d])
    BY <1>3, <1>4, <1>7
  <2> HIDE DEF c
  <2>5. \A v \in UAs : Live(v)' = Live(v)
    BY <1>5 DEF Live
  <2>6. \A v \in UAs : c \in Live(v) => v = u
    BY <1>2 DEF IInv, TypeOK, c
  <2>7. Tells(c)
    BY <2>3, <2>4, <2>5, <2>6 DEF Tells, Said
  <2> QED
    BY <1>3, <2>7 DEF Spoken, c
<1> QED
  BY <1>5, <1>6, <1>7

LEMMA ResetTells ==
  ASSUME IInv, uag_reset_transp
  PROVE  Spoken
<1> DEFINE owner(c) == CHOOSE u \in UAs : c \in Live(u)
<1>1. \A d \in Calls :
        call'[d] = IF \E u \in UAs : d \in Live(u)
                   THEN call_modify(acc[owner(d)].mnat, call[d])
                   ELSE call[d]
  BY DEF uag_reset_transp
<1>2. ASSUME NEW d \in Calls
      PROVE  Quiet(call[d], call'[d])
  <2>1. CASE \A u \in UAs : d \notin Live(u)
    BY <1>1, <2>1 DEF Quiet
  <2>2. CASE \E u \in UAs : d \in Live(u)
    <3>1. owner(d) \in UAs /\ d \in Live(owner(d))
      BY <2>2
    <3> HIDE DEF owner
    <3>2. call[d] \in CallObject /\ acc[owner(d)].mnat \in MnatKinds
      BY <3>1, LiveFacts
    <3>3. call'[d] = update_media(acc[owner(d)].mnat, call[d])
      BY <1>1, <2>2 DEF call_modify
    <3> QED
      BY <3>2, <3>3, UpdateMediaKeeps, KeepsQuiet
  <2> QED
    BY <2>1, <2>2
<1>3. calls' = calls
  BY DEF uag_reset_transp
<1> QED
  BY <1>2, <1>3 DEF Spoken, Silent, Live

LEMMA ProgressTells ==
  ASSUME IInv, AllTold, NEW u \in UAs, NEW c \in Live(u),
         NEW scode \in Provisional, NEW sdp \in BOOLEAN,
         sipsess_progr_handler(u, c, scode, sdp)
  PROVE  Spoken
<1> DEFINE m == acc[u].mnat
           st == CASE scode = 180 -> "RINGING"
                   [] scode = 183 -> "EARLY"
                   [] OTHER       -> call[c].state
           r == [call_stream_stop(call[c]) EXCEPT
                   !.state = CASE scode = 180 -> "RINGING"
                               [] scode = 183 -> "EARLY"
                               [] OTHER       -> @,
                   !.rsdp = @ \/ sdp,
                   !.seen = IF sdp THEN "progress" ELSE "ringing"]
           p == call_stream_start(m, r)
           q == IF sdp THEN update_media(m, p) ELSE r
<1>1. /\ call[c] \in CallObject /\ m \in MnatKinds
      /\ call[c].sess = "calling" /\ Told(acc[u], call[c])
  BY LiveFacts DEF sipsess_progr_handler, AllTold
<1>2. st \in {"RINGING", "EARLY", call[c].state}
  OBVIOUS
<1>3. r = [call[c] EXCEPT !.media = FALSE, !.tmr = FALSE, !.state = st,
                          !.rsdp = @ \/ sdp,
                          !.seen = IF sdp THEN "progress" ELSE "ringing"]
  BY DEF call_stream_stop
<1>4. calls' = calls /\ call' = [call EXCEPT ![c] = q]
  BY DEF sipsess_progr_handler
<1> HIDE DEF st, r
<1>5. /\ r \in CallObject
      /\ r.state = st /\ r.sess = "calling" /\ r.seen \in {"progress", "ringing"}
  BY <1>1, <1>2, <1>3 DEF CallObject, CallState
<1>6. Keeps(r, p)
  BY <1>1, <1>5, StreamStartKeeps
<1>7. Keeps(p, update_media(m, p))
  BY <1>1, <1>6, UpdateMediaKeeps DEF Keeps
<1>8. q.state = st /\ q.sess = "calling" /\ q.seen \in {"progress", "ringing"}
  BY <1>5, <1>6, <1>7 DEF Keeps
<1> HIDE DEF p, q
<1>9. Told(acc[u], q) /\ Said(call[c].seen, q.seen)
  BY <1>1, <1>2, <1>8 DEF Told, Said
<1> QED
  BY <1>4, <1>9, OneTells

LEMMA EstabTells ==
  ASSUME IInv, NEW u \in UAs, NEW c \in Live(u), sipsess_estab_handler(u, c)
  PROVE  Spoken
<1> DEFINE m == acc[u].mnat
           q == IF call[c].sess = "answered" /\ call[c].rsdp THEN call[c]
                ELSE update_media(m, [call[c] EXCEPT !.rsdp = TRUE])
           p == call_stream_start(m, q)
           e == [p EXCEPT !.state = "ESTABLISHED", !.sess = "estab",
                          !.tmr = FALSE, !.seen = "established"]
<1>1. call[c] \in CallObject /\ Sound(call[c]) /\ m \in MnatKinds
  BY LiveFacts
<1>2. /\ calls' = calls
      /\ \/ call' = call
         \/ call[c].state # "ESTABLISHED" /\ call' = [call EXCEPT ![c] = e]
  BY DEF sipsess_estab_handler
<1>3. Keeps(call[c], q)
  <2> DEFINE r == [call[c] EXCEPT !.rsdp = TRUE]
  <2>1. r \in CallObject /\ Keeps(call[c], r)
    BY <1>1 DEF Keeps, CallObject
  <2>2. Keeps(r, update_media(m, r))
    BY <1>1, <2>1, UpdateMediaKeeps
  <2> QED
    BY <1>1, <2>1, <2>2 DEF Keeps
<1> HIDE DEF q
<1>4. p \in CallObject
  BY <1>1, <1>3, StreamStartKeeps DEF Keeps
<1> HIDE DEF p
<1>5. e.state = "ESTABLISHED" /\ e.sess = "estab" /\ e.seen = "established"
  BY <1>4 DEF CallObject
<1> HIDE DEF e
<1>6. CASE call' = call
  BY <1>2, <1>6 DEF Spoken, Silent, Quiet, Live
<1>7. CASE call[c].state # "ESTABLISHED" /\ call' = [call EXCEPT ![c] = e]
  <2>1. Told(acc[u], e) /\ Said(call[c].seen, e.seen)
    BY <1>1, <1>5, <1>7 DEF Told, Said, Sound
  <2> QED
    BY <1>2, <1>7, <2>1, OneTells
<1> QED
  BY <1>2, <1>6, <1>7

LEMMA MnatTells ==
  ASSUME IInv, AllTold, NEW u \in UAs, NEW c \in Live(u), mnat_handler(u, c)
  PROVE  Spoken
<1> DEFINE r == [call[c] EXCEPT !.wait = FALSE]
<1>1. /\ call[c] \in CallObject /\ c \in Calls /\ Told(acc[u], call[c])
      /\ acc[u].mnat \in MnatKinds /\ acc[u].mnat # "none"
  BY LiveFacts DEF mnat_handler, AllTold
<1>2. /\ r \in CallObject
      /\ r.state = call[c].state /\ r.sess = call[c].sess
      /\ r.seen = call[c].seen /\ ~r.wait
  BY <1>1 DEF CallObject
<1>3. \/ CloseCall(u, c)
      \/ /\ calls' = calls
         /\ call' = [call EXCEPT ![c] = update_media(acc[u].mnat, call[c])]
      \/ /\ r.state = "OUTGOING" /\ calls' = calls
         /\ \E x \in {"none", "calling"} :
              call' = [call EXCEPT ![c] = [r EXCEPT !.sess = x]]
      \/ /\ call[c].wait /\ r.state = "INCOMING"
         /\ IncomingEvent(u, c, calls[u], r)
      \/ /\ r.state # "INCOMING"
         /\ calls' = calls /\ call' = [call EXCEPT ![c] = r]
  BY DEF mnat_handler, call_modify
<1> HIDE DEF r
<1>4. CASE CloseCall(u, c)
  BY <1>4, CloseTells
<1>5. CASE /\ calls' = calls
           /\ call' = [call EXCEPT ![c] = update_media(acc[u].mnat, call[c])]
  <2>1. Quiet(call[c], update_media(acc[u].mnat, call[c]))
    BY <1>1, UpdateMediaKeeps, KeepsQuiet
  <2> QED
    BY <1>5, <2>1, OneQuiet
<1>6. ASSUME r.state = "OUTGOING", calls' = calls,
             NEW x \in {"none", "calling"},
             call' = [call EXCEPT ![c] = [r EXCEPT !.sess = x]]
      PROVE  Spoken
  <2> DEFINE q == [r EXCEPT !.sess = x]
  <2>1. q.state = "OUTGOING" /\ q.sess = x /\ q.seen = call[c].seen
    BY <1>2, <1>6 DEF CallObject
  <2> HIDE DEF q
  <2>2. Told(acc[u], q) /\ Said(call[c].seen, q.seen)
    BY <1>1, <1>2, <1>6, <2>1 DEF Told, Said
  <2> QED
    BY <1>6, <2>2, OneTells DEF q
<1>7. CASE /\ call[c].wait /\ r.state = "INCOMING"
           /\ IncomingEvent(u, c, calls[u], r)
  <2>1. r.seen = "none" /\ r.sess \in {"incoming", "answered"}
    BY <1>1, <1>2, <1>7 DEF Told
  <2>2. \/ /\ calls' = [calls EXCEPT ![u] = Unlink(calls[u], c)]
           /\ call' = [call EXCEPT ![c] = Zeroed]
        \/ /\ calls' = [calls EXCEPT ![u] = calls[u]]
           /\ \E q \in CallObject :
                /\ Told(acc[u], q) /\ q.seen \in {"none", "incoming"}
                /\ call' = [call EXCEPT ![c] = q]
    BY <1>1, <1>2, <1>7, <2>1, IncomingSays
  <2>3. CASE /\ calls' = [calls EXCEPT ![u] = Unlink(calls[u], c)]
             /\ call' = [call EXCEPT ![c] = Zeroed]
    BY <2>3, DestructorTells DEF call_destructor
  <2>4. ASSUME calls' = [calls EXCEPT ![u] = calls[u]],
               NEW q \in CallObject,
               Told(acc[u], q), q.seen \in {"none", "incoming"},
               call' = [call EXCEPT ![c] = q]
        PROVE  Spoken
    <3>1. calls' = calls
      BY <2>4 DEF IInv, TypeOK
    <3>2. Said(call[c].seen, q.seen)
      BY <1>2, <2>1, <2>4 DEF Said
    <3> QED
      BY <2>4, <3>1, <3>2, OneTells
  <2> QED
    BY <2>2, <2>3, <2>4
<1>8. CASE /\ r.state # "INCOMING"
           /\ calls' = calls /\ call' = [call EXCEPT ![c] = r]
  <2>1. Told(acc[u], r) /\ Said(call[c].seen, r.seen)
    BY <1>1, <1>2, <1>8 DEF Told, Said
  <2> QED
    BY <1>8, <2>1, OneTells
<1> QED
  BY <1>3, <1>4, <1>5, <1>6, <1>7, <1>8

LEMMA NextSpoken ==
  ASSUME IInv, AllTold, Next
  PROVE  Spoken
<1>1. ASSUME NEW u \in UAs, NEW c \in Live(u), Api(u, c)
      PROVE  Spoken
  <2>1. CASE ua_answer(u, c)
    BY <2>1, AnswerTells
  <2>2. ASSUME NEW hold \in BOOLEAN, call_hold(u, c, hold)
        PROVE  Spoken
    <3>1. Quiet(call[c], HoldCall(acc[u].mnat, call[c], hold))
      BY LiveFacts, HoldKeeps, KeepsQuiet
    <3> QED
      BY <2>2, <3>1, OneQuiet DEF call_hold
  <2>3. CASE call_set_current(u, c)
    <3> DEFINE s == Unlink(calls[u], c)
    <3>1. /\ calls \in [UAs -> Seq(Calls)] /\ IsInjective(calls[u])
          /\ calls[u] \in Seq(Calls) /\ c \in Range(calls[u])
      BY DEF IInv, TypeOK, Live
    <3>2. s \in Seq(Calls) /\ IsInjective(s) /\ Range(s) = Live(u) \ {c}
      BY <3>1, UnlinkFacts DEF Live
    <3>3. Range(Append(s, c)) = Range(s) \cup {c}
      BY <3>2, LiveFacts, AppendFacts
    <3>4. \A v \in UAs : Live(v)' = Live(v)
      BY <2>3, <3>1, <3>2, <3>3 DEF call_set_current, Live
    <3> QED
      BY <2>3, <3>4 DEF Spoken, Silent, Quiet, call_set_current
  <2>4. CASE ua_hangup(u, c)
    BY <2>4, CloseTells DEF ua_hangup
  <2>5. CASE call_transfer(u, c)
    <3>1. PICK b \in BOOLEAN : call' = [call EXCEPT ![c].sub = b]
      BY <2>5 DEF call_transfer
    <3>2. Quiet(call[c], [call[c] EXCEPT !.sub = b])
      BY LiveFacts DEF Quiet, CallObject
    <3>3. call' = [call EXCEPT ![c] = [call[c] EXCEPT !.sub = b]]
      BY <3>1
    <3> QED
      BY <2>5, <3>2, <3>3, OneQuiet DEF call_transfer
  <2> QED
    BY <1>1, <2>1, <2>2, <2>3, <2>4, <2>5 DEF Api
<1>2. ASSUME NEW u \in UAs, NEW c \in Live(u), Callback(u, c)
      PROVE  Spoken
  <2> DEFINE m == acc[u].mnat
             offered == [call[c] EXCEPT !.rsdp = TRUE]
             found == [call[c] EXCEPT !.conn = "yes"]
  <2>1. CASE sipsess_close_handler(u, c)
    BY <2>1, CloseTells DEF sipsess_close_handler
  <2>2. CASE sipsub_notify_handler(u, c)
    BY <2>2, CloseTells, DestructorTells DEF sipsub_notify_handler
  <2>3. CASE sipsub_close_handler(u, c)
    <3>1. CASE call_destructor(u, c)
      BY <3>1, DestructorTells
    <3>2. CASE call' = [call EXCEPT ![c].sub = FALSE] /\ UNCHANGED calls
      <4>1. Quiet(call[c], [call[c] EXCEPT !.sub = FALSE])
        BY LiveFacts DEF Quiet, CallObject
      <4> QED
        BY <3>2, <4>1, OneQuiet
    <3> QED
      BY <2>3, <3>1, <3>2 DEF sipsub_close_handler
  <2>4. CASE invite_timeout(u, c)
    BY <2>4, CloseTells DEF invite_timeout
  <2>5. CASE audio_error_handler(u, c)
    BY <2>5, CloseTells DEF audio_error_handler
  <2>6. CASE stream_error_handler(u, c)
    BY <2>6, CloseTells DEF stream_error_handler
  <2>7. CASE sipsess_offer_handler(u, c)
    <3>1. Keeps(call[c], offered)
      BY LiveFacts DEF Keeps, CallObject
    <3>2. Keeps(offered, update_media(m, offered))
      BY <3>1, LiveFacts, UpdateMediaKeeps DEF Keeps
    <3>3. Quiet(call[c], update_media(m, offered))
      BY <3>1, <3>2 DEF Keeps, Quiet
    <3>4. calls' = calls /\ call' = [call EXCEPT ![c] = update_media(m, offered)]
      BY <2>7 DEF sipsess_offer_handler
    <3> QED
      BY <3>3, <3>4, OneQuiet
  <2>8. CASE stream_mnatconn_handler(u, c)
    <3>1. Keeps(call[c], found)
      BY LiveFacts DEF Keeps, CallObject
    <3>2. Keeps(found, call_stream_start(m, found))
      BY <3>1, LiveFacts, StreamStartKeeps DEF Keeps
    <3>3. Quiet(call[c], call_stream_start(m, found))
      BY <3>1, <3>2 DEF Keeps, Quiet
    <3>4. calls' = calls /\ call' = [call EXCEPT ![c] = call_stream_start(m, found)]
      BY <2>8 DEF stream_mnatconn_handler
    <3> QED
      BY <3>3, <3>4, OneQuiet
  <2> HIDE DEF m, offered, found
  <2> QED
    BY <1>2, <2>1, <2>2, <2>3, <2>4, <2>5, <2>6, <2>7, <2>8,
       ProgressTells, EstabTells, MnatTells DEF Callback
<1> QED
  BY <1>1, <1>2, ConnectTells, HoldAnswerTells, ConnTells, ResetTells DEF Next

LEMMA ToldInvariant ==
  /\ Init => AllTold
  /\ IInv /\ AllTold /\ [Next]_vars => AllTold'
<1>1. ASSUME Init PROVE AllTold
  BY <1>1 DEF Init, AllTold, Live, Range
<1>2. ASSUME IInv, AllTold, Next PROVE AllTold'
  <2>1. UNCHANGED acc
    BY <1>2 DEF Next
  <2> QED
    BY <1>2, <2>1, NextSpoken, SpokenKeeps
<1>3. ASSUME AllTold, UNCHANGED vars PROVE AllTold'
  BY <1>3 DEF AllTold, vars, Live
<1> QED
  BY <1>1, <1>2, <1>3

(* The strengthening of IInv that the events need.                         *)
THEOREM EventsFit == Spec => [](IInv /\ AllTold)
BY ToldInvariant, InitInvariant, NextInvariant, PTL DEF Spec

(* In manual answer mode an incoming call is announced as soon as its      *)
(* media NAT is gathered, at once or from mnat_handler(), for as long as   *)
(* it rings (call_accept() and mnat_handler() of call.c).                  *)
THEOREM IncomingIsAnnounced == Spec => []IncomingAnnounced
<1>1. AllTold => IncomingAnnounced
  BY DEF AllTold, Told, IncomingAnnounced
<1> QED
  BY <1>1, EventsFit, PTL

(* The events of every call object come in an order CallView.tla allows:   *)
(* call.c and the event handler of ept.c implement what menu.c and b2bua.c *)
(* are written against.                                                    *)
THEOREM ImplementsView == Spec => ViewSpec
<1>1. Init => View!Init
  BY DEF Init, View!Init, Zeroed
<1>2. IInv /\ AllTold /\ [Next]_vars
        => [View!Next]_([c \in Calls |-> call[c].seen])
  <2>1. ASSUME IInv, AllTold, Next
        PROVE  [View!Next]_([c \in Calls |-> call[c].seen])
    BY <2>1, NextSpoken, SpokenIsViewed DEF IInv
  <2>2. ASSUME UNCHANGED vars
        PROVE  UNCHANGED [c \in Calls |-> call[c].seen]
    BY <2>2 DEF vars
  <2> QED
    BY <2>1, <2>2
<1> QED
  BY <1>1, <1>2, EventsFit, PTL DEF Spec, ViewSpec, View!Spec

-----------------------------------------------------------------------------
(* What the end of a call does to the others.                              *)

LEMMA UpdateMediaKeepsHold ==
  ASSUME NEW m, NEW r \in CallObject
  PROVE  update_media(m, r).hold = r.hold
BY DEF update_media, call_stream_start, stream_is_ready, CallObject

(* Only two kinds of step take a call out of its list.                     *)
LEMMA WhoLeaves ==
  ASSUME IInv, Next,
         NEW u \in UAs, NEW c \in Live(u), c \notin Live(u)'
  PROVE  CloseCall(u, c) \/ call_destructor(u, c)
<1>1. calls \in [UAs -> Seq(Calls)] /\ \A v \in UAs : IsInjective(calls[v])
  BY DEF IInv, TypeOK
<1>2. calls' # calls
  BY DEF Live
<1>3. ASSUME NEW v \in UAs, NEW d \in Live(v),
             CloseCall(v, d) \/ call_destructor(v, d)
      PROVE  v = u /\ d = c
  <2>1. \A w \in UAs : Live(w)' = Live(w) \ {d}
    BY <1>3, UnlinkLive DEF CloseCall, call_destructor
  <2> QED
    BY <2>1 DEF IInv, TypeOK
<1>4. ASSUME NEW v \in UAs, NEW d \in Free,
             calls' = [calls EXCEPT ![v] = Append(calls[v], d)]
      PROVE  FALSE
  <2>1. d \in Calls /\ d \notin Range(calls[v])
    BY DEF Free, InUse, Live
  <2>2. Range(Append(calls[v], d)) = Range(calls[v]) \cup {d}
    BY <1>1, <2>1, AppendFacts
  <2> QED
    BY <1>1, <1>4, <2>2 DEF Live
<1>5. ASSUME NEW v \in UAs, NEW offer \in BOOLEAN,
             sipsess_conn_handler(v, offer)
      PROVE  FALSE
  <2>1. PICK d \in Free :
          \/ calls' = calls
          \/ calls' = [calls EXCEPT ![v] = Append(calls[v], d)]
          \/ calls' = [calls EXCEPT ![v] = Unlink(Append(calls[v], d), d)]
    BY <1>5 DEF sipsess_conn_handler, IncomingEvent
  <2>2. Unlink(Append(calls[v], d), d) = calls[v]
    BY <1>1, AppendFacts DEF Free, InUse, Live
  <2> QED
    BY <1>1, <1>2, <1>4, <2>1, <2>2
<1>6. ASSUME NEW v \in UAs, NEW d \in Live(v), Api(v, d)
      PROVE  CloseCall(v, d)
  <2>1. ~call_set_current(v, d)
    <3> DEFINE s == Unlink(calls[v], d)
    <3>1. s \in Seq(Calls) /\ IsInjective(s) /\ Range(s) = Live(v) \ {d}
      BY <1>1, UnlinkFacts DEF Live
    <3>2. Range(Append(s, d)) = Range(s) \cup {d}
      BY <3>1, LiveFacts, AppendFacts
    <3> QED
      BY <1>1, <3>1, <3>2 DEF call_set_current, Live
  <2> QED
    BY <1>2, <1>6, <2>1 DEF Api, ua_answer, call_hold, ua_hangup, call_transfer
<1>7. ASSUME NEW v \in UAs, NEW d \in Live(v), Callback(v, d)
      PROVE  CloseCall(v, d) \/ call_destructor(v, d)
  <2>1. CASE mnat_handler(v, d)
    <3>1. \/ CloseCall(v, d)
          \/ calls' = calls
          \/ calls' = [calls EXCEPT ![v] = calls[v]]
          \/ /\ calls' = [calls EXCEPT ![v] = Unlink(calls[v], d)]
             /\ call' = [call EXCEPT ![d] = Zeroed]
      BY <2>1 DEF mnat_handler, IncomingEvent
    <3> QED
      BY <1>1, <1>2, <3>1 DEF call_destructor
  <2>2. CASE ~mnat_handler(v, d)
    BY <1>2, <1>7, <2>2
       DEF Callback, sipsess_progr_handler, sipsess_estab_handler,
           sipsess_offer_handler, sipsess_close_handler,
           sipsub_notify_handler, sipsub_close_handler, invite_timeout,
           stream_mnatconn_handler, audio_error_handler, stream_error_handler
  <2> QED
    BY <2>1, <2>2
<1>8. ASSUME NEW v \in UAs, ua_connect(v)
      PROVE  FALSE
  BY <1>4, <1>8 DEF ua_connect
<1>9. ~uag_reset_transp /\ \A v \in UAs : ~ua_hold_answer(v)
  BY <1>2 DEF uag_reset_transp, ua_hold_answer
<1> QED
  BY <1>3, <1>5, <1>6, <1>7, <1>8, <1>9 DEF Next

(* What resume_call() does to a call that stays.                           *)
LEMMA CloseTouches ==
  ASSUME IInv, NEW u \in UAs, NEW c \in Live(u), CloseCall(u, c),
         NEW d \in InUse \ {c}
  PROVE  \/ call'[d] = call[d]
         \/ /\ d \in Live(u)
            /\ call[d].hold /\ ~call'[d].hold
            /\ \A i, j \in DOMAIN calls[u] :
                 calls[u][i] = d /\ j > i =>
                   calls[u][j] = c \/ ~call[calls[u][j]].hold
<1> DEFINE l == calls[u]
           s == Unlink(l, c)
           k == [call EXCEPT ![c] = Zeroed]
           p == Position(l, c)
           x == Max(OnHold(s, k))
           h == HoldCall(acc[u].mnat, k[s[x]], FALSE)
<1>1. /\ c \in Calls /\ d \in Calls /\ call[d] \in CallObject
      /\ l \in Seq(Calls) /\ IsInjective(l) /\ c \in Range(l)
  BY LiveFacts, SettledSelf DEF Live
<1>2. /\ p \in 1 .. Len(l) /\ l[p] = c
      /\ s \in Seq(Calls) /\ Len(s) = Len(l) - 1
      /\ \A i \in 1 .. Len(l) - 1 : s[i] = IF i < p THEN l[i] ELSE l[i + 1]
  BY <1>1, UnlinkAt
<1>3. IsInjective(s) /\ Range(s) = Live(u) \ {c}
  BY <1>1, UnlinkFacts DEF Live
<1>4. k \in [Calls -> CallObject] /\ \A e \in Calls \ {c} : k[e] = call[e]
  BY <1>1, ZeroedType DEF IInv, TypeOK
<1>5. call' = IF OnHold(s, k) = {} THEN k ELSE [k EXCEPT ![s[x]] = h]
  BY DEF CloseCall, resume_call
<1> HIDE DEF s, k, p, x, h
<1>6. CASE OnHold(s, k) = {} \/ d # s[x]
  BY <1>1, <1>4, <1>5, <1>6
<1>7. CASE OnHold(s, k) # {} /\ d = s[x]
  <2>1. OnHold(s, k) \subseteq 1 .. Len(s) /\ Len(s) \in Nat
    BY <1>2 DEF OnHold
  <2>2. x \in OnHold(s, k) /\ \A i \in OnHold(s, k) : i <= x
    BY <1>7, <2>1, MaxOfPlaces DEF x
  <2>3. x \in 1 .. Len(s) /\ k[d].hold /\ k[d] = call[d]
    BY <1>1, <1>4, <1>7, <2>1, <2>2 DEF OnHold
  <2>4. d \in Live(u)
    BY <1>2, <1>3, <1>7, <2>3 DEF Range
  <2>5. call'[d] = HoldCall(acc[u].mnat, call[d], FALSE)
    BY <1>1, <1>4, <1>5, <1>7, <2>3 DEF h
  <2>6. CASE call[d].sess = "none"
    BY <2>5, <2>6 DEF HoldCall
  <2>7. CASE call[d].sess # "none"
    <3> DEFINE r == [call[d] EXCEPT !.hold = FALSE]
    <3>1. r \in CallObject /\ r.hold = FALSE
      BY <1>1 DEF CallObject
    <3>2. call'[d] = update_media(acc[u].mnat, r)
      BY <2>3, <2>5, <2>7 DEF HoldCall, call_modify
    <3>3. ~call'[d].hold
      BY <3>1, <3>2, UpdateMediaKeepsHold
    <3>4. ASSUME NEW i \in 1 .. Len(l), NEW j \in 1 .. Len(l),
                 l[i] = d, j > i, l[j] # c, call[l[j]].hold
          PROVE  FALSE
      <4>1. PICK y \in 1 .. Len(s) : s[y] = l[j] /\ y = IF j < p THEN j ELSE j - 1
        <5>1. j # p
          BY <1>2, <3>4
        <5>2. CASE j < p
          BY <1>2, <5>2
        <5>3. CASE j > p
          <6>1. j - 1 \in 1 .. Len(l) - 1 /\ ~(j - 1 < p) /\ (j - 1) + 1 = j
            BY <1>2, <5>3
          <6> QED
            BY <1>2, <5>3, <6>1
        <5> QED
          BY <1>2, <5>1, <5>2, <5>3
      <4>2. PICK z \in 1 .. Len(s) : s[z] = d /\ z = IF i < p THEN i ELSE i - 1
        <5>1. i # p
          BY <1>2, <3>4
        <5>2. CASE i < p
          BY <1>2, <3>4, <5>2
        <5>3. CASE i > p
          <6>1. i - 1 \in 1 .. Len(l) - 1 /\ ~(i - 1 < p) /\ (i - 1) + 1 = i
            BY <1>2, <5>3
          <6> QED
            BY <1>2, <3>4, <5>3, <6>1
        <5> QED
          BY <1>2, <5>1, <5>2, <5>3
      <4>3. z = x
        BY <1>2, <1>3, <1>7, <2>3, <4>2 DEF IsInjective
      <4>4. l[j] \in Calls /\ k[l[j]].hold
        BY <1>1, <1>4, <3>4
      <4>5. y \in OnHold(s, k)
        BY <1>2, <4>1, <4>4 DEF OnHold
      <4>6. y <= x
        BY <2>2, <4>5
      <4> QED
        BY <1>2, <3>4, <4>1, <4>2, <4>3, <4>6
    <3>5. DOMAIN l = 1 .. Len(l)
      BY <1>1
    <3> HIDE DEF l
    <3> QED
      BY <2>3, <2>4, <3>3, <3>4, <3>5 DEF l
  <2> QED
    BY <2>6, <2>7
<1> QED
  BY <1>6, <1>7

(* A call that ends disturbs no other, but for the one on hold nearest the *)
(* tail of its list that is resumed (CALL_EVENT_CLOSED and resume_call()   *)
(* of ept.c), however many calls and user agents there are.                *)
THEOREM EndsAlone == Spec => EndTouchesOnlyHeld
<1> DEFINE Alone ==
      \A u \in UAs : \A c \in Live(u) : c \notin Live(u)' =>
        \A d \in InUse \ {c} :
          \/ call'[d] = call[d]
          \/ /\ d \in Live(u)
             /\ call[d].hold /\ ~call'[d].hold
             /\ \A i, j \in DOMAIN calls[u] :
                  calls[u][i] = d /\ j > i =>
                    calls[u][j] = c \/ ~call[calls[u][j]].hold
<1>1. ASSUME IInv, Next PROVE Alone
  <2> SUFFICES ASSUME NEW u \in UAs, NEW c \in Live(u), c \notin Live(u)',
                      NEW d \in InUse \ {c}
               PROVE  \/ call'[d] = call[d]
                      \/ /\ d \in Live(u)
                         /\ call[d].hold /\ ~call'[d].hold
                         /\ \A i, j \in DOMAIN calls[u] :
                              calls[u][i] = d /\ j > i =>
                                calls[u][j] = c \/ ~call[calls[u][j]].hold
    OBVIOUS
  <2>1. CASE CloseCall(u, c)
    BY <1>1, <2>1, CloseTouches
  <2>2. CASE call_destructor(u, c)
    <3>1. c \in Calls /\ d \in Calls /\ call \in [Calls -> CallObject]
      BY <1>1, LiveFacts, SettledSelf DEF IInv, TypeOK
    <3> QED
      BY <2>2, <3>1 DEF call_destructor
  <2> QED
    BY <1>1, <2>1, <2>2, WhoLeaves
<1>2. IInv /\ [Next]_vars => [Alone]_vars
  BY <1>1
<1> QED
  BY <1>2, Invariant, PTL DEF Spec, EndTouchesOnlyHeld
=============================================================================

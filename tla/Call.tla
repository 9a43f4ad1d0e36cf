-------------------------------- MODULE Call --------------------------------
(***************************************************************************)
(* The calls of the user agents of one process: call.c and the part of     *)
(* ept.c that owns the call objects.  All of it runs in the callbacks of   *)
(* one event loop, so an action is one callback or one API call, from its  *)
(* entry to the return to the loop, including what the event handler of    *)
(* the user agent does inside it.                                          *)
(*                                                                         *)
(* The SIP session layer (sipsess, sipevent) is outside the repository.    *)
(* The field sess of a call says how far its session has come, and thereby *)
(* which of the callbacks that call.c registers can still arrive.          *)
(***************************************************************************)
EXTENDS Integers, FiniteSets, SequencesExt

CONSTANTS
  UAs,           \* user agents
  Calls,         \* call objects: the memory a call_alloc() can return
  LineMax,       \* CALL_LINENUM_MAX, lines are 1 .. LineMax-1
  MaxCalls,      \* config call.max_calls, 0 for no limit
  LocalTimeout,  \* config call.local_timeout is not 0
  MnatKinds,     \* kinds of media NAT traversal an account may name
  AnswerModes    \* answer modes an account may name

ASSUME CallAssumption ==
  /\ IsFiniteSet(Calls)
  /\ LineMax \in Nat
  /\ MaxCalls \in Nat
  /\ LocalTimeout \in BOOLEAN
  /\ MnatKinds \subseteq {"none", "gather", "ice"}
  /\ AnswerModes \subseteq {"manual", "early", "auto"}

VARIABLES
  calls,   \* calls[u]: ua->calls, the last element is the current call
  call,    \* call[c]: the contents of the call object c
  acc      \* acc[u]: the settings of the account of u that calls depend on

vars == <<calls, call, acc>>

CallState == {"IDLE", "INCOMING", "OUTGOING", "RINGING", "EARLY", "ESTABLISHED"}

(* none: no session.  calling: INVITE sent.  incoming: 180 or 183 sent.    *)
(* answered: 2xx sent, its ACK is awaited.  estab: the dialog is confirmed.*)
Session == {"none", "calling", "incoming", "answered", "estab"}

Account == [mnat : MnatKinds, answermode : AnswerModes]

CallObject ==
  [ state : CallState,
    line  : Nat,                            \* linenum
    sess  : Session,                        \* sess
    hold  : BOOLEAN,                        \* on_hold
    tmr   : BOOLEAN,                        \* tmr_inv is running
    wait  : BOOLEAN,                        \* mnat_wait
    conn  : {"no", "checks", "yes"},        \* connectivity of the media path
    rsdp  : BOOLEAN,                        \* the SDP of the peer is decoded
    raddr : BOOLEAN,                        \* the streams have its address
    media : BOOLEAN,                        \* the audio device is open
    sub   : BOOLEAN,                        \* REFER subscription
    seen  : {"none", "incoming", "ringing", "progress", "established"} ]
                                            \* last event the application got

Zeroed ==
  [ state |-> "IDLE", line |-> 0, sess |-> "none", hold |-> FALSE,
    tmr |-> FALSE, wait |-> FALSE, conn |-> "no", rsdp |-> FALSE,
    raddr |-> FALSE, media |-> FALSE, sub |-> FALSE, seen |-> "none" ]

Live(u) == Range(calls[u])
InUse   == UNION {Live(u) : u \in UAs}
Free    == Calls \ InUse

-----------------------------------------------------------------------------
(* The list of calls and their line numbers.                               *)

Position(s, c) == CHOOSE i \in DOMAIN s : s[i] = c
Unlink(s, c)   == RemoveAt(s, Position(s, c))

call_find_linenum(u, n) == {c \in Live(u) : call[c].line = n}

FreeLines(u) == {n \in 1 .. LineMax - 1 : call_find_linenum(u, n) = {}}

(* Faulty: number the calls by how many there are.                         *)
assign_linenum_by_count(u) == Cardinality(Live(u)) + 1

assign_linenum(u) == CHOOSE n \in FreeLines(u) : \A m \in FreeLines(u) : n <= m

uag_call_count == Cardinality(InUse)

-----------------------------------------------------------------------------
(* The media of one call object r, on an account whose media NAT is m.     *)

stream_is_ready(m, r) == r.raddr /\ (m = "ice" => r.conn = "yes")

call_stream_start(m, r) == [r EXCEPT !.media = @ \/ stream_is_ready(m, r)]

call_stream_stop(r) == [r EXCEPT !.media = FALSE, !.tmr = FALSE]

(* Giving the streams the address of the peer starts the ICE checks, and   *)
(* setting a codec on a stream that is ready opens the audio device.       *)
update_media(m, r) ==
  IF ~r.rsdp THEN r
  ELSE call_stream_start(m,
         [r EXCEPT !.raddr = TRUE,
                   !.conn = IF m = "ice" /\ @ = "no" THEN "checks" ELSE @])

(* sipsess_modify() fails on a session that is not up, but update_media()  *)
(* runs and its result replaces the error.                                 *)
call_modify(m, r) == update_media(m, r)

HoldCall(m, r, hold) ==
  IF r.sess = "none" \/ r.hold = hold THEN r
  ELSE call_modify(m, [r EXCEPT !.hold = hold])

(* The outcomes of call_answer() in an unanswered call: an error of        *)
(* update_media() or of the session layer leaves the call unanswered.      *)
AnswerCall(m, r) ==
  LET q == update_media(m, r)
  IN {q} \cup {[q EXCEPT !.sess = "answered"]}

-----------------------------------------------------------------------------
(* How a call object ends.                                                 *)

OnHold(s, k) == {i \in DOMAIN s : k[s[i]].hold}

(* Faulty: search the list from its head.                                  *)
resume_call_from_head(m, s, k) ==
  IF OnHold(s, k) = {} THEN k
  ELSE [k EXCEPT ![s[Min(OnHold(s, k))]] = HoldCall(m, @, FALSE)]

(* Take the call nearest the tail of s that is on hold off hold.           *)
resume_call(m, s, k) ==
  IF OnHold(s, k) = {} THEN k
  ELSE [k EXCEPT ![s[Max(OnHold(s, k))]] = HoldCall(m, @, FALSE)]

(* The last reference is dropped: no callback can reach the object again.  *)
call_destructor(u, c) ==
  /\ calls' = [calls EXCEPT ![u] = Unlink(@, c)]
  /\ call' = [call EXCEPT ![c] = Zeroed]

(* CALL_EVENT_CLOSED: the application is told, the object is freed and the *)
(* user agent resumes a call on hold.                                      *)
CloseCall(u, c) ==
  /\ calls' = [calls EXCEPT ![u] = Unlink(@, c)]
  /\ call' = resume_call(acc[u].mnat, Unlink(calls[u], c),
                         [call EXCEPT ![c] = Zeroed])

(* CALL_EVENT_INCOMING for the call c with contents r, linked in s: the    *)
(* contact list may block the peer, else the answer mode decides.          *)
IncomingEvent(u, c, s, r) ==
  \/ /\ calls' = [calls EXCEPT ![u] = Unlink(s, c)]
     /\ call' = [call EXCEPT ![c] = Zeroed]
  \/ /\ calls' = [calls EXCEPT ![u] = s]
     /\ \/ /\ acc[u].answermode = "manual"
           /\ call' = [call EXCEPT ![c] = [r EXCEPT !.seen = "incoming"]]
        \/ /\ acc[u].answermode = "early"
           /\ LET q == [r EXCEPT !.tmr = FALSE]
              IN \/ call' = [call EXCEPT ![c] = q]
                 \/ call' = [call EXCEPT ![c] =
                                call_stream_start(acc[u].mnat, q)]
        \/ /\ acc[u].answermode = "auto"
           /\ \E q \in AnswerCall(acc[u].mnat, r) :
                call' = [call EXCEPT ![c] = q]

-----------------------------------------------------------------------------
(* Calls made, answered, held and ended by the application.                *)

NewCall(u) == [Zeroed EXCEPT !.line = assign_linenum(u), !.wait = TRUE]

(* Without media NAT the INVITE goes out at once; a failure frees the call *)
(* again.  With media NAT it waits for mnat_handler().                     *)
call_connect(u) ==
  [NewCall(u) EXCEPT
     !.state = "OUTGOING",
     !.sess = IF acc[u].mnat = "none" THEN "calling" ELSE "none"]

ua_connect(u) ==
  /\ FreeLines(u) # {}
  /\ \E c \in Free :
       /\ calls' = [calls EXCEPT ![u] = Append(@, c)]
       /\ call' = [call EXCEPT ![c] = call_connect(u)]

ua_answer(u, c) ==
  /\ call[c].state = "INCOMING"
  /\ \E q \in AnswerCall(acc[u].mnat, call[c]) : call' = [call EXCEPT ![c] = q]
  /\ UNCHANGED calls

(* The previous call is put on hold and the current call is answered; an   *)
(* error of the hold returns early.                                        *)
ua_hold_answer(u) ==
  LET s == calls[u]
      n == Len(s)
      k == IF n < 2 THEN call
           ELSE [call EXCEPT ![s[n-1]] = HoldCall(acc[u].mnat, @, TRUE)]
  IN /\ n > 0
     /\ \/ /\ n > 1
           /\ call' = k
        \/ /\ n > 1 => call[s[n-1]].sess # "none"
           /\ k[s[n]].state = "INCOMING"
           /\ \E q \in AnswerCall(acc[u].mnat, k[s[n]]) :
                call' = [k EXCEPT ![s[n]] = q]
     /\ UNCHANGED calls

call_hold(u, c, hold) ==
  /\ call' = [call EXCEPT ![c] = HoldCall(acc[u].mnat, @, hold)]
  /\ UNCHANGED calls

(* Faulty: append the call without taking it out of the list first.        *)
call_set_current_no_unlink(u, c) ==
  /\ calls' = [calls EXCEPT ![u] = Append(@, c)]
  /\ UNCHANGED call

call_set_current(u, c) ==
  /\ calls' = [calls EXCEPT ![u] = Append(Unlink(@, c), c)]
  /\ UNCHANGED call

ua_hangup(u, c) == CloseCall(u, c)

(* A REFER needs a confirmed dialog; a second one replaces the first.      *)
call_transfer(u, c) ==
  /\ \/ /\ call[c].sess = "estab"
        /\ call' = [call EXCEPT ![c].sub = TRUE]
     \/ call' = [call EXCEPT ![c].sub = FALSE]
  /\ UNCHANGED calls

(* The network changed: every call of every user agent is modified.        *)
uag_reset_transp ==
  /\ call' = [c \in Calls |->
                IF \E u \in UAs : c \in Live(u)
                THEN call_modify(
                       acc[CHOOSE u \in UAs : c \in Live(u)].mnat, call[c])
                ELSE call[c]]
  /\ UNCHANGED calls

-----------------------------------------------------------------------------
(* Callbacks of the SIP session.                                           *)

(* The new call object: a 180 or 183 goes out and the local timer starts.  *)
call_accept(u, offer) ==
  [NewCall(u) EXCEPT !.state = "INCOMING",
                     !.sess = "incoming",
                     !.rsdp = offer,
                     !.tmr = LocalTimeout]

(* Faulty: the limit compared with the calls there are, the new one left   *)
(* out.                                                                    *)
sipsess_conn_handler_off_by_one(u, offer) ==
  /\ MaxCalls > 0 => uag_call_count <= MaxCalls
  /\ FreeLines(u) # {}
  /\ \E c \in Free :
       \/ /\ offer
          /\ call' = resume_call(acc[u].mnat, calls[u], call)
          /\ UNCHANGED calls
       \/ LET s == Append(calls[u], c)
              r == call_accept(u, offer)
          IN IF acc[u].mnat = "none" THEN IncomingEvent(u, c, s, r)
             ELSE /\ calls' = [calls EXCEPT ![u] = s]
                  /\ call' = [call EXCEPT ![c] = r]

(* A new INVITE, with an SDP offer or without.  It is refused when the     *)
(* limit on calls is reached (486) or no line is free (500).  An offer     *)
(* with the wrong address family or without a common codec is refused with *)
(* 488 after the call object was made: it is closed again at once.         *)
sipsess_conn_handler(u, offer) ==
  /\ MaxCalls > 0 => uag_call_count + 1 <= MaxCalls
  /\ FreeLines(u) # {}
  /\ \E c \in Free :
       \/ /\ offer
          /\ call' = resume_call(acc[u].mnat, calls[u], call)
          /\ UNCHANGED calls
       \/ LET s == Append(calls[u], c)
              r == call_accept(u, offer)
          IN IF acc[u].mnat = "none" THEN IncomingEvent(u, c, s, r)
             ELSE /\ calls' = [calls EXCEPT ![u] = s]
                  /\ call' = [call EXCEPT ![c] = r]

(* 180 and 183 have a state of their own, other 1xx have none.             *)
Provisional == {180, 182, 183}

(* A provisional response above 100, with SDP or without: the media is     *)
(* stopped, restarted when there is SDP, and updated after the event.      *)
sipsess_progr_handler(u, c, scode, sdp) ==
  LET m == acc[u].mnat
      r == [call_stream_stop(call[c]) EXCEPT
              !.state = CASE scode = 180 -> "RINGING"
                          [] scode = 183 -> "EARLY"
                          [] OTHER       -> @,
              !.rsdp = @ \/ sdp,
              !.seen = IF sdp THEN "progress" ELSE "ringing"]
  IN /\ call[c].sess = "calling"
     /\ call' = [call EXCEPT ![c] =
                   IF sdp THEN update_media(m, call_stream_start(m, r)) ELSE r]
     /\ UNCHANGED calls

(* Faulty: set_state() forgotten, and the timer not cancelled.             *)
sipsess_estab_handler_no_state(u, c) ==
  LET m == acc[u].mnat
      q == IF call[c].sess = "answered" /\ call[c].rsdp THEN call[c]
           ELSE update_media(m, [call[c] EXCEPT !.rsdp = TRUE])
  IN /\ call[c].sess \in {"calling", "answered", "estab"}
     /\ \/ /\ call[c].state = "ESTABLISHED"
           /\ UNCHANGED call
        \/ /\ call[c].state # "ESTABLISHED"
           /\ call' = [call EXCEPT ![c] =
                [call_stream_start(m, q) EXCEPT !.sess = "estab",
                                                !.tmr = FALSE,
                                                !.seen = "established"]]
     /\ UNCHANGED calls

sipsess_estab_handler_no_cancel(u, c) ==
  LET m == acc[u].mnat
      q == IF call[c].sess = "answered" /\ call[c].rsdp THEN call[c]
           ELSE update_media(m, [call[c] EXCEPT !.rsdp = TRUE])
  IN /\ call[c].sess \in {"calling", "answered", "estab"}
     /\ \/ /\ call[c].state = "ESTABLISHED"
           /\ UNCHANGED call
        \/ /\ call[c].state # "ESTABLISHED"
           /\ call' = [call EXCEPT ![c] =
                [call_stream_start(m, q) EXCEPT !.state = "ESTABLISHED",
                                                !.sess = "estab",
                                                !.seen = "established"]]
     /\ UNCHANGED calls

(* The 2xx of an outgoing call or the ACK of an incoming one, with the SDP *)
(* answer that comes with it; a repetition finds the state ESTABLISHED.    *)
sipsess_estab_handler(u, c) ==
  LET m == acc[u].mnat
      q == IF call[c].sess = "answered" /\ call[c].rsdp THEN call[c]
           ELSE update_media(m, [call[c] EXCEPT !.rsdp = TRUE])
  IN /\ call[c].sess \in {"calling", "answered", "estab"}
     /\ \/ /\ call[c].state = "ESTABLISHED"
           /\ UNCHANGED call
        \/ /\ call[c].state # "ESTABLISHED"
           /\ call' = [call EXCEPT ![c] =
                [call_stream_start(m, q) EXCEPT !.state = "ESTABLISHED",
                                                !.sess = "estab",
                                                !.tmr = FALSE,
                                                !.seen = "established"]]
     /\ UNCHANGED calls

(* A re-INVITE of the peer.                                                *)
sipsess_offer_handler(u, c) ==
  /\ call[c].sess = "estab"
  /\ call' = [call EXCEPT ![c] =
                update_media(acc[u].mnat, [@ EXCEPT !.rsdp = TRUE])]
  /\ UNCHANGED calls

(* BYE, CANCEL, a final error response, a lost transaction.                *)
sipsess_close_handler(u, c) ==
  /\ call[c].sess # "none"
  /\ CloseCall(u, c)

(* The progress of a REFER this side sent: the transfer succeeded or not.  *)
sipsub_notify_handler(u, c) ==
  /\ call[c].sub
  /\ CloseCall(u, c) \/ call_destructor(u, c)

sipsub_close_handler(u, c) ==
  /\ call[c].sub
  /\ \/ call_destructor(u, c)
     \/ /\ call' = [call EXCEPT ![c].sub = FALSE]
        /\ UNCHANGED calls

-----------------------------------------------------------------------------
(* Timers, media NAT and media errors.                                     *)

(* Faulty: the timeout only disarms the timer.                             *)
invite_timeout_no_event(u, c) ==
  /\ call[c].tmr
  /\ call' = [call EXCEPT ![c].tmr = FALSE]
  /\ UNCHANGED calls

invite_timeout(u, c) ==
  /\ call[c].tmr
  /\ CloseCall(u, c)

(* Faulty: the event of an incoming call forgotten, or sent in any state.  *)
mnat_handler_no_event(u, c) ==
  LET r == [call[c] EXCEPT !.wait = FALSE]
  IN /\ acc[u].mnat # "none"
     /\ \/ /\ call[c].wait \/ call[c].conn = "checks"
           /\ CloseCall(u, c)
        \/ /\ ~call[c].wait /\ call[c].conn = "yes"
           /\ call' = [call EXCEPT ![c] = call_modify(acc[u].mnat, @)]
           /\ UNCHANGED calls
        \/ /\ call[c].wait
           /\ CASE r.state = "OUTGOING" ->
                     /\ \E s \in {"none", "calling"} :
                          call' = [call EXCEPT ![c] = [r EXCEPT !.sess = s]]
                     /\ UNCHANGED calls
                [] r.state = "INCOMING" -> UNCHANGED calls /\ call' = [call EXCEPT ![c] = r]
                [] OTHER -> /\ call' = [call EXCEPT ![c] = r]
                            /\ UNCHANGED calls

mnat_handler_any_state(u, c) ==
  LET r == [call[c] EXCEPT !.wait = FALSE]
  IN /\ acc[u].mnat # "none"
     /\ \/ /\ call[c].wait \/ call[c].conn = "checks"
           /\ CloseCall(u, c)
        \/ /\ ~call[c].wait /\ call[c].conn = "yes"
           /\ call' = [call EXCEPT ![c] = call_modify(acc[u].mnat, @)]
           /\ UNCHANGED calls
        \/ /\ call[c].wait
           /\ CASE r.state = "OUTGOING" ->
                     /\ \E s \in {"none", "calling"} :
                          call' = [call EXCEPT ![c] = [r EXCEPT !.sess = s]]
                     /\ UNCHANGED calls
                [] OTHER -> IncomingEvent(u, c, calls[u], r)

(* Gathering ended, or the ICE checks did.  The result of the INVITE sent  *)
(* here is ignored.                                                        *)
mnat_handler(u, c) ==
  LET r == [call[c] EXCEPT !.wait = FALSE]
  IN /\ acc[u].mnat # "none"
     /\ \/ /\ call[c].wait \/ call[c].conn = "checks"
           /\ CloseCall(u, c)
        \/ /\ ~call[c].wait /\ call[c].conn = "yes"
           /\ call' = [call EXCEPT ![c] = call_modify(acc[u].mnat, @)]
           /\ UNCHANGED calls
        \/ /\ call[c].wait
           /\ CASE r.state = "OUTGOING" ->
                     /\ \E s \in {"none", "calling"} :
                          call' = [call EXCEPT ![c] = [r EXCEPT !.sess = s]]
                     /\ UNCHANGED calls
                [] r.state = "INCOMING" -> IncomingEvent(u, c, calls[u], r)
                [] OTHER -> /\ call' = [call EXCEPT ![c] = r]
                            /\ UNCHANGED calls

(* The ICE checks found a path: the stream is ready, the audio starts.     *)
stream_mnatconn_handler(u, c) ==
  /\ call[c].conn = "checks"
  /\ call' = [call EXCEPT ![c] =
                call_stream_start(acc[u].mnat, [@ EXCEPT !.conn = "yes"])]
  /\ UNCHANGED calls

(* A device or the media encryption failed.                                *)
audio_error_handler(u, c) ==
  /\ call[c].media
  /\ CloseCall(u, c)

(* No RTP for too long, a timer that is started with ESTABLISHED.          *)
stream_error_handler(u, c) ==
  /\ call[c].state = "ESTABLISHED"
  /\ CloseCall(u, c)

-----------------------------------------------------------------------------

Init ==
  /\ calls = [u \in UAs |-> <<>>]
  /\ call = [c \in Calls |-> Zeroed]
  /\ acc \in [UAs -> Account]

(* What the application does.                                              *)
Api(u, c) ==
  \/ ua_answer(u, c)
  \/ \E hold \in BOOLEAN : call_hold(u, c, hold)
  \/ call_set_current(u, c)
  \/ ua_hangup(u, c)
  \/ call_transfer(u, c)

(* What the SIP session layer, the timers and the media do.                *)
Callback(u, c) ==
  \/ \E scode \in Provisional, sdp \in BOOLEAN :
       sipsess_progr_handler(u, c, scode, sdp)
  \/ sipsess_estab_handler(u, c)
  \/ sipsess_offer_handler(u, c)
  \/ sipsess_close_handler(u, c)
  \/ sipsub_notify_handler(u, c)
  \/ sipsub_close_handler(u, c)
  \/ invite_timeout(u, c)
  \/ mnat_handler(u, c)
  \/ stream_mnatconn_handler(u, c)
  \/ audio_error_handler(u, c)
  \/ stream_error_handler(u, c)

Next ==
  /\ \/ \E u \in UAs :
          \/ ua_connect(u)
          \/ ua_hold_answer(u)
          \/ \E offer \in BOOLEAN : sipsess_conn_handler(u, offer)
          \/ \E c \in Live(u) : Api(u, c) \/ Callback(u, c)
     \/ uag_reset_transp
  /\ UNCHANGED acc

(* The local timer fires, and the SIP stack ends every INVITE transaction: *)
(* with a final response or an ACK, or by its own timers.                  *)
Fairness ==
  \A u \in UAs, c \in Calls :
    /\ WF_vars(c \in Live(u) /\ invite_timeout(u, c) /\ UNCHANGED acc)
    /\ WF_vars(/\ c \in Live(u)
               /\ call[c].sess \in {"calling", "answered"}
               /\ sipsess_estab_handler(u, c) \/ sipsess_close_handler(u, c)
               /\ UNCHANGED acc)

Spec == Init /\ [][Next]_vars
FairSpec == Spec /\ Fairness

-----------------------------------------------------------------------------
(* Properties.                                                             *)

(* Every variable has its type, a call object is in at most one list, at   *)
(* one place, and one that is in no list is zeroed (what mem_zalloc() in   *)
(* call_alloc() and call_destructor() establish).                          *)
TypeOK ==
  /\ calls \in [UAs -> Seq(Calls)]
  /\ call \in [Calls -> CallObject]
  /\ acc \in [UAs -> Account]
  /\ \A u \in UAs : IsInjective(calls[u])
  /\ \A u, v \in UAs : u # v => Live(u) \cap Live(v) = {}
  /\ \A c \in Free : call[c] = Zeroed

(* Two calls of one user agent never have the same line number, whatever   *)
(* was opened and closed before, so that a user who names a line means one *)
(* call (assign_linenum() and call_find_linenum() of call.c).              *)
LineNumbersUnique ==
  \A u \in UAs : \A c, d \in Live(u) :
    /\ call[c].line \in 1 .. LineMax - 1
    /\ call[c].line = call[d].line => c = d

(* The session, the state of the call and what the application was told    *)
(* agree on whether the call is connected, whichever of the two directions *)
(* it was set up in and however media NAT, holds and early media came in   *)
(* between (set_state() and call_event_handler() calls of call.c).         *)
ConnectedAgreement ==
  \A c \in InUse :
    /\ call[c].state = "ESTABLISHED" <=> call[c].sess = "estab"
    /\ call[c].state = "ESTABLISHED" <=> call[c].seen = "established"

(* The timer for incoming calls runs only while the call is not connected: *)
(* it can never close a call people are talking on (tmr_inv of call.c).    *)
TimerOnlyUnanswered ==
  \A c \in InUse : call[c].tmr =>
    call[c].state = "INCOMING" /\ call[c].sess \in {"incoming", "answered"}

(* In manual answer mode nobody else answers: every incoming call whose    *)
(* media NAT is gathered was announced to the application, be it at once   *)
(* in call_accept() or later in mnat_handler().                            *)
IncomingAnnounced ==
  \A u \in UAs : \A c \in Live(u) :
    /\ acc[u].answermode = "manual"
    /\ call[c].state = "INCOMING"
    /\ acc[u].mnat = "none" \/ ~call[c].wait
    => call[c].seen = "incoming"

(* However many calls the user makes, incoming ones never exceed the       *)
(* configured limit (the check in sipsess_conn_handler() of ept.c).        *)
IncomingWithinMax ==
  MaxCalls > 0 =>
    Cardinality({c \in InUse : call[c].state = "INCOMING"}) <= MaxCalls

(* A call that ends disturbs no other: of the calls that stay, at most the *)
(* one on hold nearest the tail of the same list changes, and that only by *)
(* coming off hold (resume_call() of ept.c).                               *)
EndTouchesOnlyHeld ==
  [][ \A u \in UAs : \A c \in Live(u) : c \notin Live(u)' =>
        \A d \in InUse \ {c} :
          \/ call'[d] = call[d]
          \/ /\ d \in Live(u)
             /\ call[d].hold /\ ~call'[d].hold
             /\ \A i, j \in DOMAIN calls[u] :
                  calls[u][i] = d /\ j > i =>
                    calls[u][j] = c \/ ~call[calls[u][j]].hold ]_vars

(* The order of the events an application gets for each call object.       *)
View == INSTANCE CallView WITH view <- [c \in Calls |-> call[c].seen]
ViewSpec == View!Spec

(* A call being set up is connected or freed in the end: an unanswered one *)
(* by the local timer, one with a transaction under way by the SIP stack.  *)
(* (Early answering stops the local timer for good: see the README.)       *)
SetupSettles ==
  \A u \in UAs, c \in Calls :
    (/\ c \in Live(u)
     /\ acc[u].answermode # "early"
     /\ call[c].sess \in {"calling", "incoming", "answered"})
      ~> call[c].sess \notin {"calling", "incoming", "answered"}
=============================================================================

----------------------------- MODULE StreamLife -----------------------------
(***************************************************************************)
(* One audio stream of a call from its set-up to its end (stream.c and the *)
(* functions of call.c that drive it): when it is ready and who then       *)
(* starts the audio device, with media NAT traversal (ICE) and encryption  *)
(* (keys in the SDP, or a DTLS handshake); holds; and the RTP timeout.     *)
(***************************************************************************)
EXTENDS Integers

CONSTANTS
  RtpTimeout,  \* rtp_timeout in seconds, 0: off
  Hour         \* 3600 in the code: a larger difference is a jump of the clock

ASSUME StreamLifeAssumption == RtpTimeout \in Nat /\ Hour \in Nat

VARIABLES
  kind,   \* mnat: "none", "ice"; menc: "none", "sdes", "dtls" (of the account)
  link,   \* what is set up: raddr, connected, secure, failed (ICE found no
          \* path), dtls (the handshake: waiting for the peer to connect or
          \* for another try, running, without keys, done), mute (ICE came
          \* last, with no usable key in the SDP)
  stage,  \* rtcp (started), audio (device open), call (setup, estab, closed)
  dir,    \* hold (by the user), peer (the peer holds)
  tmo     \* tmr (tmr_rtp runs), due (it has run out), age (seconds since
          \* ts_last, Unheard: ts_last is 0), err (errors reported)

slVars == <<kind, link, stage, dir, tmo>>

Unheard == -1

stream_is_ready(l) ==
  /\ kind.mnat = "ice" => l.connected
  /\ kind.menc = "dtls" => l.secure
  /\ l.raddr

mnat_ready(l) == kind.mnat = "ice" => l.connected

SDP_SENDRECV == ~dir.hold /\ ~dir.peer

(* stream_start_mediaenc(): a key of the SDP is used at once and reported, *)
(* and nothing is reported without one; a handshake is started unless it   *)
(* was.  Without good: no usable a=crypto in the SDP; the peer is to       *)
(* connect, or the SDP has no a=setup, or the handshake did not start.     *)
MediaencStarted(l, good) ==
  CASE ~l.raddr -> l
    [] l.raddr /\ kind.menc = "sdes" -> [l EXCEPT !.secure = @ \/ good]
    [] l.raddr /\ kind.menc = "dtls" /\ l.dtls \in {"idle", "waiting"} ->
         [l EXCEPT !.dtls = IF good THEN "running" ELSE "waiting"]
    [] OTHER -> l

(* Start RTCP if the stream is ready, and audio, which starts RTCP too:    *)
(* MENC_EVENT_SECURE does not ask whether the stream is ready.             *)
Started(l, audio) ==
  stage' = [stage EXCEPT !.rtcp = @ \/ stream_is_ready(l) \/ audio,
                     !.audio = @ \/ audio]

InCall == stage.call # "closed"

Checking ==
  InCall /\ kind.mnat = "ice" /\ link.raddr /\ ~link.connected /\ ~link.failed

Closed == stage' = [stage EXCEPT !.call = "closed", !.audio = FALSE]

-----------------------------------------------------------------------------
(* Setting up.                                                             *)

(* The SDP of the peer: update_media(), stream_update(), update_audio().   *)
update_media(peer, good) ==
  /\ InCall
  /\ LET l == [link EXCEPT !.raddr = TRUE]
     IN /\ link' = IF mnat_ready(l) THEN MediaencStarted(l, good) ELSE l
        /\ Started(l, stream_is_ready(l))
  /\ dir' = [dir EXCEPT !.peer = peer]
  /\ UNCHANGED <<kind, tmo>>

(* Faulty: the audio device is opened whether the stream is ready or not.  *)
Established_always ==
  /\ stage.call = "setup"
  /\ stage' = [stage EXCEPT !.call = "estab", !.audio = TRUE]
  /\ tmo' = IF RtpTimeout = 0 THEN tmo
            ELSE [tmo EXCEPT !.tmr = TRUE, !.due = FALSE, !.age = 0]
  /\ UNCHANGED <<kind, link, dir>>

(* sipsess_estab_handler(): start what is ready, watch the RTP.            *)
Established ==
  /\ stage.call = "setup"
  /\ stage' = [stage EXCEPT !.call = "estab", !.audio = @ \/ stream_is_ready(link)]
  /\ tmo' = IF RtpTimeout = 0 THEN tmo
            ELSE [tmo EXCEPT !.tmr = TRUE, !.due = FALSE, !.age = 0]
  /\ UNCHANGED <<kind, link, dir>>

(* Faulty: encryption is not started when the path is known.               *)
mnat_connected_handler_no_menc ==
  /\ Checking
  /\ LET l == [link EXCEPT !.connected = TRUE] IN
     link' = l /\ Started(l, kind.menc = "none" /\ stream_is_ready(l))
  /\ UNCHANGED <<kind, dir, tmo>>

(* Without encryption start what is ready; else encryption is started, and *)
(* audio only if it reports a key of the SDP: without one an established   *)
(* call stays mute, although RTCP was started.                             *)
stream_mnatconn_handler(l, good) ==
  /\ Started(l, IF kind.menc = "none" THEN stream_is_ready(l)
                ELSE kind.menc = "sdes" /\ good)
  /\ link' = [MediaencStarted(l, good) EXCEPT !.mute =
                kind.menc = "sdes" /\ ~good /\ stage.call = "estab"]

(* ICE found a path.                                                       *)
mnat_connected_handler ==
  /\ Checking
  /\ \E good \in BOOLEAN :
       stream_mnatconn_handler([link EXCEPT !.connected = TRUE], good)
  /\ UNCHANGED <<kind, dir, tmo>>

(* The checks of ICE fail, which is only logged.                           *)
ConncheckFails ==
  /\ Checking
  /\ link' = [link EXCEPT !.failed = TRUE]
  /\ UNCHANGED <<kind, stage, dir, tmo>>

(* dtls_conn_handler(): the peer connects, as it should; if it does not,   *)
(* nothing ends the waiting.                                               *)
PeerConnects ==
  /\ InCall /\ link.dtls = "waiting"
  /\ link' = [link EXCEPT !.dtls = "running"]
  /\ UNCHANGED <<kind, stage, dir, tmo>>

(* dtls_estab_handler() gets no keys from the handshake, which it only     *)
(* logs, or does not take them.                                            *)
NoKeys ==
  /\ InCall /\ link.dtls = "running"
  /\ link' = [link EXCEPT !.dtls = "nokeys"]
  /\ UNCHANGED <<kind, stage, dir, tmo>>

(* Encryption cannot be started, or the handshake fails: the call is closed*)
(* with an error.                                                          *)
SetupFails ==
  /\ InCall
  /\ \/ Checking /\ kind.menc # "none"
     \/ link.dtls = "running"
  /\ Closed
  /\ tmo' = [tmo EXCEPT !.tmr = FALSE, !.due = FALSE]
  /\ UNCHANGED <<kind, link, dir>>

(* MENC_EVENT_SECURE of DTLS: menc_event_handler().                        *)
menc_event_handler ==
  /\ InCall /\ link.dtls = "running"
  /\ link' = [link EXCEPT !.dtls = "done", !.secure = TRUE]
  /\ Started(link', TRUE)
  /\ UNCHANGED <<kind, dir, tmo>>

call_hold ==
  /\ stage.call = "estab"
  /\ dir' = [dir EXCEPT !.hold = ~@]
  /\ UNCHANGED <<kind, link, stage, tmo>>

(* The user or the peer ends the call, or the connection of a handshake    *)
(* without keys is closed.                                                 *)
HangUp ==
  /\ InCall
  /\ Closed
  /\ tmo' = [tmo EXCEPT !.tmr = FALSE, !.due = FALSE]
  /\ UNCHANGED <<kind, link, dir>>

-----------------------------------------------------------------------------
(* The RTP timeout.                                                        *)

(* RTP or RTCP arrives, in whatever direction the stream is.               *)
MediaArrives ==
  /\ stage.call = "estab" /\ tmo.age # 0
  /\ tmo' = [tmo EXCEPT !.age = 0]
  /\ UNCHANGED <<kind, link, stage, dir>>

(* A second passes; the timer that runs every second runs out.  Bound: age *)
(* is not counted further than it matters.                                 *)
Second ==
  /\ tmo.tmr /\ ~tmo.due
  /\ tmo' = [tmo EXCEPT !.due = TRUE,
               !.age = IF @ \in 0..RtpTimeout THEN @ + 1 ELSE @]
  /\ UNCHANGED <<kind, link, stage, dir>>

(* The computer was asleep, or its clock was set.                          *)
ClockJumps ==
  /\ tmo.tmr /\ tmo.age # Unheard
  /\ tmo' = [tmo EXCEPT !.age = Hour + 1]
  /\ UNCHANGED <<kind, link, stage, dir>>

(* Faulty: the timer is started again only if the direction is sendrecv.   *)
check_rtp_handler_no_restart ==
  /\ tmo.due
  /\ LET jumped == SDP_SENDRECV /\ tmo.age > Hour
         silent == SDP_SENDRECV /\ tmo.age \in RtpTimeout+1..Hour
     IN IF silent
        THEN /\ Closed
             /\ tmo' = [tmo EXCEPT !.tmr = FALSE, !.due = FALSE, !.err = @ + 1]
        ELSE /\ tmo' = [tmo EXCEPT !.due = FALSE, !.tmr = SDP_SENDRECV,
                          !.age = IF jumped THEN Unheard ELSE @]
             /\ UNCHANGED stage
  /\ UNCHANGED <<kind, link, dir>>

(* Faulty: the timer goes on after the timeout was reported.               *)
check_rtp_handler_again ==
  /\ tmo.due
  /\ LET jumped == SDP_SENDRECV /\ tmo.age > Hour
         silent == SDP_SENDRECV /\ tmo.age \in RtpTimeout+1..Hour
     IN IF silent
        THEN /\ Closed
             /\ tmo' = [tmo EXCEPT !.due = FALSE, !.err = @ + 1]
        ELSE /\ tmo' = [tmo EXCEPT !.due = FALSE,
                          !.age = IF jumped THEN Unheard ELSE @]
             /\ UNCHANGED stage
  /\ UNCHANGED <<kind, link, dir>>

(* check_rtp_handler() and, on a timeout, stream_close() with the error    *)
(* handler of the call.                                                    *)
check_rtp_handler ==
  /\ tmo.due
  /\ LET jumped == SDP_SENDRECV /\ tmo.age > Hour
         silent == SDP_SENDRECV /\ tmo.age \in RtpTimeout+1..Hour
     IN IF silent
        THEN /\ Closed
             /\ tmo' = [tmo EXCEPT !.tmr = FALSE, !.due = FALSE, !.err = @ + 1]
        ELSE /\ tmo' = [tmo EXCEPT !.due = FALSE,
                          !.age = IF jumped THEN Unheard ELSE @]
             /\ UNCHANGED stage
  /\ UNCHANGED <<kind, link, dir>>

-----------------------------------------------------------------------------
SlInit ==
  /\ kind \in [mnat : {"none", "ice"}, menc : {"none", "sdes", "dtls"}]
  /\ link = [raddr |-> FALSE, connected |-> FALSE, secure |-> FALSE,
             failed |-> FALSE, dtls |-> "idle", mute |-> FALSE]
  /\ stage = [rtcp |-> FALSE, audio |-> FALSE, call |-> "setup"]
  /\ dir = [hold |-> FALSE, peer |-> FALSE]
  /\ tmo = [tmr |-> FALSE, due |-> FALSE, age |-> Unheard, err |-> 0]

(* What ends by itself: the checks of ICE, and a handshake that runs.  A   *)
(* peer that is to connect need never do it.                               *)
Progress ==
  \/ mnat_connected_handler \/ ConncheckFails
  \/ menc_event_handler \/ SetupFails \/ NoKeys

SlNext ==
  \/ \E peer, good \in BOOLEAN : update_media(peer, good)
  \/ Established \/ Progress \/ PeerConnects \/ call_hold \/ HangUp
  \/ MediaArrives \/ Second \/ ClockJumps \/ check_rtp_handler

SlFairness == WF_slVars(Progress) /\ WF_slVars(Second \/ check_rtp_handler)

SlSpec == SlInit /\ [][SlNext]_slVars
SlFairSpec == SlSpec /\ SlFairness

-----------------------------------------------------------------------------
(* Properties.                                                             *)

SlTypeOK ==
  /\ kind \in [mnat : {"none", "ice"}, menc : {"none", "sdes", "dtls"}]
  /\ link \in [raddr : BOOLEAN, connected : BOOLEAN, secure : BOOLEAN, failed : BOOLEAN,
               dtls : {"idle", "waiting", "running", "nokeys", "done"}, mute : BOOLEAN]
  /\ stage \in [rtcp : BOOLEAN, audio : BOOLEAN, call : {"setup", "estab", "closed"}]
  /\ dir \in [hold : BOOLEAN, peer : BOOLEAN]
  /\ tmo.age \in {Unheard, Hour + 1} \cup 0..RtpTimeout+1
  /\ tmo.err \in {0, 1} /\ (tmo.err = 1 => stage.call = "closed")

(* In every order of the answer, ICE, the handshake and the end of the     *)
(* set-up, an established call whose peer sent its SDP gets its audio, if  *)
(* ICE finds a path, the peer does not have us wait for its handshake,     *)
(* encryption ends with keys, and the SDP had one when ICE came last.      *)
AudioStarts ==
  (stage.call = "estab" /\ link.raddr)
    ~> (\/ stage.audio \/ ~InCall
        \/ link.failed \/ link.mute \/ link.dtls \in {"waiting", "nokeys"})

(* An open audio device belongs to a stream that is ready to be sent.      *)
AudioMeansReady == stage.audio => stream_is_ready(link) /\ stage.rtcp

(* A stream that sends and receives and hears nothing is closed, unless    *)
(* that changes or the clock jumps; holds before do not matter.            *)
Hears == tmo.age = 0 \/ tmo.age \notin 0..RtpTimeout+1
SilenceEnds ==
  (RtpTimeout > 0 /\ stage.call = "estab") ~> (~InCall \/ Hears \/ ~SDP_SENDRECV)
=============================================================================

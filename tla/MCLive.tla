------------------------------- MODULE MCLive -------------------------------
(***************************************************************************)
(* The liveness of six components, and the safety of five of them, in one  *)
(* run of TLC.  They share nothing: the initial state chooses one of them, *)
(* which then runs alone while the others stay as they are.                *)
(* Each keeps the fairness of its own module, for its steps.               *)
(***************************************************************************)
EXTENDS AudioRx, StreamLife, Play, Presence, Gather, Video

CONSTANTS t1, t2, t3, c1, c2, m1, m2

VARIABLE part

RepeatValues == {-1, 0, 1, 2}
AllNatKinds == {"stun", "turn", "natpmp", "pcp", "ice", "ice_stun", "ice_turn"}

allVars == <<part, vars, slVars, plVars, prVars, gaVars, vdVars>>

(* The state of a component that does not run: an endless sound, a call    *)
(* that was hung up.                                                       *)
SlStill == SlInit /\ kind = [mnat |-> "none", menc |-> "none"]
PlStill == PlInit /\ sound = [type |-> "tone", repeat |-> -1]
PrStill == PrInit /\ pub = {}
GaStill ==
  /\ nat = "stun"
  /\ nsess = [dns |-> FALSE, mediac |-> Cardinality(Medias), estabh |-> TRUE,
              started |-> FALSE, reinvite |-> FALSE, offerer |-> TRUE]
  /\ req = [r \in Requests |-> "idle"]
  /\ med = [m \in Medias |-> [nstun |-> 0, gathered |-> FALSE, complete |-> FALSE]]
  /\ app = [open |-> FALSE, wait |-> TRUE, modify |-> 0]
  /\ moved = FALSE

VdStill == VdInit /\ ~jbuf

LiveInit ==
  /\ Init
  /\ \/ part = "audio" /\ SlStill /\ PlStill /\ PrStill /\ GaStill /\ VdStill
     \/ part = "stream" /\ SlInit /\ PlStill /\ PrStill /\ GaStill /\ VdStill
     \/ part = "play" /\ SlStill /\ PlInit /\ PrStill /\ GaStill /\ VdStill
     \/ part = "presence" /\ SlStill /\ PlStill /\ PrInit /\ GaStill /\ VdStill
     \/ part = "gather" /\ SlStill /\ PlStill /\ PrStill /\ GaInit /\ VdStill
     \/ part = "video" /\ SlStill /\ PlStill /\ PrStill /\ GaStill /\ VdInit

LiveNext ==
  \/ part = "audio" /\ Next /\ UNCHANGED <<part, slVars, plVars, prVars, gaVars, vdVars>>
  \/ part = "stream" /\ SlNext /\ UNCHANGED <<part, vars, plVars, prVars, gaVars, vdVars>>
  \/ part = "play" /\ PlNext /\ UNCHANGED <<part, vars, slVars, prVars, gaVars, vdVars>>
  \/ part = "presence" /\ PrNext /\ UNCHANGED <<part, vars, slVars, plVars, gaVars, vdVars>>
  \/ part = "gather" /\ GaNext /\ UNCHANGED <<part, vars, slVars, plVars, prVars, vdVars>>
  \/ part = "video" /\ VdNext /\ UNCHANGED <<part, vars, slVars, plVars, prVars, gaVars>>

LiveFairness ==
  /\ WF_vars(part = "audio" /\ MainStep)
  /\ WF_vars(part = "audio" /\ WriteHandler)
  /\ SF_vars(part = "audio" /\ auplay_write_handler2)
  /\ \A t \in Threads : SF_vars(part = "audio" /\ rx_thread(t))
  /\ WF_slVars(part = "stream" /\ Progress)
  /\ WF_slVars(part = "stream" /\ (Second \/ check_rtp_handler))
  /\ WF_plVars(part = "play" /\ Device)
  /\ WF_plVars(part = "play" /\ ausrc_read_handler)
  /\ WF_plVars(part = "play" /\ EventLoop)
  /\ WF_plVars(part = "play" /\ DelayOver)
  /\ WF_prVars(part = "presence" /\ Timers)
  /\ WF_prVars(part = "presence" /\ Stopping)
  /\ WF_gaVars(part = "gather" /\ Resolved)
  /\ \A r \in Requests : WF_gaVars(part = "gather" /\ AnswersOrTimeout(r))
  /\ WF_vdVars(part = "video" /\ vp8_encode)
  /\ WF_vdVars(part = "video" /\ encode_rtp_send)
  /\ WF_vdVars(part = "video" /\ vidqueue_poll)
  /\ WF_vdVars(part = "video" /\ stream_recv_handler)
  /\ WF_vdVars(part = "video" /\ picup_tmr_handler)
  /\ SF_vdVars(part = "video" /\ rtcp_handler)

LiveSpec == LiveInit /\ [][LiveNext]_allVars /\ LiveFairness

(* The types of the components.                                            *)
LiveTypeOK ==
  TypeOK /\ SlTypeOK /\ PlTypeOK /\ PrTypeOK /\ GaTypeOK /\ VdTypeOK
=============================================================================

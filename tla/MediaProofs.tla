----------------------------- MODULE MediaProofs -----------------------------
(***************************************************************************)
(* Proofs about the components that MCMedia.tla puts together: the audio   *)
(* that is sent (AudioTx.tla), for any set of codecs with any rates; those *)
(* about received media, the menu and the publisher are in StreamProofs.tla*)
(* and AgentProofs.tla, those about AudioRx in PlayProofs.tla.  The last   *)
(* theorem is about all of them but AudioRx at once.                       *)
(***************************************************************************)
EXTENDS MCMedia, StreamProofs, AgentProofs

(***************************************************************************)
(* AudioTx.                                                                *)
(*                                                                         *)
(* Neither property is inductive: that a source is heard needs that flag,  *)
(* thread and buffer go together (ThreadOfFlag), and that nothing is freed *)
(* in use needs what stop_tx() and audio_encoder_set() have stopped when   *)
(* they come to it (Stopped).                                              *)
(***************************************************************************)

Stopping == ctl.at \in {"join", "source", "buffer"}

(* Without its flag the thread is gone, unless it is being waited for; it  *)
(* has a buffer, and there is none in poll mode.                           *)
ThreadOfFlag ==
  /\ txthr.run => txmode = "thread" /\ txthr.pc \in {"top", "sleep", "encode"}
  /\ ~txthr.run /\ txthr.pc # "none" => ctl.at = "join"
  /\ txthr.pc # "none" => txbuf

(* What is stopped at each place of the event loop.                        *)
Stopped ==
  /\ Stopping => ~txthr.run
  /\ ctl.at = "buffer" => ausrc.pc = "none"
  /\ ctl.at = "free" /\ RatesDiffer => ausrc.pc = "none"

Heard == ~Stopping /\ ausrc.pc # "none" /\ ~ausrc.unfed => Fed

AtInv == AtTypeOK /\ ThreadOfFlag /\ Stopped /\ Heard

-----------------------------------------------------------------------------
LEMMA AtInitInvariant == AtInit => AtInv
<1> SUFFICES ASSUME AtInit PROVE AtInv
  OBVIOUS
<1> USE DEF AtInit, NoSource
<1>1. AtTypeOK
  BY DEF AtTypeOK, CtlPC, SourcePC, ThreadTxPC
<1>2. ctl.at = "loop" /\ txthr.run = FALSE /\ txthr.pc = "none" /\ ausrc.pc = "none"
  OBVIOUS
<1>3. ThreadOfFlag /\ Stopped /\ Heard
  BY <1>2 DEF ThreadOfFlag, Stopped, Heard, Stopping
<1> QED
  BY <1>1, <1>3 DEF AtInv

(* A source that is started has what it needs, or is marked.               *)
LEMMA StartSource ==
  ASSUME AtInv, ~Stopping, ctl.at # "free", start_source,
         UNCHANGED <<txmode, offered>>, UNCHANGED enc \/ enc' = [enc EXCEPT !.st = enc.ac],
         ctl' = [ctl EXCEPT !.at = "loop"]
  PROVE  AtInv'
<1> USE AudioTxAssumption
    DEF AtInv, AtTypeOK, ThreadOfFlag, Stopped, Heard, Stopping, Fed,
        CtlPC, SourcePC, ThreadTxPC, NoSource
<1>1. CASE UNCHANGED <<ausrc, txthr, txbuf>>
  BY <1>1
<1>2. CASE txbuf' = TRUE /\ UNCHANGED <<ausrc, txthr>>
  BY <1>2
<1>3. CASE txbuf' = TRUE /\ (txmode = "poll" \/ txthr.run)
           /\ ausrc' = [pc |-> "idle", unfed |-> FALSE] /\ UNCHANGED txthr
  BY <1>3
<1>4. CASE txbuf' = TRUE /\ txmode = "thread" /\ ~txthr.run
           /\ txthr' = [pc |-> "top", run |-> TRUE]
           /\ ausrc' = [pc |-> "idle", unfed |-> FALSE]
  BY <1>4
<1>5. CASE txbuf' = TRUE /\ ausrc' = [pc |-> "idle", unfed |-> TRUE]
           /\ UNCHANGED txthr
  BY <1>5
<1> QED
  BY <1>1, <1>2, <1>3, <1>4, <1>5 DEF start_source

LEMMA AtNextInvariant ==
  ASSUME AtInv, [AtNext]_atVars
  PROVE  AtInv'
<1> USE AudioTxAssumption
    DEF AtInv, AtTypeOK, ThreadOfFlag, Stopped, Heard, Stopping, Fed, atSettings,
        CtlPC, SourcePC, ThreadTxPC, NoSource, SourceEnds, At
<1>1. CASE audio_start_source
  <2>1. ctl' = [ctl EXCEPT !.at = "loop"]
    BY <1>1 DEF audio_start_source
  <2> QED
    BY <1>1, <2>1, StartSource DEF audio_start_source
<1>2. CASE stop_tx
  BY <1>2 DEF stop_tx
<1>3. CASE TxJoined
  BY <1>3 DEF TxJoined
<1>4. CASE StopSource
  BY <1>4 DEF StopSource
<1>5. CASE FreeBuffer
  BY <1>5 DEF FreeBuffer
<1>6. ASSUME NEW c \in offered, audio_encoder_set(c)
      PROVE  AtInv'
  BY <1>6 DEF audio_encoder_set, RatesDiffer
<1>7. CASE EncoderReset
  BY <1>7 DEF EncoderReset
<1>8. CASE EncoderFree
  BY <1>8 DEF EncoderFree
<1>9. CASE EncoderUpdate
  <2>1. CASE UNCHANGED <<enc, ausrc, txthr, txbuf>>
    BY <1>9, <2>1 DEF EncoderUpdate
  <2>2. CASE enc' = [enc EXCEPT !.st = enc.ac] /\ start_source
    BY <1>9, <2>2, StartSource DEF EncoderUpdate
  <2> QED
    BY <1>9, <2>1, <2>2 DEF EncoderUpdate
<1>10. CASE audio_set_source
  <2>1. CASE ctl.at = "loop"
    BY <1>10, <2>1 DEF audio_set_source, RatesDiffer
  <2>2. CASE ctl.at = "set" /\ ausrc' = NoSource
    BY <1>10, <2>2 DEF audio_set_source, RatesDiffer
  <2>3. CASE ctl.at = "set" /\ ausrc' = [pc |-> "idle", unfed |-> ~Fed]
    <3>1. ausrc'.unfed = ~Fed /\ ausrc'.pc = "idle" /\ Fed' = Fed
      BY <1>10, <2>3 DEF audio_set_source
    <3>2. ausrc' \in [pc : SourcePC, unfed : BOOLEAN]
      BY <2>3
    <3>3. ctl' = [ctl EXCEPT !.at = "loop"] /\ UNCHANGED <<atSettings, enc, txthr, txbuf>>
      BY <1>10, <2>3 DEF audio_set_source
    <3> QED
      BY <2>3, <3>1, <3>2, <3>3 DEF RatesDiffer
  <2> QED
    BY <1>10, <2>1, <2>2, <2>3 DEF audio_set_source
<1>11. CASE ReadHandler
  BY <1>11 DEF ReadHandler, SourceGoes, RatesDiffer
<1>12. CASE ausrc_read_handler
  BY <1>12 DEF ausrc_read_handler, SourceGoes, RatesDiffer
<1>13. CASE tx_thread
  BY <1>13 DEF tx_thread, ThreadGoes, RatesDiffer
<1>14. CASE UNCHANGED atVars
  BY <1>14 DEF atVars, RatesDiffer
<1> QED
  BY <1>1, <1>2, <1>3, <1>4, <1>5, <1>6, <1>7, <1>8, <1>9, <1>10, <1>11,
     <1>12, <1>13, <1>14 DEF AtNext, Controls

-----------------------------------------------------------------------------
LEMMA AtInvMeans ==
  ASSUME AtInv
  PROVE  AtTypeOK /\ SourceIsSent /\ InUseIsKept
<1>1. SourceIsSent
  BY DEF AtInv, SourceIsSent, Heard, Stopping, ThreadOfFlag, Fed
<1>2. InUseIsKept
  BY DEF AtInv, InUseIsKept, Stopped, Stopping, ThreadOfFlag, AtTypeOK
<1> QED
  BY <1>1, <1>2 DEF AtInv

(* Always the types of the transmit side.                                  *)
THEOREM TransmitTypes == AtSpec => []AtTypeOK
BY AtInvMeans, AtInitInvariant, AtNextInvariant, PTL DEF AtSpec

(* A source that runs is heard, but for the two starts that are marked.    *)
THEOREM SourceHeard == AtSpec => []SourceIsSent
BY AtInvMeans, AtInitInvariant, AtNextInvariant, PTL DEF AtSpec

(* Buffer and encoder are not freed while a thread uses them.              *)
THEOREM KeptInUse == AtSpec => []InUseIsKept
BY AtInvMeans, AtInitInvariant, AtNextInvariant, PTL DEF AtSpec

(***************************************************************************)
(* All together: a step of one component leaves the variables of the others*)
(* alone, and each starts in one of its own initial states.                *)
(***************************************************************************)

MediaInv == TsInv /\ RxInv /\ MnInv /\ PbInv /\ AtInv

LEMMA MediaInitInv == MediaInit => MediaInv
BY TsInitInvariant, RxInitInvariant, MnInitInvariant, PbInitInvariant, AtInitInvariant
   DEF MediaInit, MediaInv

LEMMA MediaNextInv ==
  ASSUME MediaInv, [MediaNext]_allVars
  PROVE  MediaInv'
<1>1. /\ [TsNext]_tsVars /\ [RxNext]_rxVars /\ [MnNext]_mnVars
      /\ [PbNext]_pbVars /\ [AtNext]_atVars
  BY DEF MediaNext, allVars
<1>2. TsInv /\ RxInv /\ MnInv /\ PbInv /\ AtInv
  BY DEF MediaInv
<1>3. TsInv'
  BY <1>1, <1>2, TsNextInvariant
<1>4. RxInv'
  BY <1>1, <1>2, RxNextInvariant
<1>5. MnInv'
  BY <1>1, <1>2, MnNextInvariant
<1>6. PbInv'
  BY <1>1, <1>2, PbNextInvariant
<1>7. AtInv'
  BY <1>1, <1>2, AtNextInvariant
<1> QED
  BY <1>3, <1>4, <1>5, <1>6, <1>7 DEF MediaInv

(* In every state of the composition the components have their types, and  *)
(* the time, the count of lost packets, the menu, the publisher and the    *)
(* sending of audio are safe.                                              *)
THEOREM MediaSafe ==
  MediaSpec => [](/\ MediaTypeOK /\ ExtendedTrue /\ LossExact /\ OneSource
                  /\ EndlessToneHasCall /\ RedialLimit /\ ServerKnows
                  /\ SourceIsSent /\ InUseIsKept)
<1>1. MediaInv =>
        /\ MediaTypeOK /\ ExtendedTrue /\ LossExact /\ OneSource
        /\ EndlessToneHasCall /\ RedialLimit /\ ServerKnows
        /\ SourceIsSent /\ InUseIsKept
  BY TsInvMeans, RxInvMeans, MnInvImplies, PbInvImplies, AtInvMeans
     DEF MediaInv, MediaTypeOK, MnInv
<1> QED
  BY <1>1, MediaInitInv, MediaNextInv, PTL DEF MediaSpec
=============================================================================

-------------------------------- MODULE Video --------------------------------
(***************************************************************************)
(* A video picture on its way from the source to the display of the other  *)
(* side (video.c with the codec module vp8): the thread of the source      *)
(* encodes frames into packets, the event loop sends them, the network     *)
(* loses some, the other side puts frames together and asks for a picture  *)
(* update when it cannot.                                                  *)
(***************************************************************************)
EXTENDS Integers, SequencesExt

CONSTANTS
  Parts,   \* bound: packets of a frame
  Losses,  \* bound: how many packets and requests are lost
  WireMax  \* bound: packets under way

ASSUME VideoAssumption == {Parts, Losses, WireMax} \subseteq Nat

VARIABLES
  vtx,    \* struct vtx: encoding (the thread of the source holds lock_enc),
          \* picup, fresh (no frame encoded yet)
  sendq,  \* vtx->sendq, packets that wait for tmr_rtp
  net,    \* wire: RTP under way, in order; gap: how many packets were lost before
          \* the first of them, the difference of the sequence numbers; fir: a
          \* request for a picture update is under way; lost: losses so far
  vrx,    \* struct vrx: tmr (tmr_picup runs); heard (pseq of its stream is set);
          \* struct viddec_state of vp8: mb, not empty while started; libvpx: ref
          \* (none: no key frame so far, intact: it has the frame that the next
          \* packets refer to, torn), whole: what it was given last was a frame
  jbuf    \* the stream has a jitter buffer, and so counts lost packets

vdVars == <<vtx, sendq, net, vrx, jbuf>>

-----------------------------------------------------------------------------
(* Sending.                                                                *)

(* The packets of a frame.                                                 *)
packetize(k, key) ==
  [i \in 1..k |-> [part |-> i, marker |-> i = k, key |-> key]]

(* The thread of the source: a frame is skipped while the last one is not  *)
(* sent, else it is encoded, as a key frame if that was asked for or if    *)
(* the encoder likes.  packet_handler() queues its packets one by one,     *)
(* which nobody can tell.  A frame that cannot be encoded changes nothing. *)
vp8_encode ==
  /\ ~vtx.encoding /\ sendq = <<>>
  /\ \E key \in BOOLEAN, k \in 1..Parts :
       /\ vtx.picup \/ vtx.fresh => key
       /\ vtx' = [vtx EXCEPT !.encoding = TRUE, !.fresh = FALSE]
       /\ sendq' = packetize(k, key)
  /\ UNCHANGED <<net, vrx, jbuf>>

(* A request that came while the frame was encoded is cleared with it.     *)
encode_rtp_send ==
  /\ vtx.encoding
  /\ vtx' = [vtx EXCEPT !.encoding = FALSE, !.picup = FALSE]
  /\ UNCHANGED <<sendq, net, vrx, jbuf>>

(* A burst of packets, as many as the bitrate allows but one at least.     *)
vidqueue_poll ==
  \E k \in 1..Len(sendq) :
    /\ Len(net.wire) + k <= WireMax
    /\ sendq' = SubSeq(sendq, k + 1, Len(sendq))
    /\ net' = [net EXCEPT !.wire = @ \o SubSeq(sendq, 1, k)]
    /\ UNCHANGED <<vtx, vrx, jbuf>>

(* A FIR or a PLI arrives.  Bound: while a frame is encoded, when it is    *)
(* lost on the encoder, only as long as something may be lost.             *)
rtcp_handler ==
  /\ net.fir
  /\ vtx.encoding => net.lost < Losses
  /\ net' = [net EXCEPT !.fir = FALSE, !.lost = IF vtx.encoding THEN @ + 1 ELSE @]
  /\ vtx' = [vtx EXCEPT !.picup = TRUE]
  /\ UNCHANGED <<sendq, vrx, jbuf>>

-----------------------------------------------------------------------------
(* The network.                                                            *)

LosePacket ==
  /\ net.wire # <<>> /\ net.lost < Losses
  /\ net' = [net EXCEPT !.wire = Tail(@), !.gap = @ + 1, !.lost = @ + 1]
  /\ UNCHANGED <<vtx, sendq, vrx, jbuf>>

LoseRequest ==
  /\ net.fir /\ net.lost < Losses
  /\ net' = [net EXCEPT !.fir = FALSE, !.lost = @ + 1]
  /\ UNCHANGED <<vtx, sendq, vrx, jbuf>>

-----------------------------------------------------------------------------
(* Receiving.  A decoder call gives the struct vrx it leaves (to), whether *)
(* it failed (err) and whether it saw a key frame (intra).                 *)

IsFrame(data) ==
  /\ \A i \in DOMAIN data : data[i].part = i /\ (i > 1 => data[i].gap = 0)
  /\ Last(data).marker

(* libvpx: a frame that refers to one it does not have is an error, or is  *)
(* decoded to something broken.  The buffer is emptied either way.         *)
vpx_codec_decode(v, data, intra, fails) ==
  LET fine == IsFrame(data) /\ (data[1].key \/ v.ref = "intact")
  IN [to |-> [v EXCEPT !.mb = <<>>, !.whole = IsFrame(data),
                       !.ref = IF fine THEN "intact" ELSE IF @ = "none" THEN @ ELSE "torn"],
      err |-> ~fine /\ (v.ref = "none" \/ fails),
      intra |-> intra]

(* Faulty: packets are put together whatever was lost between them.        *)
vp8_decode_no_seq(v, p, fails) ==
  LET intra == p.part = 1 /\ p.key
      data == IF p.part = 1 THEN <<p>> ELSE Append(v.mb, p)
  IN IF p.part > 1 /\ v.mb = <<>>
     THEN [to |-> v, err |-> FALSE, intra |-> FALSE]
     ELSE IF p.marker THEN vpx_codec_decode(v, data, intra, fails)
     ELSE [to |-> [v EXCEPT !.mb = data], err |-> FALSE, intra |-> intra]

(* A first packet starts a frame, another one must follow the last one.    *)
vp8_decode(v, p, fails) ==
  LET intra == p.part = 1 /\ p.key
      data == IF p.part = 1 THEN <<p>> ELSE Append(v.mb, p)
  IN IF p.part > 1 /\ (v.mb = <<>> \/ p.gap > 0)
     THEN [to |-> [v EXCEPT !.mb = <<>>], err |-> FALSE, intra |-> FALSE]
     ELSE IF p.marker THEN vpx_codec_decode(v, data, intra, fails)
     ELSE [to |-> [v EXCEPT !.mb = data], err |-> FALSE, intra |-> intra]

(* The packet that arrives, with what is missing before it.                *)
Arrived ==
  LET p == Head(net.wire)
  IN [gap |-> net.gap, part |-> p.part, marker |-> p.marker, key |-> p.key]

(* The stream hands it to the video, with the number of lost ones, if it   *)
(* counts: a loss starts tmr_picup and sends a request unless the timer    *)
(* runs, and so does an error of the decoder; a key frame stops the timer  *)
(* with its first packet, also the timer of a loss just before it.         *)
stream_recv_handler ==
  /\ net.wire # <<>>
  /\ \E fails \in BOOLEAN :
       LET torn == net.gap > 0 /\ vrx.ref = "intact"
           v == [vrx EXCEPT !.heard = TRUE, !.ref = IF torn THEN "torn" ELSE @]
           d == vp8_decode(v, Arrived, fails)
           lost == jbuf /\ vrx.heard /\ net.gap > 0
       IN /\ vrx' = [d.to EXCEPT !.tmr = d.err \/ ((@ \/ lost) /\ ~d.intra)]
          /\ net' = [net EXCEPT !.wire = Tail(@), !.gap = 0,
                                !.fir = @ \/ ((lost \/ d.err) /\ ~vrx.tmr)]
  /\ UNCHANGED <<vtx, sendq, jbuf>>

(* Faulty: it asks once for a loss.                                        *)
picup_tmr_handler_once ==
  /\ vrx.tmr
  /\ vrx' = [vrx EXCEPT !.tmr = FALSE]
  /\ net' = [net EXCEPT !.fir = TRUE]
  /\ UNCHANGED <<vtx, sendq, jbuf>>

(* Ask again, with request_picture_update().                               *)
picup_tmr_handler ==
  /\ vrx.tmr
  /\ net' = [net EXCEPT !.fir = TRUE]
  /\ UNCHANGED <<vtx, sendq, vrx, jbuf>>

-----------------------------------------------------------------------------
VdInit ==
  /\ vtx = [encoding |-> FALSE, picup |-> FALSE, fresh |-> TRUE]
  /\ sendq = <<>>
  /\ net = [wire |-> <<>>, gap |-> 0, fir |-> FALSE, lost |-> 0]
  /\ vrx = [tmr |-> FALSE, heard |-> FALSE, mb |-> <<>>, ref |-> "none",
            whole |-> TRUE]
  /\ jbuf \in BOOLEAN

VdNext ==
  \/ vp8_encode \/ encode_rtp_send
  \/ vidqueue_poll \/ rtcp_handler
  \/ LosePacket \/ LoseRequest
  \/ picup_tmr_handler \/ stream_recv_handler

VdFairness ==
  /\ WF_vdVars(vp8_encode) /\ WF_vdVars(encode_rtp_send)
  /\ WF_vdVars(vidqueue_poll) /\ WF_vdVars(stream_recv_handler)
  /\ WF_vdVars(picup_tmr_handler)
  /\ SF_vdVars(rtcp_handler)

VdSpec == VdInit /\ [][VdNext]_vdVars
VdFairSpec == VdSpec /\ VdFairness

-----------------------------------------------------------------------------
(* Properties.                                                             *)

VdTypeOK ==
  /\ Len(sendq) <= Parts /\ Len(net.wire) <= WireMax
  /\ net.lost \in 0..Losses
  /\ net.gap \in 0..net.lost
  /\ vrx.ref \in {"none", "intact", "torn"}
  /\ vrx.ref = "intact" => vrx.heard

(* What the codec is given is always one frame, with all of its packets,   *)
(* whatever was lost before and in it, and whether losses are counted.     *)
DecodedWhole == vrx.whole

(* A torn picture is repaired: whatever is lost, of frames and of requests,*)
(* and although a request that comes at the wrong time is forgotten, a key *)
(* frame comes through in the end, if the stream counts losses.            *)
PictureRecovers == (jbuf /\ vrx.ref = "torn") ~> (vrx.ref = "intact")
=============================================================================

------------------------------ MODULE StreamRx ------------------------------
(***************************************************************************)
(* How RTP packets get from the socket to the decoder (stream.c, with the  *)
(* payload type handler of audio.c): source and payload type changes, the  *)
(* jitter buffer, and the count of lost packets that is handed to the      *)
(* decoder.  With an adaptive jitter buffer the packets are taken out by   *)
(* another thread (see AudioRx), else by the event loop at once.           *)
(***************************************************************************)
EXTENDS Integers, FiniteSets

CONSTANTS
  SeqRange,     \* 2^16 in the code: the range of a sequence number
  MaxDropout,   \* 3000 in the code: a larger gap is a new start
  MaxMisorder,  \* SeqRange - 0xff9c = 100 in the code
  Sources,      \* the senders (SSRC), numbered from 1 in the order they start
  Starts,       \* first sequence numbers a sender may choose
  FormatPlans,  \* what is sent: functions from the number of a packet
  Late,         \* bound: how much later than its successors a packet comes
  Jump          \* bound: how many packets are lost in a row

Formats == {"codec", "other", "event"}

ASSUME StreamRxAssumption ==
  /\ SeqRange \in Nat /\ MaxDropout \in Nat /\ MaxMisorder \in Nat
  /\ MaxDropout + MaxMisorder < SeqRange
  /\ Starts \subseteq 0..SeqRange-1
  /\ Sources \subseteq Nat \ {0}
  /\ \A plan \in FormatPlans :
       DOMAIN plan \subseteq Nat \ {0} /\ \A n \in DOMAIN plan : plan[n] \in Formats

NoPacket == [src |-> 0, n |-> 0]
Unset == -1         \* (uint32_t)-1, a value no 16 bit number has
Unknown == SeqRange \* stands for the distance to a packet of another source

VARIABLES
  wire,   \* the network: plan and start (chosen by the sender), top[s]: the
          \* latest packet of each source that came through
  strm,   \* struct stream: ssrc, pseq, pseqSet, pt (pt_dec), started, recv
          \* (the local direction includes receiving), jbtype
  jbuf,   \* packets in the jitter buffer (libre), and the last one taken out
  rxpt,   \* payload type of the decoder (struct aurx)
  pend,   \* the packet rtp_handler() has not yet put, and whether it flushes
  out     \* base: the packet from which losses are counted; of the last
          \* packet decoded: the losses, the distance to base (gap)

rxVars == <<wire, strm, jbuf, rxpt, pend, out>>

Seq16(p) == (wire.start + p.n) % SeqRange
Format(p) == wire.plan[p.n]
Packets == {[src |-> s, n |-> n] : s \in Sources, n \in DOMAIN wire.plan}

(* hdr->seq - 1 in 32 bits.                                                *)
Before32(p) == IF Seq16(p) = 0 THEN Unset ELSE Seq16(p) - 1

-----------------------------------------------------------------------------
(* Counting lost packets.                                                  *)

Delta(p) == (Seq16(p) - strm.pseq) % SeqRange

(* Faulty: the packet itself is counted.                                   *)
lostcalc_off_by_one(p) ==
  IF strm.pseq = Unset THEN 0
  ELSE IF Delta(p) = 0 THEN -1
  ELSE IF Delta(p) < MaxDropout THEN Delta(p)
  ELSE IF Delta(p) < SeqRange - MaxMisorder THEN 0 ELSE -2

(* -1: the same packet again, -2: a packet from before, both keep pseq.    *)
lostcalc(p) ==
  IF strm.pseq = Unset THEN 0
  ELSE IF Delta(p) = 0 THEN -1
  ELSE IF Delta(p) < MaxDropout THEN Delta(p) - 1
  ELSE IF Delta(p) < SeqRange - MaxMisorder THEN 0 ELSE -2

(* What the decoder gets.                                                  *)
Decode(p, lost) ==
  out' = [lost |-> IF lost > 0 THEN lost ELSE 0,
          gap |-> IF p.src = out.base.src THEN p.n - out.base.n ELSE Unknown,
          base |-> IF lost >= 0 THEN p ELSE out.base]

(* The jitter buffer gives the earliest packet it has.                     *)
Earliest(b) == CHOOSE p \in b : \A q \in b : p.n <= q.n

jbuf_flush == [frames |-> {}, got |-> NoPacket]

(* A packet from before the last one taken out is late, a second copy is   *)
(* refused.                                                                *)
jbuf_put(b, p) ==
  IF p \in b.frames \/ (b.got.src = p.src /\ p.n < b.got.n) THEN b
  ELSE [b EXCEPT !.frames = @ \cup {p}]

(* Take a packet out of b and decode it, or none: the buffer holds some    *)
(* back.  Packets of two sources are ordered by sequence number.  s is the *)
(* stream so far.                                                          *)
stream_decode(s, b) ==
  \/ /\ jbuf' = b
     /\ strm' = s
     /\ UNCHANGED out
  \/ \E p \in b.frames :
       /\ p = Earliest(b.frames)
       /\ jbuf' = [frames |-> b.frames \ {p}, got |-> p]
       /\ strm' = [s EXCEPT !.started = TRUE,
                     !.pseq = IF lostcalc(p) >= 0 THEN Seq16(p) ELSE @]
       /\ Decode(p, lostcalc(p))

(* stream_pt_handler(): the decoder changes to the type, or it is an event *)
(* that is handled at once and not decoded.                                *)
Accepted(p) == Format(p) \in {rxpt, "codec", "other"}
stream_pt_handler(p) == rxpt' = IF Accepted(p) THEN Format(p) ELSE rxpt

-----------------------------------------------------------------------------
(* Receiving.                                                              *)

(* A packet the network can deliver: not much older than what came.  A     *)
(* source ends when the next one starts, of which late packets still come. *)
Arriving(p) ==
  /\ p.n + Late >= wire.top[p.src]
  /\ p.n <= wire.top[p.src] + Jump
  /\ \A s \in Sources : s < p.src => wire.top[s] > 0
  /\ \A s \in Sources : s > p.src /\ wire.top[s] > 0 => p.n <= wire.top[p.src]

(* The first packet, or another source: restart the count.                 *)
Restarts(p) == ~strm.pseqSet \/ strm.ssrc # p.src

(* The count starts before the first packet; if that one has the number 0, *)
(* the value stored is the one for no packet, and it starts when the first *)
(* packet is decoded.                                                      *)
CountFrom(p) == IF Before32(p) = Unset THEN NoPacket ELSE [p EXCEPT !.n = @ - 1]

(* rtp_handler() up to the payload type handler.  A change of the decoder  *)
(* flushes a jitter buffer that was started (audio_decoder_set()).         *)
rtp_handler(p) ==
  /\ pend.p = NoPacket
  /\ Arriving(p)
  /\ wire' = [wire EXCEPT !.top[p.src] = IF p.n > @ THEN p.n ELSE @]
  /\ IF ~strm.recv THEN UNCHANGED <<strm, jbuf, rxpt, pend, out>>
     ELSE LET changed == strm.pt # Format(p)
              refused == changed /\ ~Accepted(p)
              flush == strm.pseqSet /\ strm.ssrc # p.src
          IN /\ strm' = [strm EXCEPT !.ssrc = p.src, !.pseqSet = TRUE,
                           !.pt = Format(p),
                           !.pseq = IF Restarts(p) THEN Before32(p) ELSE @]
             /\ out' = IF Restarts(p) THEN [out EXCEPT !.base = CountFrom(p)]
                       ELSE out
             /\ IF changed THEN stream_pt_handler(p) ELSE UNCHANGED rxpt
             /\ jbuf' = IF changed /\ Accepted(p) /\ rxpt # Format(p)
                           /\ strm.started THEN jbuf_flush ELSE jbuf
             /\ pend' = IF refused
                        THEN [pend EXCEPT !.skipped = @ \/ flush]
                        ELSE [p |-> p, flush |-> flush,
                              skipped |-> pend.skipped /\ ~flush]

(* Faulty: a change of the source does not flush.                          *)
PutPacket_no_flush ==
  /\ pend.p # NoPacket
  /\ IF strm.jbtype = "off"
     THEN /\ Decode(pend.p, 0)
          /\ UNCHANGED <<strm, jbuf>>
     ELSE IF strm.jbtype = "fixed" THEN stream_decode(strm, jbuf_put(jbuf, pend.p))
     ELSE jbuf' = jbuf_put(jbuf, pend.p) /\ UNCHANGED <<strm, out>>
  /\ pend' = [pend EXCEPT !.p = NoPacket, !.flush = FALSE]
  /\ UNCHANGED <<wire, rxpt>>

(* The rest of rtp_handler().                                              *)
PutPacket ==
  /\ pend.p # NoPacket
  /\ LET b == IF pend.flush THEN jbuf_flush ELSE jbuf
         s == [strm EXCEPT !.started = @ /\ ~pend.flush]
     IN IF strm.jbtype = "off"
        THEN /\ Decode(pend.p, 0)
             /\ UNCHANGED <<strm, jbuf>>
        ELSE IF strm.jbtype = "fixed" THEN stream_decode(s, jbuf_put(b, pend.p))
        ELSE /\ jbuf' = jbuf_put(b, pend.p)
             /\ strm' = s
             /\ UNCHANGED out
  /\ pend' = [pend EXCEPT !.p = NoPacket, !.flush = FALSE]
  /\ UNCHANGED <<wire, rxpt>>

(* The decoding thread (adaptive), or the second try of a fixed buffer.    *)
DecodeNext ==
  /\ strm.jbtype # "off"
  /\ strm.jbtype = "fixed" => pend.p = NoPacket
  /\ stream_decode(strm, jbuf)
  /\ UNCHANGED <<wire, rxpt, pend>>

(* Hold, resume and other changes of the local direction.                  *)
stream_set_ldir ==
  /\ pend.p = NoPacket
  /\ strm' = [strm EXCEPT !.recv = ~@]
  /\ jbuf' = IF strm.started THEN jbuf_flush ELSE jbuf
  /\ UNCHANGED <<wire, rxpt, pend, out>>

RxInit ==
  /\ \E plan \in FormatPlans, start \in Starts :
       wire = [plan |-> plan, start |-> start, top |-> [s \in Sources |-> 0]]
  /\ \E t \in {"off", "fixed", "adaptive"} :
       strm = [ssrc |-> 0, pseq |-> Unset, pseqSet |-> FALSE, pt |-> "none",
               started |-> FALSE, recv |-> TRUE, jbtype |-> t]
  /\ jbuf = jbuf_flush
  /\ rxpt = "codec"
  /\ pend = [p |-> NoPacket, flush |-> FALSE, skipped |-> FALSE]
  /\ out = [lost |-> 0, gap |-> Unknown, base |-> NoPacket]

RxNext ==
  \/ \E p \in Packets : rtp_handler(p)
  \/ PutPacket \/ DecodeNext \/ stream_set_ldir

RxSpec == RxInit /\ [][RxNext]_rxVars

-----------------------------------------------------------------------------
(* Properties.                                                             *)

RxTypeOK ==
  /\ strm.ssrc \in Sources \cup {0}
  /\ strm.pseq \in -1..SeqRange-1
  /\ strm.pt \in Formats \cup {"none"}
  /\ rxpt \in Formats
  /\ jbuf.frames \subseteq Packets
  /\ pend.p \in Packets \cup {NoPacket}
  /\ out.lost \in 0..SeqRange-1
  /\ pend.flush => pend.p # NoPacket

(* The number of lost packets the decoder is told is the number of those   *)
(* that were sent between this one and the one the count started from, as  *)
(* long as both are from one source, across wraps of the sequence number,  *)
(* duplicates, late packets, holds and restarts of the count; a packet     *)
(* that is a little late or comes twice counts none.                       *)
LossExact ==
  /\ strm.jbtype # "off" /\ out.gap \in 1..MaxDropout-1 => out.lost = out.gap - 1
  /\ out.gap \in -MaxMisorder..0 => out.lost = 0

(* Nothing of an earlier source is left in the jitter buffer, unless the   *)
(* packet that changed the source was refused for its payload type and the *)
(* flush with it.                                                          *)
OneSource ==
  pend.p = NoPacket /\ ~pend.skipped => \A p \in jbuf.frames : p.src = strm.ssrc
=============================================================================

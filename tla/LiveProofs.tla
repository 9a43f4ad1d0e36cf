------------------------------ MODULE LiveProofs ------------------------------
(***************************************************************************)
(* Proofs about the components that MCLive.tla puts together, each for any *)
(* value of its constants: the video (Video.tla), the traversal of NATs    *)
(* (Gather.tla) and who holds an agent (Presence.tla); those about AudioRx,*)
(* Play and StreamLife are in PlayProofs.tla.  The last theorem is about   *)
(* all of them at once.                                                    *)
(***************************************************************************)
EXTENDS MCLive, PlayProofs, SequenceTheorems, FiniteSetTheorems,
        WellFoundedInduction

(***************************************************************************)
(* Video.                                                                  *)
(*                                                                         *)
(* What is under way and what still waits to be sent is one sequence, in   *)
(* which every packet starts a frame or follows the one before it          *)
(* (InOrder); what the decoder has gathered is the beginning of a frame,   *)
(* and unless something was lost the next packet goes on with it (Fits).   *)
(***************************************************************************)


Packet == [part : Nat \ {0}, marker : BOOLEAN, key : BOOLEAN]
Received == [gap : Nat, part : Nat \ {0}, marker : BOOLEAN, key : BOOLEAN]
Receiver ==
  [tmr : BOOLEAN, heard : BOOLEAN, mb : Seq(Received),
   ref : {"none", "intact", "torn"}, whole : BOOLEAN]

(* What is under way and what waits to be sent.                            *)
Way == net.wire \o sendq

VdTypes ==
  /\ vtx \in [encoding : BOOLEAN, picup : BOOLEAN, fresh : BOOLEAN]
  /\ sendq \in Seq(Packet) /\ Len(sendq) <= Parts
  /\ net \in [wire : Seq(Packet), gap : Nat, fir : BOOLEAN, lost : Nat]
  /\ Len(net.wire) <= WireMax /\ net.gap <= net.lost /\ net.lost <= Losses
  /\ vrx \in Receiver
  /\ vrx.ref = "intact" => vrx.heard

Follows(p, q) == q.part = 1 \/ q.part = p.part + 1
(* In w every packet starts a frame or follows the one before it.          *)
InOrder(w) == \A i \in 1..Len(w)-1 : Follows(w[i], w[i+1])

(* The buffer has the first packets of one frame.                          *)
Beginning(mb) ==
  \A i \in 1..Len(mb) : mb[i].part = i /\ (i > 1 => mb[i].gap = 0)

(* Unless packets were lost, w goes on with the frame or starts one.       *)
Fits(mb, gap, w) ==
  mb # <<>> /\ gap = 0 /\ w # <<>> => w[1].part \in {1, Len(mb) + 1}

VdInv ==
  /\ VdTypes
  /\ InOrder(Way)
  /\ Beginning(vrx.mb) /\ Fits(vrx.mb, net.gap, Way)
  /\ vrx.whole

LEMMA VdConstants == Parts \in Nat /\ Losses \in Nat /\ WireMax \in Nat
BY VideoAssumption

(* A net put together from parts that fit.                                 *)
LEMMA NetTypes ==
  ASSUME NEW w \in Seq(Packet), NEW g \in Nat, NEW f \in BOOLEAN, NEW l \in Nat,
         Len(w) <= WireMax, g <= l, l <= Losses,
         net' \in [wire : {w}, gap : {g}, fir : {f}, lost : {l}]
  PROVE  /\ net' \in [wire : Seq(Packet), gap : Nat, fir : BOOLEAN, lost : Nat]
         /\ Len(net'.wire) <= WireMax /\ net'.gap <= net'.lost /\ net'.lost <= Losses
<1>1. net'.wire = w /\ net'.gap = g /\ net'.fir = f /\ net'.lost = l
  OBVIOUS
<1>2. net' = [wire |-> w, gap |-> g, fir |-> f, lost |-> l]
  OBVIOUS
<1>3. [wire |-> w, gap |-> g, fir |-> f, lost |-> l]
        \in [wire : Seq(Packet), gap : Nat, fir : BOOLEAN, lost : Nat]
  OBVIOUS
<1> QED
  BY <1>1, <1>2, <1>3

LEMMA VdInitInv == VdInit => VdInv
<1> SUFFICES ASSUME VdInit PROVE VdInv
  OBVIOUS
<1>1. /\ Len(<<>>) = 0 /\ <<>> \in Seq(Packet) /\ <<>> \in Seq(Received)
      /\ Way = <<>>
  BY DEF VdInit, Way
<1>2. VdTypes
  BY <1>1, VdConstants DEF VdInit, VdTypes, Receiver
<1>3. InOrder(Way) /\ Beginning(vrx.mb) /\ Fits(vrx.mb, net.gap, Way) /\ vrx.whole
  BY <1>1 DEF VdInit, InOrder, Beginning, Fits
<1> QED
  BY <1>2, <1>3 DEF VdInv

LEMMA PacketsJoin ==
  ASSUME NEW s \in Seq(Packet), NEW t \in Seq(Packet), NEW u \in Seq(Packet)
  PROVE  (s \o t) \o u = s \o (t \o u)
BY ConcatAssociative

LEMMA WayFacts ==
  ASSUME VdTypes
  PROVE  /\ Way \in Seq(Packet) /\ Len(Way) = Len(net.wire) + Len(sendq)
         /\ net.wire # <<>> =>
              /\ Way # <<>> /\ Way[1] = Head(net.wire) /\ Head(net.wire) \in Packet
              /\ Tail(net.wire) \in Seq(Packet)
              /\ Len(Tail(net.wire)) = Len(net.wire) - 1
              /\ Tail(net.wire) \o sendq = Tail(Way)
<1>1. net.wire \in Seq(Packet) /\ sendq \in Seq(Packet)
  BY DEF VdTypes
<1>2. /\ Way \in Seq(Packet) /\ Len(Way) = Len(net.wire) + Len(sendq)
      /\ \A i \in 1..Len(Way) : Way[i] = IF i <= Len(net.wire) THEN net.wire[i]
                                         ELSE sendq[i - Len(net.wire)]
  BY <1>1, ConcatProperties DEF Way
<1>3. ASSUME net.wire # <<>>
      PROVE  /\ Way # <<>> /\ Way[1] = Head(net.wire) /\ Head(net.wire) \in Packet
             /\ Tail(net.wire) \in Seq(Packet)
             /\ Len(Tail(net.wire)) = Len(net.wire) - 1
             /\ Tail(net.wire) \o sendq = Tail(Way)
  <2> DEFINE t == Tail(net.wire)
             n == Len(net.wire)
  <2>1. /\ n \in Nat \ {0}
        /\ t \in Seq(Packet) /\ Len(t) = n - 1
        /\ \A i \in 1..n-1 : t[i] = net.wire[i+1]
        /\ Head(net.wire) = net.wire[1] /\ Head(net.wire) \in Packet
    BY <1>1, <1>3, HeadTailProperties
  <2>2. /\ t \o sendq \in Seq(Packet) /\ Len(t \o sendq) = n - 1 + Len(sendq)
        /\ \A i \in 1..n-1+Len(sendq) :
             (t \o sendq)[i] = IF i <= n - 1 THEN t[i] ELSE sendq[i - (n - 1)]
    <3>1. /\ t \o sendq \in Seq(Packet) /\ Len(t \o sendq) = Len(t) + Len(sendq)
          /\ \A i \in 1..Len(t)+Len(sendq) :
               (t \o sendq)[i] = IF i <= Len(t) THEN t[i] ELSE sendq[i - Len(t)]
      BY <1>1, <2>1, ConcatProperties
    <3> QED
      BY <2>1, <3>1
  <2>3. Len(sendq) \in Nat
    BY <1>1
  <2>4. Way # <<>> /\ Way[1] = net.wire[1]
    BY <1>2, <2>1, <2>3
  <2>5. /\ Tail(Way) \in Seq(Packet) /\ Len(Tail(Way)) = n - 1 + Len(sendq)
        /\ \A i \in 1..n-1+Len(sendq) : Tail(Way)[i] = Way[i+1]
    BY <1>2, <2>1, <2>3, <2>4, HeadTailProperties
  <2> HIDE DEF t, n
  <2>6. ASSUME NEW i \in 1..n-1+Len(sendq)
        PROVE  (t \o sendq)[i] = Tail(Way)[i]
    <3>1. Way[i+1] = IF i + 1 <= n THEN net.wire[i+1] ELSE sendq[i + 1 - n]
      <4>1. PICK j \in 1..Len(Way) : j = i + 1
        BY <1>2, <2>1, <2>3 DEF n
      <4>2. Way[j] = IF j <= n THEN net.wire[j] ELSE sendq[j - n]
        BY <1>2 DEF n
      <4> QED
        BY <2>1, <2>3, <4>1, <4>2
    <3>2. i + 1 <= n <=> i <= n - 1
      BY <2>1
    <3>3. i + 1 - n = i - (n - 1)
      BY <2>1
    <3>4. i <= n - 1 => i \in 1..n-1
      BY <2>1
    <3>5. Tail(Way)[i] = Way[i+1]
      BY <2>5
    <3>6. (t \o sendq)[i] = IF i <= n - 1 THEN t[i] ELSE sendq[i - (n - 1)]
      BY <2>2
    <3> QED
      BY <2>1, <3>1, <3>2, <3>3, <3>4, <3>5, <3>6
  <2>7. t \o sendq = Tail(Way)
    BY <2>2, <2>5, <2>6, SeqEqual
  <2> QED
    BY <2>1, <2>4, <2>7 DEF t, n
<1> QED
  BY <1>2, <1>3

(* What is left of the way when its first packet is lost or received.      *)
LEMMA TailInOrder ==
  ASSUME NEW w \in Seq(Packet), w # <<>>, InOrder(w)
  PROVE  /\ Tail(w) \in Seq(Packet) /\ InOrder(Tail(w))
         /\ Tail(w) # <<>> => Follows(w[1], Tail(w)[1])
<1>1. /\ Len(w) \in Nat \ {0}
      /\ Tail(w) \in Seq(Packet) /\ Len(Tail(w)) = Len(w) - 1
      /\ \A i \in 1..Len(w)-1 : Tail(w)[i] = w[i+1]
  BY HeadTailProperties
<1>2. ASSUME NEW i \in 1..Len(w)-1-1
      PROVE  Follows(Tail(w)[i], Tail(w)[i+1])
  <2>1. /\ i \in 1..Len(w)-1 /\ i + 1 \in 1..Len(w)-1
    BY <1>1
  <2>2. Follows(w[i+1], w[i+1+1])
    BY <2>1 DEF InOrder
  <2> QED
    BY <1>1, <2>1, <2>2
<1>3. ASSUME Tail(w) # <<>>
      PROVE  Follows(w[1], Tail(w)[1])
  <2>1. 1 \in 1..Len(w)-1
    BY <1>1, <1>3
  <2>2. Follows(w[1], w[1+1])
    BY <2>1 DEF InOrder
  <2> QED
    BY <1>1, <2>1, <2>2
<1> QED
  BY <1>1, <1>2, <1>3 DEF InOrder

(* A call of the decoder, whatever it makes of the picture.                *)
LEMMA DecodeWhole ==
  ASSUME NEW v \in Receiver, NEW p \in Received, NEW fails \in BOOLEAN,
         Beginning(v.mb), v.whole,
         v.mb # <<>> /\ p.gap = 0 => p.part \in {1, Len(v.mb) + 1}
  PROVE  /\ vp8_decode(v, p, fails).to \in Receiver
         /\ vp8_decode(v, p, fails).err \in BOOLEAN
         /\ vp8_decode(v, p, fails).intra \in BOOLEAN
         /\ vp8_decode(v, p, fails).to.whole
         /\ vp8_decode(v, p, fails).to.heard = v.heard
         /\ vp8_decode(v, p, fails).to.tmr = v.tmr
         /\ Beginning(vp8_decode(v, p, fails).to.mb)
         /\ vp8_decode(v, p, fails).to.mb # <<>> =>
              Len(vp8_decode(v, p, fails).to.mb) = p.part
<1> DEFINE intra == p.part = 1 /\ p.key
           data == IF p.part = 1 THEN <<p>> ELSE Append(v.mb, p)
           d == vp8_decode(v, p, fails)
           fine == IsFrame(data) /\ (data[1].key \/ v.ref = "intact")
           Good(e) == /\ e.to \in Receiver
                      /\ e.err \in BOOLEAN /\ e.intra \in BOOLEAN
                      /\ e.to.whole /\ e.to.heard = v.heard /\ e.to.tmr = v.tmr
                      /\ Beginning(e.to.mb)
                      /\ e.to.mb # <<>> => Len(e.to.mb) = p.part
<1>1. /\ v.mb \in Seq(Received) /\ Len(v.mb) \in Nat
      /\ p.part \in Nat \ {0} /\ p.gap \in Nat /\ intra \in BOOLEAN
      /\ <<>> \in Seq(Received) /\ Len(<<>>) = 0 /\ Beginning(<<>>)
  BY DEF Receiver, Received, Beginning
<1>2. CASE p.part > 1 /\ (v.mb = <<>> \/ p.gap > 0)
  <2>1. d = [to |-> [v EXCEPT !.mb = <<>>], err |-> FALSE, intra |-> FALSE]
    BY <1>2 DEF vp8_decode
  <2> HIDE DEF d
  <2>2. d.to \in [tmr : {v.tmr}, heard : {v.heard}, mb : {<<>>},
                  ref : {v.ref}, whole : {v.whole}]
    BY <2>1 DEF Receiver
  <2>3. d.err = FALSE /\ d.intra = FALSE
    BY <2>1
  <2> QED
    BY <1>1, <2>2, <2>3 DEF Receiver, d
<1>3. CASE ~(p.part > 1 /\ (v.mb = <<>> \/ p.gap > 0))
  <2>1. data \in Seq(Received) /\ Beginning(data) /\ Len(data) = p.part
        /\ data[Len(data)] = p /\ data # <<>>
    <3>1. CASE p.part = 1
      <4>1. data = <<p>>
        BY <3>1
      <4>2. <<p>> \in Seq(Received) /\ Len(<<p>>) = 1 /\ <<p>>[1] = p
        OBVIOUS
      <4> HIDE DEF data
      <4> QED
        BY <3>1, <4>1, <4>2 DEF Beginning
    <3>2. CASE p.part # 1
      <4>1. p.part = Len(v.mb) + 1 /\ p.gap = 0
        BY <1>1, <1>3, <3>2
      <4>2. data = Append(v.mb, p)
        BY <3>2
      <4>3. /\ data \in Seq(Received) /\ Len(data) = Len(v.mb) + 1
            /\ \A i \in 1..Len(v.mb)+1 :
                 data[i] = IF i = Len(v.mb) + 1 THEN p ELSE v.mb[i]
        <5>1. /\ data \in Seq(Received) /\ Len(data) = Len(v.mb) + 1
              /\ \A i \in 1..Len(v.mb) : data[i] = v.mb[i]
              /\ data[Len(v.mb)+1] = p
          BY <1>1, <4>2, AppendProperties
        <5> QED
          BY <1>1, <5>1
      <4> HIDE DEF data
      <4>4. Beginning(data)
        BY <1>1, <4>1, <4>3 DEF Beginning
      <4> QED
        BY <1>1, <4>1, <4>3, <4>4
    <3> QED
      BY <3>1, <3>2
  <2>2. d = IF p.marker THEN vpx_codec_decode(v, data, intra, fails)
            ELSE [to |-> [v EXCEPT !.mb = data], err |-> FALSE, intra |-> intra]
    BY <1>1, <1>3 DEF vp8_decode
  <2> HIDE DEF data, d, intra
  <2>3. CASE p.marker
    <3>1. IsFrame(data)
      BY <1>1, <2>1, <2>3 DEF IsFrame, Beginning, Last
    <3>2. d = [to |-> [v EXCEPT !.mb = <<>>, !.whole = IsFrame(data),
                 !.ref = IF fine THEN "intact" ELSE IF @ = "none" THEN @ ELSE "torn"],
               err |-> ~fine /\ (v.ref = "none" \/ fails),
               intra |-> intra]
      BY <2>2, <2>3 DEF vpx_codec_decode
    <3>3. (~fine /\ (v.ref = "none" \/ fails)) \in BOOLEAN
      OBVIOUS
    <3> HIDE DEF fine
    <3>4. d.to \in [tmr : {v.tmr}, heard : {v.heard}, mb : {<<>>},
                    ref : {"none", "intact", "torn"}, whole : {TRUE}]
      BY <3>1, <3>2 DEF Receiver
    <3>5. d.err \in BOOLEAN /\ d.intra = intra
      BY <3>2, <3>3
    <3> QED
      BY <1>1, <3>4, <3>5 DEF Receiver, d
  <2>4. CASE ~p.marker
    <3>1. d = [to |-> [v EXCEPT !.mb = data], err |-> FALSE, intra |-> intra]
      BY <2>2, <2>4
    <3>2. d.to \in [tmr : {v.tmr}, heard : {v.heard}, mb : {data},
                    ref : {v.ref}, whole : {v.whole}]
      BY <3>1 DEF Receiver
    <3> QED
      BY <1>1, <2>1, <3>1, <3>2 DEF Receiver, d
  <2> QED
    BY <2>3, <2>4
<1> QED
  BY <1>2, <1>3

(* The packets of a frame go behind those that are under way.              *)
LEMMA EncodeInOrder ==
  ASSUME NEW w \in Seq(Packet), InOrder(w), NEW k \in 1..Parts, NEW key \in BOOLEAN
  PROVE  /\ packetize(k, key) \in Seq(Packet) /\ Len(packetize(k, key)) = k
         /\ InOrder(w \o packetize(k, key))
         /\ w # <<>> => (w \o packetize(k, key))[1] = w[1]
         /\ w = <<>> => (w \o packetize(k, key))[1].part = 1
<1> DEFINE f == packetize(k, key)
           x == w \o f
           n == Len(w)
<1>1. k \in Nat /\ k >= 1 /\ n \in Nat
  BY VdConstants
<1>2. /\ f \in Seq(Packet) /\ Len(f) = k
      /\ \A i \in 1..k : f[i] \in Packet /\ f[i].part = i
  <2>1. f = [i \in 1..k |-> [part |-> i, marker |-> i = k, key |-> key]]
    BY DEF packetize
  <2>2. \A i \in 1..k : [part |-> i, marker |-> i = k, key |-> key] \in Packet
    BY <1>1 DEF Packet
  <2> HIDE DEF f
  <2> QED
    BY <1>1, <2>1, <2>2
<1> HIDE DEF f
<1>3. /\ x \in Seq(Packet) /\ Len(x) = n + k
      /\ \A i \in 1..n+k : x[i] = IF i <= n THEN w[i] ELSE f[i - n]
  <2>1. /\ x \in Seq(Packet) /\ Len(x) = n + Len(f)
        /\ \A i \in 1..n+Len(f) : x[i] = IF i <= n THEN w[i] ELSE f[i - n]
    BY <1>2, ConcatProperties
  <2> HIDE DEF x, n
  <2> QED
    BY <1>2, <2>1
<1> HIDE DEF x
<1>4. ASSUME NEW i \in 1..n+k-1
      PROVE  Follows(x[i], x[i+1])
  <2>1. i \in 1..n+k /\ i + 1 \in 1..n+k
    BY <1>1
  <2>2. CASE i + 1 <= n
    <3>1. x[i] = w[i] /\ x[i+1] = w[i+1] /\ i \in 1..n-1
      BY <1>1, <1>3, <2>1, <2>2
    <3> QED
      BY <3>1 DEF InOrder
  <2>3. CASE i = n
    <3>1. x[i+1] = f[1]
      <4>1. i + 1 - n = 1 /\ ~(i + 1 <= n)
        BY <1>1, <2>3
      <4> QED
        BY <1>3, <2>1, <4>1
    <3> QED
      BY <1>1, <1>2, <3>1 DEF Follows
  <2>4. CASE i > n
    <3>1. PICK j \in 1..k : j = i - n /\ j + 1 \in 1..k /\ j + 1 = i + 1 - n
      BY <1>1, <2>4
    <3>2. x[i] = f[j] /\ x[i+1] = f[j+1]
      BY <1>1, <1>3, <2>1, <2>4, <3>1
    <3> QED
      BY <1>2, <3>1, <3>2 DEF Follows
  <2> QED
    BY <1>1, <2>2, <2>3, <2>4
<1>5. InOrder(x)
  BY <1>1, <1>3, <1>4 DEF InOrder
<1>6. ASSUME w # <<>> PROVE x[1] = w[1]
  <2>1. 1 <= n /\ 1 \in 1..n+k
    BY <1>1, <1>6
  <2> QED
    BY <1>3, <2>1
<1>7. ASSUME w = <<>> PROVE x[1].part = 1
  <2>1. n = 0
    BY <1>7
  <2>2. 1 \in 1..n+k /\ ~(1 <= n) /\ 1 - n = 1 /\ 1 \in 1..k
    BY <1>1, <2>1
  <2>3. x[1] = f[1]
    BY <1>3, <2>2
  <2> QED
    BY <1>2, <2>2, <2>3
<1> QED
  BY <1>2, <1>5, <1>6, <1>7 DEF x, f

LEMMA ReceiveInv ==
  ASSUME VdInv, stream_recv_handler
  PROVE  VdInv'
<1> DEFINE p == Arrived
           torn == net.gap > 0 /\ vrx.ref = "intact"
           v == [vrx EXCEPT !.heard = TRUE, !.ref = IF torn THEN "torn" ELSE @]
           lost == jbuf /\ vrx.heard /\ net.gap > 0
<1>1. VdTypes /\ net.wire # <<>>
  BY DEF VdInv, stream_recv_handler
<1>2. /\ Way \in Seq(Packet)
      /\ Way # <<>> /\ Way[1] = Head(net.wire) /\ Head(net.wire) \in Packet
      /\ Tail(net.wire) \in Seq(Packet)
      /\ Len(Tail(net.wire)) = Len(net.wire) - 1
      /\ Tail(net.wire) \o sendq = Tail(Way)
  BY <1>1, WayFacts
<1>3. /\ InOrder(Tail(Way))
      /\ Tail(Way) # <<>> => Follows(Way[1], Tail(Way)[1])
  BY <1>2, TailInOrder DEF VdInv
<1>4. p \in Received /\ p.part = Way[1].part /\ p.gap = net.gap
  BY <1>1, <1>2 DEF Arrived, Received, Packet, VdTypes
<1>5. v \in [tmr : {vrx.tmr}, heard : {TRUE}, mb : {vrx.mb},
             ref : {"none", "intact", "torn"}, whole : {vrx.whole}]
  BY <1>1 DEF VdTypes, Receiver
<1>6. PICK fails \in BOOLEAN :
        LET d == vp8_decode(v, p, fails)
        IN /\ vrx' = [d.to EXCEPT !.tmr = d.err \/ ((@ \/ lost) /\ ~d.intra)]
           /\ net' = [net EXCEPT !.wire = Tail(@), !.gap = 0,
                                 !.fir = @ \/ ((lost \/ d.err) /\ ~vrx.tmr)]
  BY DEF stream_recv_handler
<1> DEFINE d == vp8_decode(v, p, fails)
           tmr == d.err \/ ((d.to.tmr \/ lost) /\ ~d.intra)
           fir == net.fir \/ ((lost \/ d.err) /\ ~vrx.tmr)
<1>7. vrx' = [d.to EXCEPT !.tmr = tmr]
      /\ net' = [net EXCEPT !.wire = Tail(@), !.gap = 0, !.fir = fir]
  BY <1>6
<1> HIDE DEF p, v
<1>8. /\ d.to \in Receiver
      /\ d.to.whole /\ d.to.heard = TRUE
      /\ Beginning(d.to.mb)
      /\ d.to.mb # <<>> => Len(d.to.mb) = p.part
  <2>1. v \in Receiver /\ v.mb = vrx.mb /\ v.whole /\ v.heard = TRUE
    BY <1>1, <1>5 DEF VdTypes, VdInv, Receiver
  <2>2. Beginning(v.mb)
    BY <2>1 DEF VdInv
  <2>3. v.mb # <<>> /\ p.gap = 0 => p.part \in {1, Len(v.mb) + 1}
    BY <1>2, <1>4, <2>1 DEF VdInv, Fits
  <2> QED
    BY <1>4, <2>1, <2>2, <2>3, DecodeWhole
<1> DEFINE to == d.to
<1>9. tmr \in BOOLEAN /\ fir \in BOOLEAN
  BY <1>1 DEF VdTypes
<1> HIDE DEF d, tmr, fir
<1>10. vrx' \in [tmr : {tmr}, heard : {TRUE}, mb : {to.mb}, ref : {to.ref},
                 whole : {to.whole}]
  BY <1>7, <1>8 DEF Receiver
<1>11. net' \in [wire : {Tail(net.wire)}, gap : {0}, fir : {fir}, lost : {net.lost}]
  BY <1>1, <1>7 DEF VdTypes
<1>12. vtx' = vtx /\ sendq' = sendq
  BY DEF stream_recv_handler
<1> HIDE DEF to
<1>13. VdTypes'
  <2>1. vrx' \in Receiver
    BY <1>8, <1>9, <1>10 DEF Receiver, to
  <2>2. net'.wire = Tail(net.wire) /\ net'.gap = 0 /\ net'.lost = net.lost
    BY <1>11
  <2>3. /\ Len(net'.wire) = Len(net.wire) - 1 /\ Len(net.wire) \in Nat
        /\ Len(net.wire) <= WireMax /\ net.lost \in Nat /\ net.lost <= Losses
    BY <1>1, <1>2, <2>2 DEF VdTypes
  <2>4. Len(Tail(net.wire)) <= WireMax /\ 0 <= net.lost /\ 0 \in Nat
    BY <2>2, <2>3, VdConstants
  <2>5. /\ net' \in [wire : Seq(Packet), gap : Nat, fir : BOOLEAN, lost : Nat]
        /\ Len(net'.wire) <= WireMax /\ net'.gap <= net'.lost /\ net'.lost <= Losses
    BY <1>2, <1>9, <1>11, <2>3, <2>4, NetTypes
  <2>6. vrx'.heard
    BY <1>10
  <2> QED
    BY <1>1, <1>12, <2>1, <2>5, <2>6 DEF VdTypes
<1>14. Way' = Tail(Way)
  BY <1>2, <1>11, <1>12 DEF Way
<1>15. vrx'.mb = to.mb /\ vrx'.whole = to.whole
  BY <1>10
<1>16. Fits(vrx.mb, net.gap, Way)'
  BY <1>3, <1>4, <1>8, <1>14, <1>15 DEF Fits, Follows, to
<1> QED
  BY <1>3, <1>8, <1>13, <1>14, <1>15, <1>16 DEF VdInv, to

LEMMA VdNextInv ==
  ASSUME VdInv, [VdNext]_vdVars
  PROVE  VdInv'
<1>1. VdTypes /\ Way \in Seq(Packet) /\ InOrder(Way)
  BY WayFacts DEF VdInv
<1>2. ASSUME Way' = Way, vrx' = vrx, net'.gap = net.gap, VdTypes'
      PROVE  VdInv'
  BY <1>2 DEF VdInv
<1>3. CASE vp8_encode
  <2>1. PICK key \in BOOLEAN, k \in 1..Parts :
          /\ vtx' = [vtx EXCEPT !.encoding = TRUE, !.fresh = FALSE]
          /\ sendq' = packetize(k, key)
    BY <1>3 DEF vp8_encode
  <2>2. /\ sendq = <<>> /\ net' = net /\ vrx' = vrx
        /\ vtx' \in [encoding : BOOLEAN, picup : BOOLEAN, fresh : BOOLEAN]
    BY <1>1, <1>3, <2>1 DEF vp8_encode, VdTypes
  <2>3. Way = net.wire /\ Way' = Way \o packetize(k, key)
    BY <1>1, <2>1, <2>2, ConcatEmptySeq DEF Way, VdTypes
  <2>4. /\ packetize(k, key) \in Seq(Packet) /\ Len(packetize(k, key)) = k
        /\ InOrder(Way')
        /\ Way # <<>> => Way'[1] = Way[1]
        /\ Way = <<>> => Way'[1].part = 1
    BY <1>1, <2>3, EncodeInOrder
  <2>5. k <= Parts
    BY VdConstants
  <2>6. VdTypes'
    BY <1>1, <2>1, <2>2, <2>4, <2>5 DEF VdTypes
  <2>7. Fits(vrx.mb, net.gap, Way)'
    BY <2>2, <2>4 DEF Fits, VdInv
  <2> QED
    BY <2>2, <2>4, <2>6, <2>7 DEF VdInv
<1>4. CASE encode_rtp_send
  <2>1. vtx' \in [encoding : BOOLEAN, picup : BOOLEAN, fresh : BOOLEAN]
    BY <1>1, <1>4 DEF encode_rtp_send, VdTypes
  <2>2. sendq' = sendq /\ net' = net /\ vrx' = vrx
    BY <1>4 DEF encode_rtp_send
  <2> QED
    BY <1>1, <1>2, <2>1, <2>2 DEF VdTypes, Way
<1>5. CASE vidqueue_poll
  <2>1. PICK k \in 1..Len(sendq) :
          /\ Len(net.wire) + k <= WireMax
          /\ sendq' = SubSeq(sendq, k + 1, Len(sendq))
          /\ net' = [net EXCEPT !.wire = @ \o SubSeq(sendq, 1, k)]
          /\ vtx' = vtx /\ vrx' = vrx
    BY <1>5 DEF vidqueue_poll
  <2> DEFINE a == SubSeq(sendq, 1, k)
             b == SubSeq(sendq, k + 1, Len(sendq))
  <2>2. /\ sendq \in Seq(Packet) /\ Len(sendq) \in Nat /\ k \in Nat
        /\ net.wire \in Seq(Packet) /\ Len(net.wire) \in Nat
    BY <1>1 DEF VdTypes
  <2>3. /\ a \in Seq(Packet) /\ Len(a) = k
        /\ b \in Seq(Packet) /\ Len(b) = Len(sendq) - k
    <3>1. (\A i \in 1..k : sendq[i] \in Packet)
          /\ \A i \in k+1..Len(sendq) : sendq[i] \in Packet
      BY <2>2
    <3>2. a \in Seq(Packet) /\ Len(a) = IF 1 <= k THEN k - 1 + 1 ELSE 0
      BY <2>2, <3>1, SubSeqProperties
    <3>3. b \in Seq(Packet)
          /\ Len(b) = IF k + 1 <= Len(sendq) THEN Len(sendq) - (k + 1) + 1 ELSE 0
      BY <2>2, <3>1, SubSeqProperties
    <3> HIDE DEF a, b
    <3> QED
      BY <2>2, <3>2, <3>3
  <2>4. a \o b = sendq
    <3>1. SubSeq(sendq, 1, k) \o SubSeq(sendq, k + 1, Len(sendq))
            = SubSeq(sendq, 1, Len(sendq))
      BY <2>2, ConcatAdjacentSubSeq
    <3> QED
      BY <2>2, <3>1, SubSeqFull
  <2>5. net' = [net EXCEPT !.wire = @ \o a] /\ sendq' = b
    BY <2>1
  <2> HIDE DEF a, b
  <2>6. net.wire \o a \in Seq(Packet) /\ Len(net.wire \o a) = Len(net.wire) + k
    BY <2>2, <2>3, ConcatProperties
  <2>7. net' \in [wire : {net.wire \o a}, gap : {net.gap}, fir : {net.fir},
                  lost : {net.lost}]
    BY <1>1, <2>5 DEF VdTypes
  <2>8. VdTypes'
    <3>1. /\ Len(net.wire \o a) <= WireMax /\ Len(b) <= Parts
          /\ net.gap \in Nat /\ net.fir \in BOOLEAN /\ net.lost \in Nat
          /\ net.gap <= net.lost /\ net.lost <= Losses
      BY <1>1, <2>1, <2>2, <2>3, <2>6, VdConstants DEF VdTypes
    <3>2. /\ net' \in [wire : Seq(Packet), gap : Nat, fir : BOOLEAN, lost : Nat]
          /\ Len(net'.wire) <= WireMax /\ net'.gap <= net'.lost /\ net'.lost <= Losses
      BY <2>6, <2>7, <3>1, NetTypes
    <3> QED
      BY <1>1, <2>1, <2>3, <2>5, <3>1, <3>2 DEF VdTypes
  <2>9. Way' = Way
    <3>1. net'.wire = net.wire \o a
      BY <2>7
    <3>2. (net.wire \o a) \o b = net.wire \o (a \o b)
      BY <2>2, <2>3, PacketsJoin
    <3> QED
      BY <2>4, <2>5, <3>1, <3>2 DEF Way
  <2> QED
    BY <1>2, <2>1, <2>7, <2>8, <2>9
<1>6. CASE rtcp_handler
  <2>1. net' \in [wire : {net.wire}, gap : {net.gap}, fir : BOOLEAN,
                  lost : {IF vtx.encoding THEN net.lost + 1 ELSE net.lost}]
    BY <1>1, <1>6 DEF rtcp_handler, VdTypes
  <2>2. vtx' \in [encoding : BOOLEAN, picup : BOOLEAN, fresh : BOOLEAN]
    BY <1>1, <1>6 DEF rtcp_handler, VdTypes
  <2>3. sendq' = sendq /\ vrx' = vrx
    BY <1>6 DEF rtcp_handler
  <2>4. /\ net'.lost \in Nat /\ net.lost <= net'.lost /\ net'.lost <= Losses
        /\ net.gap \in Nat
    BY <1>1, <1>6, <2>1, VdConstants DEF VdTypes, rtcp_handler
  <2>5. VdTypes'
    BY <1>1, <2>1, <2>2, <2>3, <2>4 DEF VdTypes
  <2> QED
    BY <1>2, <2>1, <2>3, <2>5 DEF Way
<1>7. CASE LosePacket
  <2>1. /\ net.wire # <<>> /\ net.lost < Losses
        /\ net' = [net EXCEPT !.wire = Tail(@), !.gap = @ + 1, !.lost = @ + 1]
        /\ vtx' = vtx /\ sendq' = sendq /\ vrx' = vrx
    BY <1>7 DEF LosePacket
  <2>2. /\ Way # <<>> /\ Tail(net.wire) \in Seq(Packet)
        /\ Len(Tail(net.wire)) = Len(net.wire) - 1 /\ Len(net.wire) \in Nat
        /\ Tail(net.wire) \o sendq = Tail(Way)
    BY <1>1, <2>1, WayFacts DEF VdTypes
  <2>3. net' \in [wire : {Tail(net.wire)}, gap : {net.gap + 1}, fir : {net.fir},
                  lost : {net.lost + 1}]
    BY <1>1, <2>1 DEF VdTypes
  <2>4. VdTypes'
    <3>1. /\ Len(Tail(net.wire)) <= WireMax /\ net.fir \in BOOLEAN
          /\ net.gap + 1 \in Nat /\ net.lost + 1 \in Nat
          /\ net.gap + 1 <= net.lost + 1 /\ net.lost + 1 <= Losses
      BY <1>1, <2>1, <2>2, VdConstants DEF VdTypes
    <3>2. /\ net' \in [wire : Seq(Packet), gap : Nat, fir : BOOLEAN, lost : Nat]
          /\ Len(net'.wire) <= WireMax /\ net'.gap <= net'.lost /\ net'.lost <= Losses
      BY <2>2, <2>3, <3>1, NetTypes
    <3> QED
      BY <1>1, <2>1, <3>2 DEF VdTypes
  <2>5. Way' = Tail(Way)
    BY <2>1, <2>2, <2>3 DEF Way
  <2>6. InOrder(Way')
    BY <1>1, <2>2, <2>5, TailInOrder
  <2>7. Fits(vrx.mb, net.gap, Way)'
    BY <1>1, <2>3 DEF Fits, VdTypes
  <2> QED
    BY <2>1, <2>4, <2>6, <2>7 DEF VdInv
<1>8. CASE LoseRequest
  <2>1. /\ net' = [net EXCEPT !.fir = FALSE, !.lost = @ + 1]
        /\ net.lost < Losses /\ vtx' = vtx /\ sendq' = sendq /\ vrx' = vrx
    BY <1>8 DEF LoseRequest
  <2>2. net' \in [wire : {net.wire}, gap : {net.gap}, fir : {FALSE},
                  lost : {net.lost + 1}]
    BY <1>1, <2>1 DEF VdTypes
  <2>3. VdTypes'
    <3>1. /\ net.wire \in Seq(Packet) /\ Len(net.wire) <= WireMax
          /\ net.gap \in Nat /\ net.lost + 1 \in Nat
          /\ net.gap <= net.lost + 1 /\ net.lost + 1 <= Losses
      BY <1>1, <2>1, VdConstants DEF VdTypes
    <3>2. /\ net' \in [wire : Seq(Packet), gap : Nat, fir : BOOLEAN, lost : Nat]
          /\ Len(net'.wire) <= WireMax /\ net'.gap <= net'.lost /\ net'.lost <= Losses
      BY <2>2, <3>1, NetTypes
    <3> QED
      BY <1>1, <2>1, <3>2 DEF VdTypes
  <2> QED
    BY <1>2, <2>1, <2>2, <2>3 DEF Way
<1>9. CASE picup_tmr_handler
  <2>1. net' = [net EXCEPT !.fir = TRUE] /\ vtx' = vtx /\ sendq' = sendq /\ vrx' = vrx
    BY <1>9 DEF picup_tmr_handler
  <2>2. net' \in [wire : {net.wire}, gap : {net.gap}, fir : {TRUE}, lost : {net.lost}]
    BY <1>1, <2>1 DEF VdTypes
  <2>3. VdTypes'
    BY <1>1, <2>1, <2>2 DEF VdTypes
  <2> QED
    BY <1>2, <2>1, <2>2, <2>3 DEF Way
<1>10. CASE UNCHANGED vdVars
  <2>1. vtx' = vtx /\ sendq' = sendq /\ net' = net /\ vrx' = vrx
    BY <1>10 DEF vdVars
  <2>2. VdTypes' /\ Way' = Way
    BY <1>1, <2>1 DEF VdTypes, Way
  <2> QED
    BY <1>2, <2>1, <2>2
<1> QED
  BY <1>3, <1>4, <1>5, <1>6, <1>7, <1>8, <1>9, <1>10, ReceiveInv DEF VdNext

LEMMA VdInvMeans ==
  ASSUME VdInv
  PROVE  VdTypeOK /\ DecodedWhole
BY VdConstants DEF VdInv, VdTypes, VdTypeOK, Receiver, DecodedWhole

(* Every variable of the video keeps its type, and the queues their bounds *)
(* (video.c).                                                              *)
THEOREM VideoTypes == VdSpec => []VdTypeOK
BY VdInvMeans, VdInitInv, VdNextInv, PTL DEF VdSpec

(* The codec is given whole frames only, whatever the network lost and     *)
(* whether losses are counted (vp8_decode() and stream_recv_handler()).    *)
THEOREM FramesAreWhole == VdSpec => []DecodedWhole
BY VdInvMeans, VdInitInv, VdNextInv, PTL DEF VdSpec

(***************************************************************************)
(* Gather.                                                                 *)
(*                                                                         *)
(* The three ways of counting: stun and turn count medias that are not     *)
(* ready, which a change of an address upsets (CountInv); natpmp and pcp   *)
(* ask whether every grant came, and forget the handler (GrantInv); ice    *)
(* counts requests under way, of each media (IceInv).  None of them        *)
(* reports before it has started, and only ice does again (Phases).        *)
(***************************************************************************)


States == UnderWay \cup {"idle", "done", "failed", "lost"}
App == [open : BOOLEAN, wait : BOOLEAN, modify : Nat]

GaTypes ==
  /\ nat \in AllNatKinds
  /\ nsess \in [dns : BOOLEAN, mediac : Int, estabh : BOOLEAN, started : BOOLEAN,
                reinvite : BOOLEAN, offerer : BOOLEAN]
  /\ req \in [Requests -> States]
  /\ med \in [Medias -> [nstun : Int, gathered : BOOLEAN, complete : BOOLEAN]]
  /\ app \in App
  /\ moved \in BOOLEAN

(* Medias that wait for an answer, and requests of ICE that do.            *)
Undone(q) == {m \in Medias : \E c \in Comps : q[<<m, c>>] # "done"}
Asked(q, m) == {c \in Comps : q[<<m, c>>] \in {"turn", "stun"}}

(* What can have happened in each phase of a session.                      *)
Phases ==
  /\ ~nsess.dns => (\A r \in Requests : req[r] = "idle") /\ app.wait /\ ~moved
  /\ nsess.dns /\ app.open => \A r \in Requests : req[r] # "idle"
  /\ Granting => nsess.dns
  /\ nsess.started => Ice /\ ~app.wait
  /\ app.modify > 0 => nsess.started

(* The count of stun and turn is that of the medias which are not done, but*)
(* for addresses that changed.                                             *)
CountInv ==
  LET n == Cardinality(Undone(req)) IN
  IF Counted
  THEN /\ nsess.mediac <= n /\ nsess.mediac >= n - 1 - Cardinality(Medias)
       /\ ~app.wait => nsess.mediac <= 0
       /\ app.wait /\ ~moved => nsess.mediac = n
       /\ app.open /\ ~app.wait /\ ~moved => Undone(req) = {}
  ELSE nsess.mediac = Cardinality(Medias)

(* The call of natpmp and pcp goes on when nothing is asked any more, and  *)
(* no request was lost.                                                    *)
GrantInv ==
  Granting =>
    /\ nsess.estabh => app.wait
    /\ \A r \in Requests : req[r] \in {"stun", "done", "refresh", "failed", "lost"}
    /\ app.open /\ ~app.wait => \A r \in Requests : Granted(req, r)

(* Each media of ICE counts its own requests, and the report is sent when  *)
(* all its checks have ended.                                              *)
IceInv ==
  IF Ice
  THEN /\ \A m \in Medias : med[m].nstun = Cardinality(Asked(req, m))
       /\ \A r \in Requests : req[r] \notin {"refresh", "lost"}
       /\ \A m \in Medias : med[m].gathered =>
            \A c \in Comps : req[<<m, c>>] \in {"done", "failed"}
       /\ ~app.wait => \A m \in Medias : med[m].gathered
       /\ app.modify > 0 =>
            nsess.offerer /\ app.modify = 1 /\ \A m \in Medias : med[m].complete
  ELSE \A m \in Medias : med[m].nstun = 0

GaInv == GaTypes /\ Phases /\ CountInv /\ GrantInv /\ IceInv

(* A session is of one kind.                                               *)
LEMMA Kinds ==
  ASSUME GaTypes
  PROVE  /\ Counted \/ Granting \/ Ice
         /\ ~(Counted /\ Granting) /\ ~(Counted /\ Ice) /\ ~(Granting /\ Ice)
BY DEF GaTypes, AllNatKinds, Counted, Granting, Ice

(* A request is a media and a component.                                   *)
LEMMA Pairs ==
  ASSUME NEW r \in Requests
  PROVE  r[1] \in Medias /\ r[2] \in Comps /\ r = <<r[1], r[2]>>
BY DEF Requests

LEMMA UndoneFacts ==
  ASSUME NEW q
  PROVE  /\ IsFiniteSet(Undone(q)) /\ IsFiniteSet(Medias)
         /\ Cardinality(Undone(q)) \in Nat /\ Cardinality(Medias) \in Nat
         /\ Cardinality(Undone(q)) <= Cardinality(Medias)
BY GatherAssumption, FS_Subset, FS_CardinalityType DEF Undone

LEMMA AskedFacts ==
  ASSUME NEW q, NEW m
  PROVE  /\ IsFiniteSet(Asked(q, m)) /\ IsFiniteSet(Comps)
         /\ Cardinality(Asked(q, m)) \in Nat /\ Cardinality(Comps) \in Nat
         /\ Cardinality(Asked(q, m)) <= Cardinality(Comps)
BY GatherAssumption, FS_Subset, FS_CardinalityType DEF Asked

(* All medias are asked for, or none.                                      *)
LEMMA AllUndone ==
  ASSUME NEW q, \A r \in Requests : q[r] # "done"
  PROVE  Undone(q) = Medias
<1>1. ASSUME NEW m \in Medias
      PROVE  m \in Undone(q)
  <2>1. PICK c \in Comps : TRUE
    BY GatherAssumption
  <2>2. <<m, c>> \in Requests
    BY DEF Requests
  <2> QED
    BY <2>2 DEF Undone
<1> QED
  BY <1>1 DEF Undone

LEMMA AllAsked ==
  ASSUME NEW q, NEW m \in Medias
  PROVE  /\ (\A r \in Requests : q[r] \in {"turn", "stun"}) =>
              Cardinality(Asked(q, m)) = Cardinality(Comps)
         /\ (\A r \in Requests : q[r] \notin {"turn", "stun"}) =>
              Cardinality(Asked(q, m)) = 0
<1>1. \A c \in Comps : <<m, c>> \in Requests
  BY DEF Requests
<1>2. ASSUME \A r \in Requests : q[r] \in {"turn", "stun"}
      PROVE  Asked(q, m) = Comps
  BY <1>1, <1>2 DEF Asked
<1>3. ASSUME \A r \in Requests : q[r] \notin {"turn", "stun"}
      PROVE  Asked(q, m) = {}
  BY <1>1, <1>3 DEF Asked
<1> QED
  BY <1>2, <1>3, FS_EmptySet

(* What an answer of stun or turn does to the medias that are not ready.   *)
LEMMA UndoneStep ==
  ASSUME NEW q \in [Requests -> States], NEW r \in Requests
  PROVE  LET p == [q EXCEPT ![r] = "done"] IN
         /\ (\E s \in Others(r) : q[s] # "done") => Undone(p) = Undone(q)
         /\ q[r] = "done" => Undone(p) = Undone(q)
         /\ ~(\E s \in Others(r) : q[s] # "done") /\ q[r] # "done" =>
              /\ Undone(p) = Undone(q) \ {r[1]}
              /\ Cardinality(Undone(p)) = Cardinality(Undone(q)) - 1
<1> DEFINE p == [q EXCEPT ![r] = "done"]
<1>1. r[1] \in Medias /\ r[2] \in Comps /\ r = <<r[1], r[2]>>
  BY Pairs
<1>2. /\ \A s \in Requests : p[s] = IF s = r THEN "done" ELSE q[s]
      /\ \A m \in Medias, c \in Comps : <<m, c>> \in Requests
  BY DEF Requests
<1> HIDE DEF p
<1>3. ASSUME NEW m \in Medias, m # r[1]
      PROVE  m \in Undone(p) <=> m \in Undone(q)
  <2>1. \A c \in Comps : <<m, c>> # r /\ <<m, c>> \in Requests
    BY <1>1, <1>2, <1>3
  <2> QED
    BY <1>2, <2>1 DEF Undone
<1>4. ASSUME NEW s \in Others(r), q[s] # "done"
      PROVE  Undone(p) = Undone(q)
  <2>1. s \in Requests /\ s # r /\ s[1] = r[1] /\ s = <<r[1], s[2]>> /\ s[2] \in Comps
    BY Pairs DEF Others
  <2>2. p[<<r[1], s[2]>>] # "done" /\ q[<<r[1], s[2]>>] # "done"
    BY <1>2, <1>4, <2>1
  <2>3. r[1] \in Undone(p) /\ r[1] \in Undone(q)
    BY <1>1, <2>1, <2>2 DEF Undone
  <2>4. Undone(p) \subseteq Medias /\ Undone(q) \subseteq Medias
    BY DEF Undone
  <2> QED
    BY <1>3, <2>3, <2>4
<1>5. ASSUME q[r] = "done"
      PROVE  Undone(p) = Undone(q)
  <2>1. p = q
    BY <1>5 DEF p
  <2> QED
    BY <2>1
<1>6. ASSUME ~(\E s \in Others(r) : q[s] # "done"), q[r] # "done"
      PROVE  /\ Undone(p) = Undone(q) \ {r[1]}
             /\ Cardinality(Undone(p)) = Cardinality(Undone(q)) - 1
  <2>1. ASSUME NEW c \in Comps
        PROVE  p[<<r[1], c>>] = "done"
    <3>1. <<r[1], c>> \in Requests /\ <<r[1], c>>[1] = r[1]
      BY <1>1, <1>2
    <3>2. CASE <<r[1], c>> = r
      BY <1>2, <3>1, <3>2
    <3>3. CASE <<r[1], c>> # r
      BY <1>2, <1>6, <3>1, <3>3 DEF Others
    <3> QED
      BY <3>2, <3>3
  <2>2. r[1] \notin Undone(p)
    BY <2>1 DEF Undone
  <2>3. r[1] \in Undone(q)
    BY <1>1, <1>6 DEF Undone
  <2>4. Undone(p) \subseteq Medias /\ Undone(q) \subseteq Medias
    BY DEF Undone
  <2>5. Undone(p) = Undone(q) \ {r[1]}
    BY <1>3, <2>2, <2>3, <2>4
  <2> QED
    BY <2>3, <2>5, UndoneFacts, FS_RemoveElement
<1> QED
  BY <1>4, <1>5, <1>6 DEF p

(* What an answer does to the requests under way of a media, with ICE.     *)
LEMMA AskedStep ==
  ASSUME NEW q \in [Requests -> States], NEW r \in Requests, NEW to \in States,
         q[r] \in {"turn", "stun"}
  PROVE  LET p == [q EXCEPT ![r] = to] IN
         /\ \A m \in Medias : m # r[1] => Asked(p, m) = Asked(q, m)
         /\ to \in {"turn", "stun"} => Asked(p, r[1]) = Asked(q, r[1])
         /\ to \notin {"turn", "stun"} =>
              Cardinality(Asked(p, r[1])) = Cardinality(Asked(q, r[1])) - 1
<1> DEFINE p == [q EXCEPT ![r] = to]
<1>1. r[1] \in Medias /\ r[2] \in Comps /\ r = <<r[1], r[2]>>
  BY Pairs
<1>2. /\ \A s \in Requests : p[s] = IF s = r THEN to ELSE q[s]
      /\ \A m \in Medias, c \in Comps : <<m, c>> \in Requests
  BY DEF Requests
<1> HIDE DEF p
<1>3. ASSUME NEW m \in Medias, NEW c \in Comps, m # r[1] \/ c # r[2]
      PROVE  p[<<m, c>>] = q[<<m, c>>]
  BY <1>1, <1>2, <1>3
<1>4. \A m \in Medias : m # r[1] => Asked(p, m) = Asked(q, m)
  BY <1>3 DEF Asked
<1>5. p[<<r[1], r[2]>>] = to /\ q[<<r[1], r[2]>>] \in {"turn", "stun"}
  BY <1>1, <1>2
<1>6. to \in {"turn", "stun"} => Asked(p, r[1]) = Asked(q, r[1])
  BY <1>1, <1>3, <1>5 DEF Asked
<1>7. ASSUME to \notin {"turn", "stun"}
      PROVE  Cardinality(Asked(p, r[1])) = Cardinality(Asked(q, r[1])) - 1
  <2>1. r[2] \in Asked(q, r[1]) /\ Asked(p, r[1]) = Asked(q, r[1]) \ {r[2]}
    BY <1>1, <1>3, <1>5, <1>7 DEF Asked
  <2> DEFINE old == Asked(q, r[1])
  <2>2. IsFiniteSet(old) /\ r[2] \in old
    BY <2>1, AskedFacts
  <2> HIDE DEF old
  <2>3. Cardinality(old \ {r[2]}) = Cardinality(old) - 1
    BY <2>2, FS_RemoveElement
  <2> QED
    BY <2>1, <2>3 DEF old
<1> QED
  BY <1>4, <1>6, <1>7 DEF p

(* A report to the call.                                                   *)
LEMMA ReportFacts ==
  ASSUME app \in App, NEW ok \in BOOLEAN, mnat_handler(ok)
  PROVE  /\ app' \in App
         /\ app'.open <=> app.open /\ ok
         /\ app'.wait <=> app.wait /\ ~ok
         /\ app'.modify = IF ok /\ ~app.wait THEN app.modify + 1 ELSE app.modify
<1>1. CASE ~ok
  <2>1. app' \in [open : {FALSE}, wait : {app.wait}, modify : {app.modify}]
    BY <1>1 DEF mnat_handler, App
  <2> QED
    BY <1>1, <2>1 DEF App
<1>2. CASE ok /\ app.wait
  <2>1. app' \in [open : {app.open}, wait : {FALSE}, modify : {app.modify}]
    BY <1>2 DEF mnat_handler, App
  <2> QED
    BY <1>2, <2>1 DEF App
<1>3. CASE ok /\ ~app.wait
  <2>1. app' \in [open : {app.open}, wait : {app.wait}, modify : {app.modify + 1}]
    BY <1>3 DEF mnat_handler, App
  <2>2. app.modify + 1 \in Nat
    BY DEF App
  <2> QED
    BY <1>3, <2>1, <2>2 DEF App
<1> QED
  BY <1>1, <1>2, <1>3

LEMMA GaInitInv ==
  ASSUME nat \in AllNatKinds, session_alloc, media_alloc, moved = FALSE,
         app \in [open : BOOLEAN, wait : {TRUE}, modify : {0}]
  PROVE  GaInv
<1>2. IsFiniteSet(Medias) /\ Cardinality(Medias) \in Nat
      /\ Cardinality({}) = 0
  BY UndoneFacts, FS_EmptySet
<1>3. /\ nsess \in [dns : {Granting}, mediac : {Cardinality(Medias)}, estabh : {TRUE},
                    started : {FALSE}, reinvite : {FALSE}, offerer : BOOLEAN]
      /\ req = [r \in Requests |-> IF Granting THEN "stun" ELSE "idle"]
      /\ med = [m \in Medias |-> [nstun |-> 0, gathered |-> FALSE, complete |-> FALSE]]
      /\ app.wait = TRUE /\ app.modify = 0
      /\ app \in [open : BOOLEAN, wait : {TRUE}, modify : {0}]
  BY DEF session_alloc, media_alloc
<1>4. GaTypes
  <2>1. Granting \in BOOLEAN
    BY DEF Granting
  <2>2. nsess \in [dns : BOOLEAN, mediac : Int, estabh : BOOLEAN, started : BOOLEAN,
                  reinvite : BOOLEAN, offerer : BOOLEAN]
    <3> DEFINE g == Granting
               n == Cardinality(Medias)
    <3>1. g \in BOOLEAN /\ n \in Int
      BY <1>2, <2>1
    <3>2. nsess \in [dns : {g}, mediac : {n}, estabh : {TRUE},
                    started : {FALSE}, reinvite : {FALSE}, offerer : BOOLEAN]
      BY <1>3
    <3> HIDE DEF g, n
    <3> QED
      BY ONLY <3>1, <3>2
  <2>3. req \in [Requests -> States]
    BY <1>3 DEF States, UnderWay
  <2>4. med \in [Medias -> [nstun : Int, gathered : BOOLEAN, complete : BOOLEAN]]
    BY <1>3
  <2>5. app \in App
    <3>1. 0 \in Nat /\ app \in [open : BOOLEAN, wait : {TRUE}, modify : {0}]
      OBVIOUS
    <3> QED
      BY ONLY <3>1 DEF App
  <2> QED
    BY <2>2, <2>3, <2>4, <2>5 DEF GaTypes
<1>5. Phases
  <2>1. ~nsess.started /\ nsess.dns = Granting /\ app.modify = 0 /\ app.wait
    BY <1>3
  <2>2. \A r \in Requests : req[r] = IF Granting THEN "stun" ELSE "idle"
    BY <1>3
  <2>3. CASE Granting
    BY <2>1, <2>2, <2>3 DEF Phases
  <2>4. CASE ~Granting
    <3>1. nsess.dns = FALSE
      BY <2>1, <2>4
    <3>2. \A r \in Requests : req[r] = "idle"
      BY <2>2, <2>4
    <3> QED
      BY <2>1, <2>4, <3>1, <3>2 DEF Phases
  <2> QED
    BY <2>3, <2>4
<1>6. CountInv
  <2>1. Counted => Undone(req) = Medias
    <3>1. ASSUME Counted, NEW m \in Medias
          PROVE  m \in Undone(req)
      <4>1. PICK c \in Comps : TRUE
        BY GatherAssumption
      <4>2. <<m, c>> \in Requests
        BY DEF Requests
      <4>3. req[<<m, c>>] = "idle"
        BY <1>3, <3>1, <4>2 DEF Counted, Granting
      <4> QED
        BY <4>1, <4>3 DEF Undone
    <3> QED
      BY <3>1 DEF Undone
  <2>2. nsess.mediac = Cardinality(Medias) /\ app.wait
    BY <1>3
  <2> QED
    BY <1>2, <2>1, <2>2 DEF CountInv
<1>7. GrantInv
  BY <1>3 DEF GrantInv
<1>8. IceInv
  <2>1. ASSUME Ice, NEW m \in Medias
        PROVE  Asked(req, m) = {}
    <3>1. \A c \in Comps : req[<<m, c>>] = "idle"
      BY <1>3, <2>1 DEF Requests, Ice, Granting
    <3> QED
      BY <3>1 DEF Asked
  <2>2. \A r \in Requests : req[r] \notin {"refresh", "lost"}
    BY <1>3
  <2>3. \A m \in Medias : med[m].nstun = 0 /\ med[m].gathered = FALSE
    BY <1>3
  <2> QED
    <3>1. CASE Ice
      <4>1. \A m \in Medias : med[m].nstun = Cardinality(Asked(req, m))
        BY <1>2, <2>1, <2>3, <3>1
      <4>2. app.wait /\ app.modify = 0
        BY <1>3
      <4> QED
        BY <2>2, <2>3, <3>1, <4>1, <4>2 DEF IceInv
    <3>2. CASE ~Ice
      BY <2>3, <3>2 DEF IceInv
    <3> QED
      BY <3>1, <3>2
<1> QED
  BY <1>4, <1>5, <1>6, <1>7, <1>8 DEF GaInv

(* The name is looked up, all medias start.                                *)
LEMMA DnsInv ==
  ASSUME GaInv, NEW ok \in BOOLEAN, dns_handler(ok)
  PROVE  GaInv'
<1>1. /\ GaTypes /\ ~nsess.dns /\ nsess.dns \in BOOLEAN /\ app \in App
  BY DEF GaInv, GaTypes, dns_handler
<1>2. /\ \A r \in Requests : req[r] = "idle"
      /\ app.wait /\ ~moved /\ ~nsess.started /\ ~Granting
      /\ ~(app.modify > 0)
  BY <1>1 DEF GaInv, Phases
<1>3. app.modify = 0
  BY <1>1, <1>2 DEF App
<1>4. /\ nsess' = [nsess EXCEPT !.dns = TRUE] /\ nat' = nat /\ moved' = moved
  BY DEF dns_handler
<1>5. nsess' \in [dns : {TRUE}, mediac : {nsess.mediac}, estabh : {nsess.estabh},
                  started : {nsess.started}, reinvite : {nsess.reinvite},
                  offerer : {nsess.offerer}]
  BY <1>1, <1>4 DEF GaTypes
<1>6. nsess' \in [dns : BOOLEAN, mediac : Int, estabh : BOOLEAN, started : BOOLEAN,
                  reinvite : BOOLEAN, offerer : BOOLEAN]
  BY <1>1, <1>5 DEF GaTypes
<1>7. /\ (Counted' <=> Counted) /\ (Granting' <=> Granting) /\ (Ice' <=> Ice)
      /\ nsess'.mediac = nsess.mediac /\ nsess'.started = nsess.started
      /\ nsess'.offerer = nsess.offerer /\ nsess'.dns
  BY <1>4, <1>5 DEF Counted, Granting, Ice
<1>8. CASE ~ok
  <2>1. req' = req /\ med' = med /\ mnat_handler(FALSE)
    BY <1>8 DEF dns_handler
  <2>2. /\ app' \in App /\ ~app'.open /\ app'.wait
        /\ app'.modify = app.modify
    BY <1>1, <1>2, <2>1, ReportFacts
  <2>3. GaTypes'
    BY <1>1, <1>4, <1>6, <2>1, <2>2 DEF GaTypes
  <2>4. Phases'
    BY <1>2, <1>3, <1>7, <2>2 DEF Phases
  <2>5. CountInv'
    BY <1>2, <1>4, <1>7, <2>1, <2>2 DEF CountInv, GaInv
  <2>6. GrantInv'
    BY <1>2, <1>7 DEF GrantInv
  <2>7. IceInv'
    BY <1>3, <1>7, <2>1, <2>2 DEF IceInv, GaInv
  <2> QED
    BY <2>3, <2>4, <2>5, <2>6, <2>7 DEF GaInv
<1>9. CASE ok
  <2> DEFINE asked == IF nat \in {"ice_stun", "ice_turn"} THEN Cardinality(Comps) ELSE 0
  <2>1. /\ req' = [r \in Requests |-> FirstRequest]
        /\ med' = [m \in Medias |->
                     [med[m] EXCEPT !.gathered = nat = "ice", !.nstun = asked]]
        /\ nat = "ice" => mnat_handler(TRUE)
        /\ nat # "ice" => app' = app
    BY <1>9 DEF dns_handler
  <2>2. asked \in Int
    BY AskedFacts
  <2>3. FirstRequest \in {"turn", "stun", "done"}
        /\ (FirstRequest = "done" <=> nat = "ice")
    BY DEF FirstRequest
  <2> HIDE DEF asked
  <2>4. /\ req' \in [Requests -> States]
        /\ \A r \in Requests : req'[r] = FirstRequest
    BY <2>1, <2>3 DEF States, UnderWay
  <2>5. \A m \in Medias :
          med'[m] \in [nstun : {asked}, gathered : {nat = "ice"},
                       complete : {med[m].complete}]
    BY <1>1, <2>1 DEF GaTypes
  <2>6. med' \in [Medias -> [nstun : Int, gathered : BOOLEAN, complete : BOOLEAN]]
    <3>1. \A m \in Medias : med[m].complete \in BOOLEAN
      BY <1>1 DEF GaTypes
    <3>2. \A m \in Medias :
            med'[m] \in [nstun : Int, gathered : BOOLEAN, complete : BOOLEAN]
      BY <2>2, <2>5, <3>1
    <3>3. DOMAIN med' = Medias /\ med' = [m \in Medias |-> med'[m]]
      BY <2>1
    <3> QED
      BY <3>2, <3>3
  <2>7. /\ app' \in App /\ app'.modify = app.modify
        /\ app'.wait <=> nat # "ice"
    BY <1>1, <1>2, <2>1, ReportFacts
  <2>8. GaTypes'
    BY <1>1, <1>4, <1>6, <2>4, <2>6, <2>7 DEF GaTypes
  <2>9. Phases'
    BY <1>2, <1>3, <1>7, <2>3, <2>4, <2>7 DEF Phases
  <2>10. CountInv'
    <3>1. CASE ~Counted
      BY <1>7, <3>1 DEF CountInv, GaInv
    <3>2. CASE Counted
      <4>1. nat # "ice"
        BY <3>2 DEF Counted
      <4>2. /\ \A r \in Requests : req[r] # "done"
            /\ \A r \in Requests : req'[r] # "done"
        BY <1>2, <2>3, <2>4, <4>1
      <4>3. Undone(req) = Medias /\ Undone(req') = Medias
        BY <4>2, AllUndone
      <4>4. /\ app' = app /\ moved' = moved /\ nsess'.mediac = nsess.mediac
        BY <1>4, <1>7, <2>1, <4>1
      <4> QED
        BY <1>7, <3>2, <4>3, <4>4 DEF CountInv, GaInv
    <3> QED
      BY <3>1, <3>2
  <2>11. GrantInv'
    BY <1>2, <1>7 DEF GrantInv
  <2>12. IceInv'
    <3>1. CASE ~Ice
      <4>1. nat \notin {"ice", "ice_stun", "ice_turn"}
        BY <3>1 DEF Ice
      <4>2. asked = 0
        BY <4>1 DEF asked
      <4> QED
        BY <1>7, <2>5, <3>1, <4>2 DEF IceInv
    <3>2. CASE Ice
      <4>1. ASSUME NEW m \in Medias
            PROVE  med'[m].nstun = Cardinality(Asked(req', m))
        <5>1. CASE nat = "ice"
          <6>1. asked = 0
            BY <5>1 DEF asked
          <6>2. \A r \in Requests : req'[r] \notin {"turn", "stun"}
            BY <2>3, <2>4, <5>1
          <6> QED
            BY <2>5, <6>1, <6>2, AllAsked
        <5>2. CASE nat # "ice"
          <6>1. nat \in {"ice_stun", "ice_turn"}
            BY <3>2, <5>2 DEF Ice
          <6>2. asked = Cardinality(Comps)
            BY <6>1 DEF asked
          <6>3. \A r \in Requests : req'[r] \in {"turn", "stun"}
            BY <2>3, <2>4, <5>2
          <6> QED
            BY <2>5, <6>2, <6>3, AllAsked
        <5> QED
          BY <5>1, <5>2
      <4>2. \A r \in Requests : req'[r] \notin {"refresh", "lost"}
        BY <2>3, <2>4
      <4>3. \A m \in Medias : med'[m].gathered =>
              \A c \in Comps : req'[<<m, c>>] \in {"done", "failed"}
        BY <2>3, <2>4, <2>5 DEF Requests
      <4>4. ~app'.wait => \A m \in Medias : med'[m].gathered
        BY <2>5, <2>7
      <4>5. ~(app'.modify > 0)
        BY <1>3, <2>7
      <4> QED
        BY <1>7, <3>2, <4>1, <4>2, <4>3, <4>4, <4>5 DEF IceInv
    <3> QED
      BY <3>1, <3>2
  <2> QED
    BY <2>8, <2>9, <2>10, <2>11, <2>12 DEF GaInv
<1> QED
  BY <1>8, <1>9

(* An error is reported, or the user hangs up.                             *)
LEMMA CloseInv ==
  ASSUME GaInv, mnat_handler(FALSE),
         nat' = nat, nsess' = nsess, req' = req, med' = med, moved' = moved
  PROVE  GaInv'
<1>1. /\ app' \in App /\ ~app'.open /\ (app'.wait <=> app.wait)
      /\ app'.modify = app.modify
  BY ReportFacts DEF GaInv, GaTypes
<1>2. GaTypes'
  BY <1>1 DEF GaInv, GaTypes
<1>3. (Counted' <=> Counted) /\ (Granting' <=> Granting) /\ (Ice' <=> Ice)
  BY DEF Counted, Granting, Ice
<1>4. Phases'
  BY <1>1, <1>3 DEF Phases, GaInv
<1>5. CountInv'
  BY <1>1, <1>3 DEF CountInv, GaInv
<1>6. GrantInv'
  BY <1>1, <1>3 DEF GrantInv, GaInv
<1>7. IceInv'
  BY <1>1, <1>3 DEF IceInv, GaInv
<1> QED
  BY <1>2, <1>4, <1>5, <1>6, <1>7 DEF GaInv

(* An answer of stun or turn, the first one or a change of the address.    *)
LEMMA MappedInv ==
  ASSUME GaInv, NEW r \in Requests, Mapped(r)
  PROVE  GaInv'
<1> DEFINE M == Cardinality(Medias)
           n == Cardinality(Undone(req))
           k == Cardinality(Undone(req'))
           others == \E s \in Others(r) : req[s] # "done"
<1>1. /\ GaTypes /\ app \in App /\ app.open /\ Counted /\ ~Ice /\ ~Granting
      /\ req' = [req EXCEPT ![r] = "done"]
      /\ nat' = nat /\ med' = med
      /\ moved' = (moved \/ (req[r] = "done" /\ app.wait))
      /\ req[r] # "done" \/ nsess.mediac >= 0
      /\ req[r] # "idle"
  BY Kinds DEF GaInv, GaTypes, Mapped, mapped_handler, UnderWay
<1>2. /\ nsess.dns /\ ~nsess.started /\ ~(app.modify > 0)
      /\ \A s \in Requests : req[s] # "idle"
  BY <1>1 DEF GaInv, Phases
<1>3. (Counted' <=> Counted) /\ (Granting' <=> Granting) /\ (Ice' <=> Ice)
  BY <1>1 DEF Counted, Granting, Ice
<1>4. /\ n \in Nat /\ k \in Nat /\ M \in Nat /\ n <= M /\ k <= M
      /\ k = 0 => Undone(req') = {}
  BY UndoneFacts, FS_EmptySet
<1>5. /\ others \/ req[r] = "done" => Undone(req') = Undone(req) /\ k = n
      /\ ~others /\ req[r] # "done" => k = n - 1
  BY <1>1, UndoneStep DEF GaTypes
<1>6. /\ nsess.mediac \in Int /\ nsess.mediac <= n /\ nsess.mediac >= n - 1 - M
      /\ ~app.wait => nsess.mediac <= 0
      /\ app.wait /\ ~moved => nsess.mediac = n
      /\ ~app.wait /\ ~moved => Undone(req) = {}
  BY <1>1 DEF GaInv, CountInv, GaTypes
<1>7. CASE others
  <2>1. nsess' = nsess /\ app' = app
    BY <1>7 DEF Mapped, mapped_handler
  <2>2. Undone(req') = Undone(req) /\ k = n /\ (moved => moved')
    BY <1>1, <1>5, <1>7
  <2>3. GaTypes'
    BY <1>1, <2>1 DEF GaTypes, States
  <2>4. Phases'
    BY <1>1, <1>2, <1>3, <2>1 DEF Phases
  <2> HIDE DEF n, k, M, others
  <2>5. CountInv'
    BY <1>1, <1>3, <1>6, <2>1, <2>2 DEF CountInv, n, k, M
  <2>6. GrantInv' /\ IceInv'
    BY <1>1, <1>3 DEF GrantInv, IceInv, GaInv
  <2> QED
    BY <2>3, <2>4, <2>5, <2>6 DEF GaInv
<1>8. CASE ~others
  <2>1. /\ nsess' = [nsess EXCEPT !.mediac = @ - 1]
        /\ nsess.mediac = 1 => mnat_handler(TRUE)
        /\ nsess.mediac # 1 => app' = app
    BY <1>8 DEF Mapped, mapped_handler
  <2> HIDE DEF n, k, M, others
  <2>2. nsess' \in [dns : {nsess.dns}, mediac : {nsess.mediac - 1},
                   estabh : {nsess.estabh}, started : {nsess.started},
                   reinvite : {nsess.reinvite}, offerer : {nsess.offerer}]
    BY <1>1, <2>1 DEF GaTypes
  <2>3. nsess.mediac = 1 => app.wait
    BY <1>6
  <2>4. /\ app' \in App /\ app'.modify = app.modify
        /\ app'.wait <=> app.wait /\ nsess.mediac # 1
    BY <1>1, <2>1, <2>3, ReportFacts
  <2>5. GaTypes'
    <3>1. nsess.mediac - 1 \in Int
      BY <1>6
    <3>2. nsess' \in [dns : BOOLEAN, mediac : Int, estabh : BOOLEAN, started : BOOLEAN,
                     reinvite : BOOLEAN, offerer : BOOLEAN]
      BY <1>1, <2>2, <3>1 DEF GaTypes
    <3>3. req' \in [Requests -> States]
      BY <1>1 DEF GaTypes, States
    <3> QED
      BY <1>1, <2>4, <3>2, <3>3 DEF GaTypes
  <2>6. Phases'
    <3>1. \A s \in Requests : req'[s] # "idle"
      BY <1>1, <1>2 DEF GaTypes
    <3>2. nsess'.dns = nsess.dns /\ nsess'.started = nsess.started
      BY <2>2
    <3> QED
      BY <1>2, <1>3, <2>4, <3>1, <3>2 DEF Phases
  <2>7. CountInv'
    <3>1. nsess'.mediac = nsess.mediac - 1
      BY <2>2
    <3>2. k \in {n - 1, n} /\ (req[r] # "done" => k = n - 1)
          /\ (req[r] = "done" => nsess.mediac >= 0 /\ k = n /\ Undone(req') = Undone(req))
      BY <1>1, <1>5, <1>8
    <3>3. nsess'.mediac <= k /\ nsess'.mediac >= k - 1 - M
      BY <1>4, <1>6, <3>1, <3>2
    <3>4. ~app'.wait => nsess'.mediac <= 0
      BY <1>6, <2>4, <3>1
    <3>5. app'.wait /\ ~moved' => nsess'.mediac = k
      BY <1>1, <1>4, <1>6, <2>4, <3>1, <3>2
    <3>6. ASSUME ~app'.wait, ~moved'
          PROVE  Undone(req') = {}
      <4>1. ~moved /\ (app.wait => req[r] # "done")
        BY <1>1, <3>6
      <4>2. CASE app.wait
        <5>1. nsess.mediac = 1
          BY <2>4, <3>6, <4>2
        <5>2. n = 1 /\ k = n - 1
          BY <1>6, <3>2, <4>1, <4>2, <5>1
        <5> QED
          BY <1>4, <5>2
      <4>3. CASE ~app.wait
        <5>1. Undone(req) = {}
          BY <1>6, <4>1, <4>3
        <5>2. req[r] = "done"
          <6>1. r[1] \in Medias /\ r[2] \in Comps /\ r = <<r[1], r[2]>>
            BY Pairs
          <6> QED
            BY <5>1, <6>1 DEF Undone
        <5> QED
          BY <3>2, <5>1, <5>2
      <4> QED
        BY <4>2, <4>3
    <3> QED
      BY <1>1, <1>3, <3>3, <3>4, <3>5, <3>6 DEF CountInv, k, M
  <2>8. GrantInv' /\ IceInv'
    BY <1>1, <1>3 DEF GrantInv, IceInv, GaInv
  <2> QED
    BY <2>5, <2>6, <2>7, <2>8 DEF GaInv
<1> QED
  BY <1>7, <1>8

(* A grant, a refusal or a refresh of natpmp and pcp: the medias and their *)
(* count are as before.                                                    *)
LEMMA GrantStep ==
  ASSUME GaInv, NEW r \in Requests, NEW to \in {"stun", "done", "refresh", "failed", "lost"},
         app.open, Granting, nat' = nat, med' = med, moved' = moved,
         req' = [req EXCEPT ![r] = to],
         \/ nsess' = nsess /\ app' = app
         \/ /\ nsess' = [nsess EXCEPT !.estabh = FALSE] /\ nsess.estabh
            /\ mnat_handler(TRUE) \/ mnat_handler(FALSE),
         Granted(req, r) => to \notin {"stun", "lost"},
         app'.open /\ app.wait /\ ~app'.wait => \A s \in Requests : Granted(req', s)
  PROVE  GaInv'
<1>1. GaTypes /\ app \in App /\ ~Counted /\ ~Ice
  BY Kinds DEF GaInv, GaTypes
<1>2. (Counted' <=> Counted) /\ (Granting' <=> Granting) /\ (Ice' <=> Ice)
  BY DEF Counted, Granting, Ice
<1>3. /\ nsess.dns /\ ~nsess.started /\ ~(app.modify > 0)
      /\ nsess.estabh => app.wait
      /\ \A s \in Requests : req[s] \in {"stun", "done", "refresh", "failed", "lost"}
      /\ ~app.wait => \A s \in Requests : Granted(req, s)
      /\ nsess.mediac = Cardinality(Medias)
  BY <1>1 DEF GaInv, Phases, GrantInv, CountInv
<1>4. /\ req' \in [Requests -> States]
      /\ \A s \in Requests : req'[s] = IF s = r THEN to ELSE req[s]
  BY <1>1 DEF GaTypes, States, UnderWay
<1>5. nsess' \in [dns : {nsess.dns}, mediac : {nsess.mediac},
                 estabh : {FALSE, nsess.estabh}, started : {nsess.started},
                 reinvite : {nsess.reinvite}, offerer : {nsess.offerer}]
  BY <1>1 DEF GaTypes
<1>6. /\ app' \in App /\ app'.modify = app.modify
      /\ app'.wait => app.wait
      /\ nsess'.estabh => app'.wait
  BY <1>1, <1>3, <1>5, ReportFacts
<1>7. GaTypes'
  <2>1. nsess' \in [dns : BOOLEAN, mediac : Int, estabh : BOOLEAN, started : BOOLEAN,
                   reinvite : BOOLEAN, offerer : BOOLEAN]
    BY <1>1, <1>5 DEF GaTypes
  <2> QED
    BY <1>1, <1>4, <1>6, <2>1 DEF GaTypes
<1>8. Phases'
  BY <1>2, <1>3, <1>4, <1>5, <1>6 DEF Phases
<1>9. CountInv'
  BY <1>1, <1>2, <1>3, <1>5 DEF CountInv
<1>10. GrantInv'
  BY <1>2, <1>3, <1>4, <1>6 DEF GrantInv, Granted
<1>11. IceInv'
  BY <1>1, <1>2 DEF IceInv, GaInv
<1> QED
  BY <1>7, <1>8, <1>9, <1>10, <1>11 DEF GaInv

LEMMA GrantingInv ==
  ASSUME GaInv, NEW r \in Requests,
         \/ \E fits \in BOOLEAN : natpmp_resp_handler(r, fits)
         \/ GrantFails(r) \/ refresh_timeout(r)
  PROVE  GaInv'
<1>1. GaTypes /\ app \in App /\ req[r] \in States
  BY DEF GaInv, GaTypes
<1>2. CASE \E fits \in BOOLEAN : natpmp_resp_handler(r, fits)
  <2> PICK fits \in BOOLEAN : natpmp_resp_handler(r, fits)
    BY <1>2
  <2> DEFINE to == CASE fits -> "done"
                     [] ~fits /\ req[r] = "refresh" -> "failed"
                     [] OTHER -> "lost"
  <2>1. /\ app.open /\ Granting /\ req' = [req EXCEPT ![r] = to]
        /\ nat' = nat /\ med' = med /\ moved' = moved /\ req[r] \in UnderWay
    BY DEF natpmp_resp_handler
  <2>2. /\ to \in {"stun", "done", "refresh", "failed", "lost"}
        /\ Granted(req, r) => to \notin {"stun", "lost"}
    BY <2>1 DEF GaInv, GrantInv, Granted, UnderWay
  <2> HIDE DEF to
  <2>3. CASE fits /\ \A s \in Requests : Granted(req', s)
    <3>1. complete(TRUE)
      BY <2>3 DEF natpmp_resp_handler
    <3>2. \/ nsess' = nsess /\ app' = app
          \/ /\ nsess' = [nsess EXCEPT !.estabh = FALSE] /\ nsess.estabh
             /\ mnat_handler(TRUE)
      BY <3>1 DEF complete
    <3> QED
      BY <2>1, <2>2, <2>3, <3>2, GrantStep
  <2>4. CASE ~(fits /\ \A s \in Requests : Granted(req', s))
    <3>1. nsess' = nsess /\ app' = app
      BY <2>4 DEF natpmp_resp_handler
    <3> QED
      BY <2>1, <2>2, <3>1, GrantStep
  <2> QED
    BY <2>3, <2>4
<1>3. CASE GrantFails(r)
  <2> DEFINE to == IF req[r] = "refresh" THEN "failed" ELSE req[r]
  <2>1. /\ app.open /\ Granting /\ req' = [req EXCEPT ![r] = to]
        /\ nat' = nat /\ med' = med /\ moved' = moved /\ complete(FALSE)
    BY <1>3 DEF GrantFails
  <2>2. \/ nsess' = nsess /\ app' = app
        \/ /\ nsess' = [nsess EXCEPT !.estabh = FALSE] /\ nsess.estabh
           /\ mnat_handler(FALSE)
    BY <2>1 DEF complete
  <2>3. app'.open => app' = app
    BY <1>1, <2>2, ReportFacts
  <2>4. to \in {"stun", "done", "refresh", "failed", "lost"}
        /\ (Granted(req, r) => to \notin {"stun", "lost"})
    BY <2>1 DEF GaInv, GrantInv, Granted
  <2> HIDE DEF to
  <2> QED
    BY <2>1, <2>2, <2>3, <2>4, GrantStep
<1>4. CASE refresh_timeout(r)
  <2>1. /\ app.open /\ Granting /\ req' = [req EXCEPT ![r] = "refresh"]
        /\ nat' = nat /\ med' = med /\ moved' = moved /\ nsess' = nsess /\ app' = app
    BY <1>4 DEF refresh_timeout
  <2>2. Granted(req, r) => "refresh" \notin {"stun", "lost"}
    OBVIOUS
  <2> QED
    BY <2>1, <2>2, GrantStep
<1> QED
  BY <1>2, <1>3, <1>4

(* A step of ice that leaves the counts to mediac and the grants alone.    *)
LEMMA IceStep ==
  ASSUME GaInv, Ice, app.open, nat' = nat, moved' = moved, app' \in App,
         nsess' \in [dns : {nsess.dns}, mediac : {nsess.mediac}, estabh : BOOLEAN,
                    started : BOOLEAN, reinvite : BOOLEAN, offerer : {nsess.offerer}],
         req' \in [Requests -> States \ {"idle", "refresh", "lost"}],
         med' \in [Medias -> [nstun : Int, gathered : BOOLEAN, complete : BOOLEAN]],
         nsess.dns,
         nsess'.started => ~app'.wait,
         app'.modify > 0 =>
           /\ nsess'.started /\ nsess.offerer /\ app'.modify = 1
           /\ \A m \in Medias : med'[m].complete,
         ~app'.wait => \A m \in Medias : med'[m].gathered,
         \A m \in Medias : med'[m].nstun = Cardinality(Asked(req', m)),
         \A m \in Medias : med'[m].gathered =>
           \A c \in Comps : req'[<<m, c>>] \in {"done", "failed"}
  PROVE  GaInv'
<1>1. GaTypes /\ ~Counted /\ ~Granting
  BY Kinds DEF GaInv
<1>2. (Counted' <=> Counted) /\ (Granting' <=> Granting) /\ (Ice' <=> Ice)
  BY DEF Counted, Granting, Ice
<1>3. nsess'.dns = nsess.dns /\ nsess'.mediac = nsess.mediac
      /\ nsess'.offerer = nsess.offerer
  OBVIOUS
<1>4. GaTypes'
  <2>1. nsess' \in [dns : BOOLEAN, mediac : Int, estabh : BOOLEAN, started : BOOLEAN,
                   reinvite : BOOLEAN, offerer : BOOLEAN]
    BY <1>1 DEF GaTypes
  <2>2. req' \in [Requests -> States]
    OBVIOUS
  <2> QED
    BY <1>1, <2>1, <2>2 DEF GaTypes
<1>5. Phases'
  <2>1. \A r \in Requests : req'[r] # "idle"
    OBVIOUS
  <2> QED
    BY <1>1, <1>2, <1>3, <2>1 DEF Phases
<1>6. CountInv'
  BY <1>1, <1>2, <1>3 DEF CountInv, GaInv
<1>7. GrantInv'
  BY <1>1, <1>2 DEF GrantInv
<1>8. IceInv'
  <2>1. \A r \in Requests : req'[r] \notin {"refresh", "lost"}
    OBVIOUS
  <2> QED
    BY <1>2, <1>3, <2>1 DEF IceInv
<1> QED
  BY <1>4, <1>5, <1>6, <1>7, <1>8 DEF GaInv

(* With ICE and after the start.                                           *)
LEMMA IceFacts ==
  ASSUME GaInv, Ice, app.open, nsess.dns
  PROVE  /\ GaTypes /\ app \in App
         /\ req \in [Requests -> States \ {"idle", "refresh", "lost"}]
         /\ nsess.started => ~app.wait
         /\ app.modify > 0 =>
              /\ nsess.started /\ nsess.offerer /\ app.modify = 1
              /\ \A m \in Medias : med[m].complete
         /\ ~app.wait => \A m \in Medias : med[m].gathered
         /\ \A m \in Medias : med[m].nstun = Cardinality(Asked(req, m))
         /\ \A m \in Medias : med[m].gathered =>
              \A c \in Comps : req[<<m, c>>] \in {"done", "failed"}
<1>1. GaTypes /\ app \in App
  BY DEF GaInv, GaTypes
<1>2. req \in [Requests -> States \ {"idle", "refresh", "lost"}]
  <2>1. \A r \in Requests : req[r] \in States /\ req[r] # "idle" /\ req[r] \notin {"refresh", "lost"}
    BY <1>1 DEF GaInv, Phases, IceInv, GaTypes
  <2>2. req = [r \in Requests |-> req[r]]
    BY <1>1 DEF GaTypes
  <2> QED
    BY <2>1, <2>2
<1> QED
  BY <1>1, <1>2 DEF GaInv, Phases, IceInv

(* The last answer for a component.                                        *)
LEMMA GatheredInv ==
  ASSUME GaInv, Ice, app.open, NEW r \in Requests, req[r] \in {"turn", "stun"},
         NEW to \in {"done", "failed"}, NEW ok \in BOOLEAN,
         req' = [req EXCEPT ![r] = to], nat' = nat, moved' = moved,
         Gathered(r[1], med[r[1]].nstun - 1, ok)
  PROVE  GaInv'
<1> DEFINE m == r[1]
           n == med[m].nstun - 1
           g == med[m].gathered \/ (n = 0 /\ ok)
<1>1. m \in Medias /\ r[2] \in Comps /\ r = <<m, r[2]>>
  BY Pairs
<1>2. nsess.dns /\ GaTypes /\ app \in App
  BY DEF GaInv, Phases, GaTypes
<1>3. /\ req \in [Requests -> States \ {"idle", "refresh", "lost"}]
      /\ nsess.started => ~app.wait
      /\ app.modify > 0 => nsess.started
      /\ ~app.wait => \A k \in Medias : med[k].gathered
      /\ \A k \in Medias : med[k].nstun = Cardinality(Asked(req, k))
      /\ \A k \in Medias : med[k].gathered =>
           \A c \in Comps : req[<<k, c>>] \in {"done", "failed"}
  BY <1>2, IceFacts
<1>4. ~med[m].gathered
  <2>1. req[<<m, r[2]>>] \in {"turn", "stun"}
    BY <1>1
  <2> QED
    BY <1>1, <1>3, <2>1
<1>5. app.wait /\ ~nsess.started /\ ~(app.modify > 0)
  BY <1>1, <1>3, <1>4
<1>6. /\ req' \in [Requests -> States \ {"idle", "refresh", "lost"}]
      /\ \A s \in Requests : req'[s] = IF s = r THEN to ELSE req[s]
  BY <1>3 DEF States, UnderWay
<1>7. /\ \A k \in Medias : k # m => Asked(req', k) = Asked(req, k)
      /\ Cardinality(Asked(req', m)) = n
      /\ n \in Nat
  <2>1. /\ \A k \in Medias : k # m => Asked(req', k) = Asked(req, k)
        /\ Cardinality(Asked(req', m)) = Cardinality(Asked(req, m)) - 1
    <3>1. req \in [Requests -> States] /\ to \in States /\ to \notin {"turn", "stun"}
      BY <1>2 DEF GaTypes, States
    <3>2. /\ \A k \in Medias : k # r[1] => Asked([req EXCEPT ![r] = to], k) = Asked(req, k)
          /\ Cardinality(Asked([req EXCEPT ![r] = to], r[1]))
               = Cardinality(Asked(req, r[1])) - 1
      BY <3>1, AskedStep
    <3> QED
      BY <3>2
  <2>2. Cardinality(Asked(req', m)) = n
    BY <1>1, <1>3, <2>1
  <2>3. Cardinality(Asked(req', m)) \in Nat
    BY AskedFacts
  <2> HIDE DEF n, m
  <2> QED
    BY <2>1, <2>2, <2>3
<1>8. /\ med' = [med EXCEPT ![m].nstun = n, ![m].gathered = g]
      /\ n # 0 => nsess' = nsess /\ app' = app
      /\ n = 0 /\ ~ok => complete(FALSE)
      /\ n = 0 /\ ok /\ (\A k \in Medias : med'[k].gathered) =>
           mnat_handler(TRUE) /\ nsess' = nsess
      /\ n = 0 /\ ok /\ ~(\A k \in Medias : med'[k].gathered) =>
           nsess' = nsess /\ app' = app
  BY DEF Gathered
<1>9. g \in BOOLEAN /\ (g <=> n = 0 /\ ok)
  BY <1>4
<1> HIDE DEF n, g, m
<1>10. /\ \A k \in Medias : k # m => med'[k] = med[k]
       /\ med'[m] \in [nstun : {n}, gathered : {g}, complete : {med[m].complete}]
  BY <1>1, <1>2, <1>8 DEF GaTypes
<1>11. med' \in [Medias -> [nstun : Int, gathered : BOOLEAN, complete : BOOLEAN]]
  <2>1. med[m].complete \in BOOLEAN /\ n \in Int
    BY <1>1, <1>2, <1>7 DEF GaTypes
  <2>2. \A k \in Medias :
          med'[k] \in [nstun : Int, gathered : BOOLEAN, complete : BOOLEAN]
    BY <1>2, <1>9, <1>10, <2>1 DEF GaTypes
  <2>3. med' = [k \in Medias |-> med'[k]]
    BY <1>2, <1>8 DEF GaTypes
  <2> QED
    BY <2>2, <2>3
<1>12. /\ app' \in App /\ app'.modify = app.modify
       /\ ~app'.wait => \A k \in Medias : med'[k].gathered
       /\ nsess' \in [dns : {nsess.dns}, mediac : {nsess.mediac},
                      estabh : {FALSE, nsess.estabh}, started : {nsess.started},
                      reinvite : {nsess.reinvite}, offerer : {nsess.offerer}]
  <2>1. CASE nsess' = nsess /\ app' = app
    BY <1>2, <1>5, <2>1 DEF GaTypes
  <2>2. CASE n = 0 /\ ~ok /\ complete(FALSE)
    <3>1. \/ nsess' = nsess /\ app' = app
          \/ nsess' = [nsess EXCEPT !.estabh = FALSE] /\ mnat_handler(FALSE)
      BY <2>2 DEF complete
    <3>2. app' \in App /\ app'.modify = app.modify /\ app'.wait
      BY <1>2, <1>5, <3>1, ReportFacts
    <3> QED
      BY <1>2, <3>1, <3>2 DEF GaTypes
  <2>3. CASE nsess' = nsess /\ mnat_handler(TRUE) /\ \A k \in Medias : med'[k].gathered
    <3>1. app' \in App /\ app'.modify = app.modify
      BY <1>2, <1>5, <2>3, ReportFacts
    <3> QED
      BY <1>2, <2>3, <3>1 DEF GaTypes
  <2> QED
    BY <1>8, <2>1, <2>2, <2>3
<1>13. \A k \in Medias : med'[k].nstun = Cardinality(Asked(req', k))
  BY <1>3, <1>7, <1>10
<1>14. ASSUME NEW k \in Medias, med'[k].gathered, NEW c \in Comps
       PROVE  req'[<<k, c>>] \in {"done", "failed"}
  <2>1. <<k, c>> \in Requests
    BY DEF Requests
  <2>2. CASE k = m
    <3>1. n = 0
      BY <1>9, <1>10, <1>14, <2>2
    <3>2. Asked(req', m) = {}
      BY <1>7, <3>1, AskedFacts, FS_EmptySet
    <3>3. req'[<<k, c>>] \notin {"turn", "stun"}
      BY <2>2, <3>2 DEF Asked
    <3> QED
      BY <1>6, <2>1, <3>3 DEF States, UnderWay
  <2>3. CASE k # m
    <3>1. <<k, c>> # r /\ med[k].gathered
      BY <1>1, <1>10, <1>14, <2>3
    <3> QED
      BY <1>3, <1>6, <2>1, <3>1
  <2> QED
    BY <2>2, <2>3
<1>15. /\ ~nsess'.started
       /\ nsess' \in [dns : {nsess.dns}, mediac : {nsess.mediac}, estabh : BOOLEAN,
                      started : BOOLEAN, reinvite : BOOLEAN, offerer : {nsess.offerer}]
  BY <1>2, <1>5, <1>12 DEF GaTypes
<1> QED
  BY <1>2, <1>5, <1>6, <1>11, <1>12, <1>13, <1>14, <1>15, IceStep

LEMMA IceInvariant ==
  ASSUME GaInv, NEW r \in Requests, Relayed(r) \/ \E ok \in BOOLEAN : stun_resp_handler(r, ok)
  PROVE  GaInv'
<1>1. /\ Ice /\ app.open /\ nat' = nat /\ moved' = moved
      /\ req[r] \in {"turn", "stun"}
  BY DEF Relayed, stun_resp_handler
<1>2. CASE \E ok \in BOOLEAN : stun_resp_handler(r, ok)
  <2>1. PICK ok \in BOOLEAN : stun_resp_handler(r, ok)
    BY <1>2
  <2> DEFINE to == IF ok THEN "done" ELSE "failed"
  <2>2. to \in {"done", "failed"} /\ req' = [req EXCEPT ![r] = to]
        /\ Gathered(r[1], med[r[1]].nstun - 1, ok)
    BY <2>1 DEF stun_resp_handler
  <2> HIDE DEF to
  <2> QED
    BY <1>1, <2>2, GatheredInv
<1>3. CASE Relayed(r)
  <2>1. PICK outcome \in {"ok", "unmapped", "refused", "error"} :
          turnc_handler(r, outcome)
    BY <1>3 DEF Relayed
  <2>2. CASE outcome \notin {"refused", "unmapped"}
    <3> DEFINE to == IF outcome = "ok" THEN "done" ELSE "failed"
    <3>1. to \in {"done", "failed"} /\ req' = [req EXCEPT ![r] = to]
          /\ Gathered(r[1], med[r[1]].nstun - 1, outcome = "ok")
      BY <2>1, <2>2 DEF turnc_handler
    <3>2. (outcome = "ok") \in BOOLEAN
      OBVIOUS
    <3> HIDE DEF to
    <3> QED
      BY <1>1, <3>1, <3>2, GatheredInv
  <2>3. CASE outcome \in {"refused", "unmapped"}
    <3>1. /\ req' = [req EXCEPT ![r] = "stun"]
          /\ nsess' = nsess /\ med' = med /\ app' = app
      BY <2>1, <2>3 DEF turnc_handler
    <3>2. nsess.dns
      BY <1>1 DEF GaInv, Phases, GaTypes
    <3>3. /\ GaTypes /\ app \in App
          /\ req \in [Requests -> States \ {"idle", "refresh", "lost"}]
          /\ nsess.started => ~app.wait
          /\ app.modify > 0 =>
               /\ nsess.started /\ nsess.offerer /\ app.modify = 1
               /\ \A m \in Medias : med[m].complete
          /\ ~app.wait => \A m \in Medias : med[m].gathered
          /\ \A m \in Medias : med[m].nstun = Cardinality(Asked(req, m))
          /\ \A m \in Medias : med[m].gathered =>
               \A c \in Comps : req[<<m, c>>] \in {"done", "failed"}
      BY <1>1, <3>2, IceFacts
    <3>4. req' \in [Requests -> States \ {"idle", "refresh", "lost"}]
      BY <3>1, <3>3 DEF States, UnderWay
    <3>5. r[1] \in Medias /\ r[2] \in Comps /\ r = <<r[1], r[2]>>
      BY Pairs
    <3>6. \A m \in Medias : Asked(req', m) = Asked(req, m)
      <4>1. "stun" \in States /\ req \in [Requests -> States]
        BY <3>3 DEF States, UnderWay, GaTypes
      <4>2. \A m \in Medias : Asked([req EXCEPT ![r] = "stun"], m) = Asked(req, m)
        BY <1>1, <4>1, AskedStep
      <4> QED
        BY <3>1, <4>2
    <3>7. ASSUME NEW m \in Medias, med'[m].gathered, NEW c \in Comps
          PROVE  req'[<<m, c>>] \in {"done", "failed"}
      <4>1. <<m, c>> \in Requests /\ req[<<m, c>>] \in {"done", "failed"}
        BY <3>1, <3>3, <3>7 DEF Requests
      <4>2. <<m, c>> # r
        BY <1>1, <4>1
      <4> QED
        BY <3>1, <3>3, <4>1, <4>2
    <3>8. nsess' \in [dns : {nsess.dns}, mediac : {nsess.mediac}, estabh : BOOLEAN,
                     started : BOOLEAN, reinvite : BOOLEAN, offerer : {nsess.offerer}]
          /\ med' \in [Medias -> [nstun : Int, gathered : BOOLEAN, complete : BOOLEAN]]
      BY <3>1, <3>3 DEF GaTypes
    <3> QED
      BY <1>1, <3>1, <3>2, <3>3, <3>4, <3>6, <3>7, <3>8, IceStep
  <2> QED
    BY <2>2, <2>3
<1> QED
  BY <1>2, <1>3

(* The connectivity checks start and end: nothing is asked any more.       *)
LEMMA CheckInv ==
  ASSUME GaInv, ice_start \/ \E m \in Medias, changed \in BOOLEAN :
                                conncheck_handler(m, changed)
  PROVE  GaInv'
<1>1. Ice /\ app.open /\ nat' = nat /\ moved' = moved /\ req' = req
  BY DEF ice_start, conncheck_handler, GaInv, Phases
<1>2. nsess.dns
  <2>1. ~app.wait
    BY DEF ice_start, conncheck_handler, GaInv, Phases
  <2> QED
    BY <2>1 DEF GaInv, Phases
<1>3. /\ GaTypes /\ app \in App
      /\ req \in [Requests -> States \ {"idle", "refresh", "lost"}]
      /\ nsess.started => ~app.wait
      /\ app.modify > 0 =>
           /\ nsess.started /\ nsess.offerer /\ app.modify = 1
           /\ \A m \in Medias : med[m].complete
      /\ ~app.wait => \A m \in Medias : med[m].gathered
      /\ \A m \in Medias : med[m].nstun = Cardinality(Asked(req, m))
      /\ \A m \in Medias : med[m].gathered =>
           \A c \in Comps : req[<<m, c>>] \in {"done", "failed"}
  BY <1>1, <1>2, IceFacts
<1>4. CASE ice_start
  <2>1. /\ ~app.wait /\ ~nsess.started /\ app' = app
        /\ nsess' = [nsess EXCEPT !.started = TRUE]
    BY <1>4 DEF ice_start
  <2>2. PICK without \in SUBSET Medias :
          med' = [m \in Medias |-> [med[m] EXCEPT !.complete = m \in without]]
    BY <1>4 DEF ice_start
  <2>3. \A m \in Medias :
          med'[m] \in [nstun : {med[m].nstun}, gathered : {med[m].gathered},
                       complete : BOOLEAN]
    <3> SUFFICES ASSUME NEW m \in Medias
                 PROVE  med'[m] \in [nstun : {med[m].nstun}, complete : BOOLEAN,
                                     gathered : {med[m].gathered}]
      OBVIOUS
    <3> DEFINE b == m \in without
    <3>1. b \in BOOLEAN /\ med'[m] = [med[m] EXCEPT !.complete = b]
      BY <2>2
    <3>2. med[m] \in [nstun : Int, gathered : BOOLEAN, complete : BOOLEAN]
      BY <1>3 DEF GaTypes
    <3> HIDE DEF b
    <3> QED
      BY <3>1, <3>2
  <2>4. med' \in [Medias -> [nstun : Int, gathered : BOOLEAN, complete : BOOLEAN]]
    <3>1. \A m \in Medias :
            med'[m] \in [nstun : Int, gathered : BOOLEAN, complete : BOOLEAN]
      BY <1>3, <2>3 DEF GaTypes
    <3>2. med' = [m \in Medias |-> med'[m]]
      BY <2>2
    <3> QED
      BY <3>1, <3>2
  <2>5. nsess' \in [dns : {nsess.dns}, mediac : {nsess.mediac}, estabh : BOOLEAN,
                   started : BOOLEAN, reinvite : BOOLEAN, offerer : {nsess.offerer}]
    BY <1>3, <2>1 DEF GaTypes
  <2>6. ~(app'.modify > 0)
    BY <1>3, <2>1
  <2> QED
    BY <1>1, <1>2, <1>3, <2>1, <2>3, <2>4, <2>5, <2>6, IceStep
<1>5. CASE \E m \in Medias, changed \in BOOLEAN : conncheck_handler(m, changed)
  <2>1. PICK m \in Medias, changed \in BOOLEAN : conncheck_handler(m, changed)
    BY <1>5
  <2> DEFINE again == nsess.reinvite \/ changed
             all == \A k \in Medias : med'[k].complete
  <2>2. /\ nsess.started /\ ~med[m].complete
        /\ med' = [med EXCEPT ![m].complete = TRUE]
        /\ again /\ nsess.offerer /\ all =>
             mnat_handler(TRUE) /\ nsess' = [nsess EXCEPT !.reinvite = FALSE]
        /\ ~(again /\ nsess.offerer /\ all) =>
             nsess' = [nsess EXCEPT !.reinvite = again] /\ app' = app
    BY <2>1 DEF conncheck_handler
  <2>3. again \in BOOLEAN
    BY <1>3 DEF GaTypes
  <2> HIDE DEF again, all
  <2>4. nsess' \in [dns : {nsess.dns}, mediac : {nsess.mediac}, estabh : {nsess.estabh},
                   started : {nsess.started}, reinvite : BOOLEAN,
                   offerer : {nsess.offerer}]
    BY <1>3, <2>2, <2>3 DEF GaTypes
  <2>5. /\ ~app.wait /\ ~(app.modify > 0)
    BY <1>3, <2>2
  <2>6. /\ app' \in App /\ ~app'.wait
        /\ app'.modify > 0 => nsess.offerer /\ app'.modify = 1 /\ all
    <3>1. CASE again /\ nsess.offerer /\ all
      <4>1. /\ app' \in App /\ (app'.wait <=> app.wait /\ ~TRUE)
            /\ app'.modify = IF TRUE /\ ~app.wait THEN app.modify + 1 ELSE app.modify
        BY <1>3, <2>2, <3>1, ReportFacts
      <4>2. app.modify = 0
        BY <1>3, <2>5 DEF App
      <4> QED
        BY <2>5, <3>1, <4>1, <4>2
    <3>2. CASE ~(again /\ nsess.offerer /\ all)
      BY <1>3, <2>2, <2>5, <3>2
    <3> QED
      BY <3>1, <3>2
  <2>7. /\ \A k \in Medias : k # m => med'[k] = med[k]
        /\ med'[m] \in [nstun : {med[m].nstun}, gathered : {med[m].gathered},
                        complete : {TRUE}]
    BY <1>3, <2>2 DEF GaTypes
  <2>8. \A k \in Medias : med'[k].nstun = med[k].nstun /\ med'[k].gathered = med[k].gathered
    BY <2>7
  <2>9. med' \in [Medias -> [nstun : Int, gathered : BOOLEAN, complete : BOOLEAN]]
    <3>1. \A k \in Medias :
            med'[k] \in [nstun : Int, gathered : BOOLEAN, complete : BOOLEAN]
      BY <1>3, <2>7 DEF GaTypes
    <3>2. med' = [k \in Medias |-> med'[k]]
      BY <1>3, <2>2 DEF GaTypes
    <3> QED
      BY <3>1, <3>2
  <2>10. nsess' \in [dns : {nsess.dns}, mediac : {nsess.mediac}, estabh : BOOLEAN,
                    started : BOOLEAN, reinvite : BOOLEAN, offerer : {nsess.offerer}]
         /\ nsess'.started = nsess.started
    BY <1>3, <2>4 DEF GaTypes
  <2>11. app'.modify > 0 =>
           /\ nsess'.started /\ nsess.offerer /\ app'.modify = 1
           /\ \A k \in Medias : med'[k].complete
    BY <2>2, <2>6, <2>10 DEF all
  <2>12. /\ \A k \in Medias : med'[k].nstun = Cardinality(Asked(req', k))
         /\ \A k \in Medias : med'[k].gathered =>
              \A c \in Comps : req'[<<k, c>>] \in {"done", "failed"}
         /\ \A k \in Medias : med'[k].gathered
    BY <1>1, <1>3, <2>5, <2>8
  <2>13. nsess'.started => ~app'.wait
    BY <2>6
  <2> QED
    BY <1>1, <1>2, <1>3, <2>6, <2>9, <2>10, <2>11, <2>12, <2>13, IceStep
<1> QED
  BY <1>4, <1>5

LEMMA GaNextInv ==
  ASSUME GaInv, [GaNext]_gaVars
  PROVE  GaInv'
<1>1. CASE Resolved
  BY <1>1, DnsInv DEF Resolved
<1>2. CASE HangUpWaiting
  <2>1. /\ nat' = nat /\ nsess' = nsess /\ req' = req /\ med' = med /\ moved' = moved
        /\ mnat_handler(FALSE)
    BY <1>2 DEF HangUpWaiting, mnat_handler
  <2> QED
    BY <2>1, CloseInv
<1>3. CASE \E r \in Requests : MappingFails(r)
  <2>1. /\ nat' = nat /\ nsess' = nsess /\ req' = req /\ med' = med /\ moved' = moved
        /\ mnat_handler(FALSE)
    BY <1>3 DEF MappingFails
  <2> QED
    BY <2>1, CloseInv
<1>4. CASE \E r \in Requests : Mapped(r)
  BY <1>4, MappedInv
<1>5. CASE \E r \in Requests :
              \/ \E fits \in BOOLEAN : natpmp_resp_handler(r, fits)
              \/ GrantFails(r) \/ refresh_timeout(r)
  BY <1>5, GrantingInv
<1>6. CASE \E r \in Requests : Relayed(r) \/ \E ok \in BOOLEAN : stun_resp_handler(r, ok)
  BY <1>6, IceInvariant
<1>7. CASE ice_start \/ \E m \in Medias, changed \in BOOLEAN :
                             conncheck_handler(m, changed)
  BY <1>7, CheckInv
<1>8. CASE UNCHANGED gaVars
  <2>1. /\ nat' = nat /\ nsess' = nsess /\ req' = req /\ med' = med /\ app' = app
        /\ moved' = moved
    BY <1>8 DEF gaVars
  <2> QED
    BY <2>1 DEF GaInv, GaTypes, Phases, CountInv, GrantInv, IceInv, Counted, Granting,
                Ice, Undone, Asked
<1> QED
  BY <1>1, <1>2, <1>3, <1>4, <1>5, <1>6, <1>7, <1>8 DEF GaNext, Answers

LEMMA GaInvMeans ==
  ASSUME GaInv
  PROVE  GaTypeOK /\ GatheredAll /\ OneReport
<1>1. GaTypes /\ app \in App
  BY DEF GaInv, GaTypes
<1>2. GaTypeOK
  <2>1. nsess.mediac \in -1-Cardinality(Medias)..Cardinality(Medias)
    BY <1>1, UndoneFacts DEF GaInv, CountInv, GaTypes
  <2>2. ASSUME NEW m \in Medias
        PROVE  med[m].nstun \in 0..Cardinality(Comps)
    <3>1. med[m].nstun \in {0, Cardinality(Asked(req, m))}
      BY DEF GaInv, IceInv
    <3> QED
      BY <3>1, AskedFacts
  <2> QED
    BY <1>1, <2>1, <2>2 DEF GaTypeOK, GaTypes, App, States
<1>3. GatheredAll
  <2> SUFFICES ASSUME app.open, ~app.wait, ~moved, NEW r \in Requests
               PROVE  req[r] \in {"done", "refresh"} \cup IF Counted THEN {} ELSE {"failed"}
    BY DEF GatheredAll
  <2>1. r[1] \in Medias /\ r[2] \in Comps /\ r = <<r[1], r[2]>>
    BY Pairs
  <2>2. CASE Counted
    <3>1. Undone(req) = {}
      BY <2>2 DEF GaInv, CountInv
    <3>2. req[<<r[1], r[2]>>] = "done"
      BY <2>1, <3>1 DEF Undone
    <3> QED
      BY <2>1, <3>2
  <2>3. CASE Granting
    BY <1>1, <2>3, Kinds DEF GaInv, GrantInv, Granted
  <2>4. CASE Ice
    <3>1. ~Counted /\ req[<<r[1], r[2]>>] \in {"done", "failed"}
      BY <1>1, <2>1, <2>4, Kinds DEF GaInv, IceInv
    <3> QED
      BY <2>1, <3>1
  <2> QED
    BY <1>1, <2>2, <2>3, <2>4, Kinds
<1>4. OneReport
  BY DEF GaInv, Phases, IceInv, OneReport
<1> QED
  BY <1>2, <1>3, <1>4

LEMMA GaStart == GaInit => GaInv
<1> SUFFICES ASSUME GaInit PROVE GaInv
  OBVIOUS
<1>1. app \in [open : BOOLEAN, wait : {TRUE}, modify : {0}]
  BY DEF GaInit
<1>2. nat \in AllNatKinds
  BY GatherAssumption DEF GaInit, AllNatKinds
<1> QED
  BY <1>1, <1>2, GaInitInv DEF GaInit

(* Every variable of the gathering keeps its type, and the counts of medias*)
(* and requests their bounds: the count of medias that are not ready does  *)
(* not fall below one less than none for each media (stun.c, turn.c).      *)
THEOREM GatherTypes == GaSpec => []GaTypeOK
BY GaStart, GaNextInv, GaInvMeans, PTL DEF GaSpec

(* The call goes on only when all of its requests have been answered,      *)
(* whatever the module and the order of the answers (mapped_handler(),     *)
(* natpmp_resp_handler(), gather_handler()).                               *)
THEOREM CallWaitsForAll == GaSpec => []GatheredAll
BY GaStart, GaNextInv, GaInvMeans, PTL DEF GaSpec

(* There is one report; only ice gives a second one, when it has offered   *)
(* and all its checks are over (complete(), conncheck_handler()).          *)
THEOREM ReportedOnce == GaSpec => []OneReport
BY GaStart, GaNextInv, GaInvMeans, PTL DEF GaSpec

(***************************************************************************)
(* Presence.                                                               *)
(*                                                                         *)
(* The count of agents that outlive the loop of ua_stop_all() goes up only *)
(* when one leaves the list: both together are never more than there are.  *)
(***************************************************************************)


PrTypes ==
  /\ uas \in [listed : SUBSET PrAgents, owned : SUBSET PrAgents]
  /\ uas.listed \subseteq uas.owned
  /\ pres \in [Contacts -> [st : SubState, ua : PrAgents \cup {None}]]
  /\ \A c \in Contacts : pres[c].st = "active" => pres[c].ua # None
  /\ pub \subseteq PrAgents /\ notf \subseteq PrAgents
  /\ stop \in [at : {"no", "loop", "done"}, asked : Nat, ext : Nat,
               delayed : BOOLEAN, closed : BOOLEAN, exited : BOOLEAN]

PrInv ==
  /\ PrTypes
  /\ stop.ext + Cardinality(uas.listed) <= Cardinality(PrAgents)

LEMMA LeastAgent ==
  ASSUME NEW T, T \subseteq Nat, T # {}
  PROVE  Min(T) \in T
<1> DEFINE R == OpToRel(<, Nat)
<1>1. IsWellFoundedOn(R, Nat)
  BY NatLessThanWellFounded
<1>2. \A x, y \in Nat : <<x, y>> \in R <=> x < y
  BY DEF OpToRel
<1> HIDE DEF R
<1>3. PICK x \in T : \A y \in T : ~ (<<y, x>> \in R)
  BY <1>1, WFMin
<1>4. \A y \in T : ~ (y < x)
  BY <1>2, <1>3, Zenon
<1>5. \A y \in T : x =< y
  BY <1>4
<1> QED
  BY <1>5 DEF Min

LEMMA ListFacts ==
  ASSUME PrTypes
  PROVE  /\ IsFiniteSet(uas.listed) /\ Cardinality(uas.listed) \in Nat
         /\ Cardinality(PrAgents) \in Nat
         /\ Cardinality(uas.listed) <= Cardinality(PrAgents)
         /\ uas.listed # {} =>
              /\ Min(uas.listed) \in uas.listed /\ Min(uas.listed) # None
              /\ Cardinality(uas.listed \ {Min(uas.listed)})
                   = Cardinality(uas.listed) - 1
<1> DEFINE L == uas.listed
<1>1. L \subseteq PrAgents /\ IsFiniteSet(PrAgents) /\ PrAgents \subseteq Nat \ {None}
  BY PresenceAssumption DEF PrTypes
<1> HIDE DEF L
<1>2. /\ IsFiniteSet(L) /\ Cardinality(L) \in Nat /\ Cardinality(PrAgents) \in Nat
      /\ Cardinality(L) <= Cardinality(PrAgents)
  BY <1>1, FS_Subset, FS_CardinalityType
<1>3. ASSUME L # {}
      PROVE  Min(L) \in L /\ Min(L) # None /\ Cardinality(L \ {Min(L)}) = Cardinality(L) - 1
  <2>1. Min(L) \in L
    BY <1>1, <1>3, LeastAgent
  <2> QED
    BY <1>1, <1>2, <2>1, FS_RemoveElement
<1> QED
  BY <1>2, <1>3 DEF L

LEMMA PrInitInv ==
  ASSUME PrInit
  PROVE  PrInv
<1>1. PrTypes
  <2>1. 0 \in Nat /\ stop \in [at : {"no"}, asked : {0}, ext : {0}, delayed : {FALSE},
                               closed : {FALSE}, exited : {FALSE}]
    BY DEF PrInit
  <2>2. stop \in [at : {"no", "loop", "done"}, asked : Nat, ext : Nat,
                  delayed : BOOLEAN, closed : BOOLEAN, exited : BOOLEAN]
    BY ONLY <2>1
  <2>3. pres \in [Contacts -> [st : SubState, ua : PrAgents \cup {None}]]
        /\ \A c \in Contacts : pres[c].st = "none"
    BY DEF PrInit, NoPres, SubState
  <2> QED
    BY <2>2, <2>3 DEF PrInit, PrTypes
<1>2. stop.ext = 0 /\ uas.listed = PrAgents
  BY DEF PrInit
<1> QED
  BY <1>1, <1>2, ListFacts DEF PrInv

(* A reference is given up: the list and its count stay.                   *)
LEMMA ReleaseKeeps ==
  ASSUME PrTypes, ReleasedBy
  PROVE  /\ stop' \in [at : {"no", "loop", "done"}, asked : Nat, ext : Nat,
                       delayed : BOOLEAN, closed : BOOLEAN, exited : BOOLEAN]
         /\ stop'.ext = stop.ext
<1> DEFINE freed == Alive(uas, pres, mwi, pub, notf) \ Alive(uas', pres', mwi', pub', notf')
           closed == stop.closed \/ (stop.delayed /\ freed # {} /\ uas'.listed = {})
<1>1. stop' = [stop EXCEPT !.closed = closed]
  BY DEF ReleasedBy
<1>2. closed \in BOOLEAN
  BY DEF PrTypes
<1> HIDE DEF closed
<1>3. stop' \in [at : {stop.at}, asked : {stop.asked}, ext : {stop.ext},
                 delayed : {stop.delayed}, closed : {closed}, exited : {stop.exited}]
  BY <1>1 DEF PrTypes
<1> QED
  BY <1>2, <1>3 DEF PrTypes

(* A contact gets another subscription.                                    *)
LEMMA OnePresence ==
  ASSUME PrTypes, NEW c \in Contacts, NEW st \in SubState, NEW ua \in PrAgents \cup {None},
         st = "active" => ua # None, pres' = [pres EXCEPT ![c] = [st |-> st, ua |-> ua]]
  PROVE  /\ pres' \in [Contacts -> [st : SubState, ua : PrAgents \cup {None}]]
         /\ \A d \in Contacts : pres'[d].st = "active" => pres'[d].ua # None
<1>1. \A d \in Contacts : pres'[d] = IF d = c THEN [st |-> st, ua |-> ua] ELSE pres[d]
  BY DEF PrTypes
<1>2. pres' \in [Contacts -> [st : SubState, ua : PrAgents \cup {None}]]
  BY DEF PrTypes
<1> QED
  BY <1>1, <1>2 DEF PrTypes

LEMMA PrNextInv ==
  ASSUME PrInv, [PrNext]_prVars
  PROVE  PrInv'
<1>1. PrTypes /\ stop.ext + Cardinality(uas.listed) <= Cardinality(PrAgents)
  BY DEF PrInv
<1> DEFINE Pres == [Contacts -> [st : SubState, ua : PrAgents \cup {None}]]
           Fine(p) == \A c \in Contacts : p[c].st = "active" => p[c].ua # None
           Stops == [at : {"no", "loop", "done"}, asked : Nat, ext : Nat,
                     delayed : BOOLEAN, closed : BOOLEAN, exited : BOOLEAN]
<1>2. ASSUME uas' = uas, pres' \in Pres, Fine(pres'), stop' \in Stops,
             stop'.ext = stop.ext, pub' \subseteq PrAgents, notf' \subseteq PrAgents
      PROVE  PrInv'
  BY <1>1, <1>2 DEF PrInv, PrTypes
<1>3. stop \in Stops /\ pres \in Pres /\ Fine(pres)
      /\ pub \subseteq PrAgents /\ notf \subseteq PrAgents
  BY <1>1 DEF PrTypes
<1> HIDE DEF Pres, Fine, Stops
<1>4. ASSUME ReleasedBy
      PROVE  stop' \in Stops /\ stop'.ext = stop.ext
  BY <1>1, <1>4, ReleaseKeeps DEF Stops
<1>5. ASSUME NEW c \in Contacts, NEW st \in SubState, NEW ua \in PrAgents \cup {None},
             st = "active" => ua # None, pres' = [pres EXCEPT ![c] = [st |-> st, ua |-> ua]]
      PROVE  pres' \in Pres /\ Fine(pres')
  BY <1>1, <1>5, OnePresence DEF Pres, Fine
<1>6. CASE \E c \in Contacts : presence_alloc(c)
  <2>1. PICK c \in Contacts : presence_alloc(c)
    BY <1>6
  <2>2. /\ pres' = [pres EXCEPT ![c] = [st |-> "wait", ua |-> None]]
        /\ uas' = uas /\ pub' = pub /\ notf' = notf /\ stop' = stop
    BY <2>1 DEF presence_alloc
  <2>3. pres' \in Pres /\ Fine(pres')
    BY <1>5, <2>2 DEF SubState
  <2> QED
    BY <1>2, <1>3, <2>2, <2>3
<1>7. CASE \E c \in Contacts : close_handler(c)
  <2>1. PICK c \in Contacts : close_handler(c)
    BY <1>7
  <2>2. /\ pres' = [pres EXCEPT ![c].st = "wait"]
        /\ uas' = uas /\ pub' = pub /\ notf' = notf /\ stop' = stop
    BY <2>1 DEF close_handler
  <2>3. pres' = [pres EXCEPT ![c] = [st |-> "wait", ua |-> pres[c].ua]]
    <3>1. pres[c] \in [st : SubState, ua : PrAgents \cup {None}]
      BY <1>3 DEF Pres
    <3>2. [pres[c] EXCEPT !.st = "wait"] = [st |-> "wait", ua |-> pres[c].ua]
      BY <3>1
    <3> QED
      BY <2>2, <3>2
  <2>4. pres[c].ua \in PrAgents \cup {None} /\ "wait" \in SubState
    BY <1>3 DEF Pres, SubState
  <2>5. pres' \in Pres /\ Fine(pres')
    BY <1>5, <2>3, <2>4
  <2> QED
    BY <1>2, <1>3, <2>2, <2>5
<1>8. CASE \E c \in Contacts : RemoveContact(c) \/ deref_handler(c)
  <2>1. PICK c \in Contacts : RemoveContact(c) \/ deref_handler(c)
    BY <1>8
  <2>2. /\ pres' = [pres EXCEPT ![c] = [st |-> "none", ua |-> None]]
        /\ uas' = uas /\ pub' = pub /\ notf' = notf /\ ReleasedBy
    BY <2>1 DEF RemoveContact, deref_handler, FreePresence, NoPres
  <2>3. pres' \in Pres /\ Fine(pres')
    BY <1>5, <2>2 DEF SubState
  <2> QED
    BY <1>2, <1>3, <1>4, <2>2, <2>3
<1>9. CASE \E c \in Contacts, ok \in BOOLEAN : subscribe(c, ok)
  <2>1. PICK c \in Contacts, ok \in BOOLEAN : subscribe(c, ok)
    BY <1>9
  <2> DEFINE st == IF ok THEN "active" ELSE "wait"
             ua == Min(uas.listed)
  <2>2. /\ pres' = [pres EXCEPT ![c] = [st |-> st, ua |-> ua]] /\ uas.listed # {}
        /\ uas' = uas /\ pub' = pub /\ notf' = notf /\ ReleasedBy
    BY <2>1 DEF subscribe, uag_find_aor
  <2>3. ua \in PrAgents /\ ua # None /\ st \in SubState
    BY <1>1, <2>2, ListFacts DEF PrTypes, SubState
  <2> HIDE DEF st, ua
  <2>4. pres' \in Pres /\ Fine(pres')
    BY <1>5, <2>2, <2>3
  <2> QED
    BY <1>2, <1>3, <1>4, <2>2, <2>4
<1>10. CASE \E a \in PrAgents : notifier_add(a)
  <2>1. PICK a \in PrAgents : notifier_add(a)
    BY <1>10
  <2>2. /\ notf' = notf \cup {a} /\ pres' = pres /\ uas' = uas /\ pub' = pub /\ stop' = stop
    BY <2>1 DEF notifier_add
  <2> QED
    BY <1>2, <1>3, <2>2
<1>11. CASE \E a \in PrAgents : sipnot_close_handler(a)
  <2>1. PICK a \in PrAgents : sipnot_close_handler(a)
    BY <1>11
  <2>2. /\ notf' = notf \ {a} /\ pres' = pres /\ uas' = uas /\ pub' = pub /\ ReleasedBy
    BY <2>1 DEF sipnot_close_handler
  <2> QED
    BY <1>2, <1>3, <1>4, <2>2
<1>12. CASE \E a \in PrAgents : mwi_subscribe(a)
  <2>1. pres' = pres /\ uas' = uas /\ pub' = pub /\ notf' = notf /\ stop' = stop
    BY <1>12 DEF mwi_subscribe
  <2> QED
    BY <1>2, <1>3, <2>1
<1>13. CASE \E a \in PrAgents : FreeMwi(a, "active") \/ FreeMwi(a, "closing")
  <2>1. pres' = pres /\ uas' = uas /\ pub' = pub /\ notf' = notf /\ ReleasedBy
    BY <1>13 DEF FreeMwi
  <2> QED
    BY <1>2, <1>3, <1>4, <2>1
<1>14. CASE ua_stop_all
  <2>1. /\ stop' = [stop EXCEPT !.at = "loop", !.ext = 0, !.asked = @ + 1]
        /\ pres' = pres /\ uas' = uas /\ pub' = pub /\ notf' = notf
    BY <1>14 DEF ua_stop_all
  <2>2. stop' \in [at : {"loop"}, asked : {stop.asked + 1}, ext : {0},
                   delayed : {stop.delayed}, closed : {stop.closed}, exited : {stop.exited}]
    BY <1>3, <2>1 DEF Stops
  <2>3. 0 \in Nat /\ stop.asked + 1 \in Nat
    BY <1>3 DEF Stops
  <2>4. stop' \in Stops /\ stop'.ext = 0
    BY <1>3, <2>2, <2>3 DEF Stops
  <2>5. 0 + Cardinality(uas.listed) <= Cardinality(PrAgents)
    BY <1>1, ListFacts
  <2> QED
    BY <1>1, <2>1, <2>4, <2>5 DEF PrInv, PrTypes, Stops
<1>15. CASE ua_destroy
  <2> DEFINE a == Min(uas.listed)
             more == a \in Held(pres', mwi', pub', notf')
  <2>1. /\ uas.listed # {} /\ pub' = {} /\ notf' = {}
        /\ uas' = [listed |-> uas.listed \ {a}, owned |-> uas.owned \ {a}]
        /\ pres' = subscriber_close_all
        /\ stop' = [stop EXCEPT !.ext = IF more THEN @ + 1 ELSE @]
    BY <1>15 DEF ua_destroy, event_handler
  <2>2. Cardinality(uas.listed \ {a}) = Cardinality(uas.listed) - 1
        /\ Cardinality(uas.listed) \in Nat /\ Cardinality(PrAgents) \in Nat
    BY <1>1, <2>1, ListFacts
  <2> HIDE DEF a, more
  <2>3. PICK e \in {stop.ext, stop.ext + 1} : stop' = [stop EXCEPT !.ext = e]
    BY <2>1
  <2>4. e \in Nat /\ stop' \in [at : {stop.at}, asked : {stop.asked}, ext : {e},
          delayed : {stop.delayed}, closed : {stop.closed}, exited : {stop.exited}]
    BY <1>3, <2>3 DEF Stops
  <2>5. stop' \in Stops /\ stop'.ext = e
    BY <1>3, <2>4 DEF Stops
  <2>6. /\ uas' \in [listed : SUBSET PrAgents, owned : SUBSET PrAgents]
        /\ uas'.listed \subseteq uas'.owned /\ uas'.listed = uas.listed \ {a}
    BY <1>1, <2>1 DEF PrTypes
  <2>7. \A c \in Contacts :
          /\ pres'[c] \in [st : {"closing", "none"}, ua : PrAgents \cup {None}]
          /\ pres'[c].st # "active"
    BY <1>3, <2>1 DEF subscriber_close_all, NoPres, Pres
  <2>8. pres' = [c \in Contacts |-> pres'[c]]
    BY <2>1 DEF subscriber_close_all
  <2>9. pres' \in Pres /\ Fine(pres')
    BY <2>7, <2>8 DEF Pres, Fine, SubState
  <2>10. e + Cardinality(uas'.listed) <= Cardinality(PrAgents)
    <3>1. stop.ext \in Nat
      BY <1>3 DEF Stops
    <3> QED
      BY <1>1, <2>2, <2>3, <2>6, <3>1
  <2> QED
    BY <2>1, <2>5, <2>6, <2>9, <2>10 DEF PrInv, PrTypes, Stops, Pres, Fine
<1>16. CASE StopEnds
  <2>1. /\ pres' = pres /\ uas' = uas /\ pub' = pub /\ notf' = notf
        /\ \/ stop' = [stop EXCEPT !.at = "done", !.delayed = TRUE]
           \/ stop' = [stop EXCEPT !.at = "done", !.closed = TRUE]
    BY <1>16 DEF StopEnds
  <2>2. stop' \in [at : {"done"}, asked : {stop.asked}, ext : {stop.ext},
                   delayed : BOOLEAN, closed : BOOLEAN, exited : {stop.exited}]
    BY <1>3, <2>1 DEF Stops
  <2>3. stop' \in Stops /\ stop'.ext = stop.ext
    BY <1>3, <2>2 DEF Stops
  <2> QED
    BY <1>2, <1>3, <2>1, <2>3
<1>17. CASE exit_handler
  <2>1. /\ pres' = pres /\ uas' = uas /\ pub' = pub /\ notf' = notf
        /\ stop' = [stop EXCEPT !.exited = TRUE]
    BY <1>17 DEF exit_handler
  <2>2. stop' \in Stops /\ stop'.ext = stop.ext
    BY <1>3, <2>1 DEF Stops
  <2> QED
    BY <1>2, <1>3, <2>1, <2>2
<1>18. CASE UNCHANGED prVars
  <2>1. pres' = pres /\ uas' = uas /\ pub' = pub /\ notf' = notf /\ stop' = stop
    BY <1>18 DEF prVars
  <2> QED
    BY <1>2, <1>3, <2>1
<1> QED
  BY <1>6, <1>7, <1>8, <1>9, <1>10, <1>11, <1>12, <1>13, <1>14, <1>15, <1>16, <1>17,
     <1>18 DEF PrNext, Timers, Stopping

LEMMA PrInvMeans ==
  ASSUME PrInv
  PROVE  PrTypeOK
<1>1. PrTypes /\ stop.ext \in Nat
      /\ stop.ext + Cardinality(uas.listed) <= Cardinality(PrAgents)
  BY DEF PrInv, PrTypes
<1>2. stop.ext \in 0..Cardinality(PrAgents)
  BY <1>1, ListFacts
<1> QED
  BY <1>1, <1>2 DEF PrTypes, PrTypeOK

(* Every variable keeps its type; the count of the agents that outlive the *)
(* loop never exceeds the number of agents, how often ua_stop_all() is     *)
(* called (ept.c), and who subscribes has an agent (presence's             *)
(* subscriber.c).                                                          *)
THEOREM PresenceTypes == PrSpec => []PrTypeOK
BY PrInvMeans, PrInitInv, PrNextInv, PTL DEF PrSpec

(***************************************************************************)
(* All together.                                                           *)
(*                                                                         *)
(* A step of one component leaves the variables of the others alone, and   *)
(* each starts in one of its own initial states; only the call of Gather   *)
(* is already hung up when it does not run.                                *)
(***************************************************************************)

LiveInv == IInv /\ SlInv /\ PlInv /\ PrInv /\ GaInv /\ VdInv

LEMMA GaStillInv == GaStill => GaInv
<1> SUFFICES ASSUME GaStill PROVE GaInv
  OBVIOUS
<1>1. nat = "stun" /\ nat \in AllNatKinds /\ moved = FALSE /\ Granting = FALSE
  BY DEF GaStill, AllNatKinds, Granting
<1>2. session_alloc
  BY <1>1 DEF GaStill, session_alloc
<1>3. media_alloc
  BY <1>1 DEF GaStill, media_alloc
<1>4. app \in [open : BOOLEAN, wait : {TRUE}, modify : {0}]
  BY DEF GaStill
<1> QED
  BY <1>1, <1>2, <1>3, <1>4, GaInitInv

LEMMA LiveInitInv == LiveInit => LiveInv
<1> SUFFICES ASSUME LiveInit PROVE LiveInv
  OBVIOUS
<1>1. Init /\ SlInit /\ PlInit /\ PrInit /\ (GaInit \/ GaStill) /\ VdInit
  BY DEF LiveInit, SlStill, PlStill, PrStill, VdStill
<1> QED
  BY <1>1, InitInvariant, SlInitInvariant, PlInitInv, PrInitInv, GaStart, GaStillInv,
     VdInitInv DEF LiveInv

LEMMA LiveNextInv ==
  ASSUME LiveInv, [LiveNext]_allVars
  PROVE  LiveInv'
<1>1. /\ [Next]_vars /\ [SlNext]_slVars /\ [PlNext]_plVars
      /\ [PrNext]_prVars /\ [GaNext]_gaVars /\ [VdNext]_vdVars
  BY DEF LiveNext, allVars
<1>2. IInv /\ SlInv /\ PlInv /\ PrInv /\ GaInv /\ VdInv
  BY DEF LiveInv
<1>3. IInv'
  BY <1>1, <1>2, NextInvariant
<1>4. SlInv'
  BY <1>1, <1>2, SlNextInvariant
<1>5. PlInv'
  BY <1>1, <1>2, PlNextInv
<1>6. PrInv'
  BY <1>1, <1>2, PrNextInv
<1>7. GaInv'
  BY <1>1, <1>2, GaNextInv
<1>8. VdInv'
  BY <1>1, <1>2, VdNextInv
<1> QED
  BY <1>3, <1>4, <1>5, <1>6, <1>7, <1>8 DEF LiveInv

(* In every state of the composition the six components have their types,  *)
(* decoder and device, stream, player, gathering and video are safe.       *)
THEOREM LiveSafe ==
  LiveSpec => [](/\ LiveTypeOK /\ DecoderRuns /\ AudioMeansReady
                 /\ PlayedAsOften /\ FreedLast
                 /\ GatheredAll /\ OneReport /\ DecodedWhole)
<1>1. LiveInv =>
        /\ LiveTypeOK /\ DecoderRuns /\ AudioMeansReady
        /\ PlayedAsOften /\ FreedLast
        /\ GatheredAll /\ OneReport /\ DecodedWhole
  BY PlInvMeans, PrInvMeans, GaInvMeans, VdInvMeans
     DEF LiveInv, LiveTypeOK, IInv, SlInv
<1> QED
  BY <1>1, LiveInitInv, LiveNextInv, PTL DEF LiveSpec
=============================================================================

----------------------------- MODULE StreamProofs -----------------------------
(***************************************************************************)
(* Proofs about received media: Timestamp.tla and StreamRx.tla, for any    *)
(* range of the numbers that wrap.                                         *)
(*                                                                         *)
(* Both count in modular arithmetic what is true of unbounded numbers, so  *)
(* the lemmas are about a step of less than half the range (Timestamp) or  *)
(* of less than the largest dropout (StreamRx), and the invariants say     *)
(* what the remembered numbers are the remainders of.                      *)
(***************************************************************************)
EXTENDS Timestamp, StreamRx, TLAPS

(* Multiples that are subtracted.                                          *)
LEMMA Difference ==
  ASSUME NEW d \in Int, NEW j \in Int, NEW k \in Int, NEW a \in Int, NEW b \in Int
  PROVE  (d * j + a) - (d * k + b) = d * (j - k) + (a - b)
OBVIOUS

(* Less than a whole range is none, less than two is one.                  *)
LEMMA NoMultiple ==
  ASSUME NEW d \in Nat \ {0}, NEW k \in Int, d * k < d, d * k > -d
  PROVE  k = 0
OBVIOUS

LEMMA OneMultiple ==
  ASSUME NEW d \in Nat \ {0}, NEW k \in Int, d * k < 2 * d, d * k > 0
  PROVE  k = 1
OBVIOUS

(***************************************************************************)
(* Timestamp.                                                              *)
(***************************************************************************)

(* The range is positive, and a time is so many wraps and a header.        *)
LEMMA Range32Type == Range32 \in Nat \ {0}
BY TimestampAssumption DEF Range32

LEMMA TimeParts ==
  ASSUME NEW n \in Nat
  PROVE  /\ n \div Range32 \in Int
         /\ Header(n) \in 0..Range32-1 /\ Header(n) \in Int
         /\ n = Range32 * (n \div Range32) + Header(n)
<1>1. PICK d \in Nat \ {0} : d = Range32
  BY Range32Type
<1>2. n \div d \in Int /\ n % d \in 0..d-1 /\ n = d * (n \div d) + (n % d)
  OBVIOUS
<1> QED
  BY <1>1, <1>2 DEF Header

(* What timestamp_wrap() says of a step that is shorter than half a range, *)
(* the overflow included: how many wraps were passed, in which direction.  *)
LEMMA WrapCounts ==
  ASSUME NEW n \in Nat, NEW m \in Nat, n < m + Half, m < n + Half,
         NEW w \in timestamp_wrap(Header(n), Header(m)),
         ~(w = 1 /\ Overflows(Header(n), Header(m)))
  PROVE  w = n \div Range32 - m \div Range32
<1> DEFINE R == Range32
           a == Header(n)
           b == Header(m)
           q == n \div R
           p == m \div R
<1>1. R \in Nat \ {0} /\ R = 2 * Half /\ Half \in Nat \ {0}
  BY TimestampAssumption DEF Range32
<1>2. /\ a \in 0..R-1 /\ b \in 0..R-1 /\ q \in Int /\ p \in Int
      /\ n = R * q + a /\ m = R * p + b
  BY TimeParts
<1> HIDE DEF R, a, b, q, p
<1>3. n - m = R * (q - p) + (a - b)
  BY <1>1, <1>2, Difference
<1>4. PICK k \in Int : k = q - p
  BY <1>2
<1>5. R * k < Half - (a - b) /\ R * k > -Half - (a - b)
  BY <1>1, <1>2, <1>3, <1>4
<1>6. w \in timestamp_wrap(a, b) /\ ~(w = 1 /\ Overflows(a, b))
  BY DEF a, b
<1>7. CASE a < b
  <2>1. CASE b - a <= Half
    <3>1. R * k < R /\ R * k > -R
      BY <1>1, <1>2, <1>5, <1>7, <2>1
    <3>2. k = 0
      BY <1>1, <1>4, <3>1, NoMultiple
    <3>3. w = 0
      BY <1>1, <1>2, <1>6, <1>7, <2>1 DEF timestamp_wrap, Overflows, Signed, R
    <3> QED
      BY <1>2, <1>4, <3>2, <3>3 DEF q, p, R
  <2>2. CASE b - a > Half
    <3>1. R * k < 2 * R /\ R * k > 0
      BY <1>1, <1>2, <1>5, <1>7, <2>2
    <3>2. k = 1
      BY <1>1, <1>4, <3>1, OneMultiple
    <3>3. w = 1
      BY <1>1, <1>2, <1>6, <1>7, <2>2 DEF timestamp_wrap, Overflows, Signed, R
    <3> QED
      BY <1>2, <1>4, <3>2, <3>3 DEF q, p, R
  <2> QED
    BY <1>1, <1>2, <2>1, <2>2
<1>8. CASE a >= b
  <2> DEFINE j == -k
  <2>1. ~Overflows(a, b)
    BY <1>1, <1>2, <1>8 DEF Overflows
  <2>2. (b - a) % R = IF a = b THEN 0 ELSE b - a + R
    BY <1>1, <1>2, <1>8
  <2>3. CASE a - b <= Half
    <3>1. R * k < R /\ R * k > -R
      BY <1>1, <1>2, <1>5, <1>8, <2>3
    <3>2. k = 0
      BY <1>1, <1>4, <3>1, NoMultiple
    <3>3. w = 0
      BY <1>1, <1>2, <1>6, <1>8, <2>1, <2>2, <2>3 DEF timestamp_wrap, Signed, R
    <3> QED
      BY <1>2, <1>4, <3>2, <3>3 DEF q, p, R
  <2>4. CASE a - b > Half
    <3>1. R * j < 2 * R /\ R * j > 0 /\ j \in Int
      BY <1>1, <1>2, <1>4, <1>5, <1>8, <2>4
    <3>2. j = 1
      BY <1>1, <3>1, OneMultiple
    <3>3. w = -1
      BY <1>1, <1>2, <1>6, <1>8, <2>1, <2>2, <2>4 DEF timestamp_wrap, Signed, R
    <3> QED
      BY <1>2, <1>4, <3>2, <3>3 DEF q, p, R
  <2> QED
    BY <1>1, <1>2, <2>3, <2>4
<1> QED
  BY <1>2, <1>7, <1>8

-----------------------------------------------------------------------------
(* What is remembered are the headers of the first and the last frame, and *)
(* the wraps between them; video discards nothing.                         *)
Remembered ==
  ts.set => ts.first = Header(ts.origin) /\ ts.last = Header(ts.now)

WrapsCounted ==
  ts.set /\ ~upset => ts.wraps = ts.now \div Range32 - ts.origin \div Range32

VideoKeeps == media = "video" => ~ts.drop

TsInv == TsTypeOK /\ Remembered /\ WrapsCounted /\ VideoKeeps

LEMMA TsInitInvariant == TsInit => TsInv
<1> SUFFICES ASSUME TsInit PROVE TsInv
  OBVIOUS
<1>1. 0 \in 0..Range32-1 /\ ~ts.set /\ ~ts.drop
  BY Range32Type DEF TsInit
<1> QED
  BY <1>1 DEF TsInit, TsInv, TsTypeOK, Remembered, WrapsCounted, VideoKeeps

(* A frame of the time n changes ts in this way, with the wrap w.          *)
Counts(n, w, d) ==
  /\ ts' = [ts EXCEPT !.last = Header(n), !.now = n,
               !.wraps = IF w = 1 THEN @ + 1 ELSE @, !.drop = d]
  /\ upset' = (upset \/ w = -1 \/ (w = 1 /\ Overflows(Header(n), ts.last)))

Frame(n, w) ==
  \/ media = "video" /\ w = -1 /\ UNCHANGED ts /\ upset' = upset
  \/ media = "video" /\ Counts(n, w, ts.drop)
  \/ media = "audio" /\ Counts(n, w, w = -1 \/ Header(n) <= ts.last)

LEMMA FrameStep ==
  ASSUME TsTypeOK, NEW n \in Frames, AudioFrame(n) \/ VideoFrame(n)
  PROVE  ts.set /\ UNCHANGED media /\ \E w \in timestamp_wrap(Header(n), ts.last) : Frame(n, w)
<1>1. CASE AudioFrame(n)
  <2>1. PICK w \in timestamp_wrap(Header(n), ts.last) :
          Counts(n, w, w = -1 \/ Header(n) <= ts.last)
    BY <1>1 DEF AudioFrame, stream_recv_handler, Counts
  <2> QED
    BY <1>1, <2>1 DEF AudioFrame, stream_recv_handler, Frame
<1>2. CASE VideoFrame(n)
  <2>1. PICK w \in timestamp_wrap(Header(n), ts.last) :
          IF w = -1 THEN ts' = ts /\ upset' = upset ELSE Counts(n, w, ts.drop)
    <3>1. PICK w \in timestamp_wrap(Header(n), ts.last) :
            /\ ts' = IF w = -1 THEN ts
                     ELSE [ts EXCEPT !.last = Header(n), !.now = n,
                             !.wraps = IF w = 1 THEN @ + 1 ELSE @]
            /\ upset' = (upset \/ (w = 1 /\ Overflows(Header(n), ts.last)))
      BY <1>2 DEF VideoFrame, update_rtp_timestamp
    <3>2. \A k : [ts EXCEPT !.last = Header(n), !.now = n, !.wraps = k]
                 = [ts EXCEPT !.last = Header(n), !.now = n, !.wraps = k, !.drop = ts.drop]
      BY DEF TsTypeOK
    <3>3. CASE w = -1
      BY <3>1, <3>3 DEF TsTypeOK
    <3>4. CASE w # -1
      BY <3>1, <3>2, <3>4 DEF Counts, TsTypeOK
    <3> QED
      BY <3>3, <3>4
  <2> QED
    BY <1>2, <2>1 DEF VideoFrame, update_rtp_timestamp, Frame
<1> QED
  BY <1>1, <1>2

LEMMA TsNextInvariant ==
  ASSUME TsInv, [TsNext]_tsVars
  PROVE  TsInv'
<1> USE DEF TsInv
<1>1. ASSUME NEW n \in Frames, FirstFrame(n)
      PROVE  TsInv'
  <2>1. n \in Nat /\ Header(n) \in 0..Range32-1 /\ n \div Range32 \in Int
    BY TimeParts DEF Frames
  <2> QED
    BY <1>1, <2>1, Range32Type
       DEF FirstFrame, timestamp_set, TsTypeOK, Remembered, WrapsCounted, VideoKeeps
<1>2. ASSUME NEW n \in Frames, AudioFrame(n) \/ VideoFrame(n)
      PROVE  TsInv'
  <2>1. PICK w \in timestamp_wrap(Header(n), ts.last) : Frame(n, w)
    BY <1>2, FrameStep
  <2>2. ts.set /\ UNCHANGED media
    BY <1>2, FrameStep
  <2>3. n \in Nat /\ n < ts.now + Half /\ ts.now < n + Half
    BY <2>2 DEF Frames
  <2>4. Header(n) \in 0..Range32-1 /\ ts.last = Header(ts.now)
    BY <2>2, <2>3, TimeParts DEF Remembered
  <2>5. CASE UNCHANGED ts /\ upset' = upset
    BY <2>2, <2>5 DEF TsTypeOK, Remembered, WrapsCounted, VideoKeeps
  <2>6. ASSUME NEW d \in BOOLEAN, Counts(n, w, d), media = "video" => d = ts.drop
        PROVE  TsInv'
    <3> DEFINE k == IF w = 1 THEN ts.wraps + 1 ELSE ts.wraps
    <3>1. k \in Nat /\ ts' = [ts EXCEPT !.last = Header(n), !.now = n, !.wraps = k, !.drop = d]
      BY <2>6 DEF Counts, TsTypeOK
    <3> HIDE DEF k
    <3>2. TsTypeOK' /\ Remembered' /\ VideoKeeps'
      <4>1. upset' \in BOOLEAN
        BY <2>6 DEF Counts
      <4> QED
        BY <2>2, <2>3, <2>4, <2>6, <3>1, <4>1 DEF TsTypeOK, Remembered, VideoKeeps
    <3>3. ASSUME ~upset'
          PROVE  k = n \div Range32 - ts.origin \div Range32
      <4>1. ~upset /\ w # -1 /\ ~(w = 1 /\ Overflows(Header(n), ts.last))
        BY <2>6, <3>3 DEF Counts
      <4>2. w = n \div Range32 - ts.now \div Range32
        BY <2>3, <2>4, <4>1, WrapCounts DEF TsTypeOK
      <4>3. ts.wraps = ts.now \div Range32 - ts.origin \div Range32
        BY <2>2, <4>1 DEF WrapsCounted
      <4>4. w \in {0, 1}
        BY <4>1 DEF timestamp_wrap
      <4>5. /\ n \div Range32 \in Int /\ ts.now \div Range32 \in Int
            /\ ts.origin \div Range32 \in Int
        BY <2>3, TimeParts DEF TsTypeOK
      <4> QED
        BY <4>2, <4>3, <4>4, <4>5 DEF k
    <3>4. ts'.wraps = k /\ ts'.now = n /\ ts'.origin = ts.origin
      BY <3>1 DEF TsTypeOK
    <3> QED
      BY <3>2, <3>3, <3>4 DEF WrapsCounted
  <2> QED
    BY <2>1, <2>5, <2>6 DEF Frame, TsTypeOK
<1>3. CASE UNCHANGED tsVars
  BY <1>3 DEF tsVars, TsTypeOK, Remembered, WrapsCounted, VideoKeeps
<1> QED
  BY <1>1, <1>2, <1>3 DEF TsNext

LEMMA TsInvMeans ==
  ASSUME TsInv
  PROVE  TsTypeOK /\ ExtendedTrue
<1>1. ExtendedTrue
  <2> SUFFICES ASSUME ts.set, ~upset
               PROVE  timestamp_duration = ts.now - ts.origin
    BY DEF ExtendedTrue
  <2> DEFINE q == ts.now \div Range32
             p == ts.origin \div Range32
  <2>1. ts.now \in Nat /\ ts.origin \in Nat
    BY DEF TsInv, TsTypeOK
  <2>2. /\ q \in Int /\ p \in Int
        /\ Header(ts.now) \in Int /\ ts.now = Range32 * q + Header(ts.now)
        /\ Header(ts.origin) \in Int /\ ts.origin = Range32 * p + Header(ts.origin)
    BY <2>1, TimeParts
  <2>3. timestamp_duration = ((q - p) * Range32 + Header(ts.now)) - Header(ts.origin)
    BY DEF TsInv, Remembered, WrapsCounted, timestamp_duration, timestamp_calc_extended
  <2> HIDE DEF q, p
  <2>4. (q - p) * Range32 = Range32 * (q - p) /\ Range32 * (q - p) \in Int
    BY <2>2, Range32Type
  <2>5. ts.now - ts.origin
          = Range32 * (q - p) + (Header(ts.now) - Header(ts.origin))
    BY <2>2, Range32Type, Difference
  <2> QED
    BY <2>2, <2>3, <2>4, <2>5
<1> QED
  BY <1>1 DEF TsInv

(* The types of the timestamps.                                            *)
THEOREM TimestampTypes == TsSpec => []TsTypeOK
BY TsInvMeans, TsInitInvariant, TsNextInvariant, PTL DEF TsSpec

(* The duration is what passed at the sender, across every wrap.           *)
THEOREM DurationIsTrue == TsSpec => []ExtendedTrue
BY TsInvMeans, TsInitInvariant, TsNextInvariant, PTL DEF TsSpec

(* What audio discards is late, or the first frame after a wrap.           *)
THEOREM DiscardedIsLate == TsSpec => DiscardsLate
<1>1. ASSUME TsInv, [TsNext]_tsVars
      PROVE  [ ts.set /\ ts'.drop /\ ts' # ts
                 => ts'.now <= ts.now
                      \/ ts'.now \div Range32 > ts.now \div Range32 ]_tsVars
  <2> SUFFICES ASSUME ts.set, ts'.drop, ts' # ts
               PROVE  ts'.now <= ts.now \/ ts'.now \div Range32 > ts.now \div Range32
    OBVIOUS
  <2>1. PICK n \in Frames : AudioFrame(n) \/ VideoFrame(n)
    BY <1>1 DEF TsNext, FirstFrame, tsVars
  <2>2. PICK w \in timestamp_wrap(Header(n), ts.last) : Frame(n, w)
    BY <1>1, <2>1, FrameStep DEF TsInv
  <2>3. ts'.now = n /\ (w = -1 \/ Header(n) <= ts.last)
    BY <1>1, <2>2 DEF Frame, Counts, TsInv, TsTypeOK, VideoKeeps
  <2>4. n \in Nat /\ ts.now \in Nat /\ n < ts.now + Half /\ ts.now < n + Half
    BY <1>1 DEF Frames, TsInv, TsTypeOK
  <2>5. ts.last = Header(ts.now)
    BY <1>1 DEF TsInv, Remembered
  <2> DEFINE q == n \div Range32
             p == ts.now \div Range32
  <2>6. /\ q \in Int /\ p \in Int
        /\ Header(ts.now) \in Int /\ ts.now = Range32 * p + Header(ts.now)
        /\ Header(n) \in Int /\ n = Range32 * q + Header(n)
    BY <2>4, TimeParts
  <2>7. w = -1 => q = p - 1
    BY <2>4, <2>5, <2>6, WrapCounts
  <2> HIDE DEF q, p
  <2>8. w = -1 => ts'.now <= ts.now
    <3> SUFFICES ASSUME w = -1 PROVE n <= ts.now
      BY <2>3
    <3>1. Header(n) < Range32 /\ Header(ts.now) >= 0
      <4>1. Header(n) \in 0..Range32-1 /\ Header(ts.now) \in 0..Range32-1
        BY <2>4, TimeParts
      <4> QED
        BY <4>1, Range32Type
    <3>2. Range32 * p = Range32 * q + Range32
      BY <2>6, <2>7, Range32Type
    <3> QED
      BY <2>4, <2>6, <3>1, <3>2, Range32Type
  <2>9. Header(n) <= Header(ts.now) /\ q <= p => n <= ts.now
    BY <2>4, <2>6, Range32Type
  <2> QED
    BY <2>3, <2>5, <2>6, <2>8, <2>9 DEF q, p
<1> QED
  BY <1>1, TsInitInvariant, TsNextInvariant, PTL DEF TsSpec, DiscardsLate

(***************************************************************************)
(* StreamRx.                                                               *)
(***************************************************************************)

RxTypes ==
  /\ wire \in [plan : FormatPlans, start : 0..SeqRange-1, top : [Sources -> Nat]]
  /\ strm \in [ssrc : Sources \cup {0}, pseq : -1..SeqRange-1, pseqSet : BOOLEAN,
               pt : Formats \cup {"none"}, started : BOOLEAN, recv : BOOLEAN,
               jbtype : {"off", "fixed", "adaptive"}]
  /\ jbuf \in [frames : SUBSET Packets, got : Packets \cup {NoPacket}]
  /\ rxpt \in Formats
  /\ pend \in [p : Packets \cup {NoPacket}, flush : BOOLEAN, skipped : BOOLEAN]
  /\ out \in [lost : 0..SeqRange-1, gap : Int,
              base : [src : Sources \cup {0}, n : Int]]

(* The number remembered is that of the packet losses are counted from.    *)
CountedFromBase ==
  strm.jbtype # "off" =>
    IF strm.pseq = Unset THEN out.base.src = 0 ELSE strm.pseq = Seq16(out.base)

(* The packet on its way is of the source of the stream, and so is what is *)
(* in the buffer unless it is going to be flushed or the flush was skipped.*)
Sourced ==
  /\ pend.p # NoPacket => pend.p.src = strm.ssrc
  /\ pend.flush => pend.p # NoPacket
  /\ pend.flush \/ pend.skipped \/ \A p \in jbuf.frames : p.src = strm.ssrc
  /\ ~strm.pseqSet => pend.p = NoPacket
  /\ ~strm.pseqSet \/ strm.jbtype = "off" => jbuf.frames = {}

RxInv == RxTypes /\ CountedFromBase /\ Sourced /\ LossExact

LEMMA RxConstants ==
  /\ SeqRange \in Nat \ {0} /\ MaxDropout \in Nat /\ MaxMisorder \in Nat
  /\ MaxDropout + MaxMisorder < SeqRange
  /\ Sources \subseteq Nat \ {0}
BY StreamRxAssumption

(* Packets have a source, a positive number and a known format.            *)
LEMMA PacketType ==
  ASSUME RxTypes, NEW p \in Packets
  PROVE  /\ p = [src |-> p.src, n |-> p.n]
         /\ p.src \in Sources /\ p.n \in Nat \ {0} /\ p # NoPacket
         /\ p \in [src : Sources \cup {0}, n : Int]
         /\ Format(p) \in Formats /\ Seq16(p) \in 0..SeqRange-1
<1>1. PICK s \in Sources, n \in DOMAIN wire.plan : p = [src |-> s, n |-> n]
  BY DEF Packets
<1>2. n \in Nat \ {0} /\ wire.plan[n] \in Formats /\ wire.start \in Int
  BY StreamRxAssumption DEF RxTypes
<1>3. (wire.start + n) % SeqRange \in 0..SeqRange-1
  BY <1>2, RxConstants
<1> QED
  BY <1>1, <1>2, <1>3, RxConstants DEF NoPacket, Format, Seq16

(* The difference of two remainders is that of the numbers, if they are    *)
(* less than the range apart.                                              *)
LEMMA DeltaOfGap ==
  ASSUME NEW d \in Nat \ {0}, NEW x \in Int, NEW y \in Int, x - y < d, y - x < d
  PROVE  ((x % d) - (y % d)) % d = IF x >= y THEN x - y ELSE d + (x - y)
<1>1. PICK q \in Int, a \in 0..d-1 : x = d * q + a /\ x % d = a
  <2>1. x \div d \in Int /\ x % d \in 0..d-1 /\ x = d * (x \div d) + (x % d)
    OBVIOUS
  <2> QED
    BY <2>1
<1>2. PICK p \in Int, b \in 0..d-1 : y = d * p + b /\ y % d = b
  <2>1. y \div d \in Int /\ y % d \in 0..d-1 /\ y = d * (y \div d) + (y % d)
    OBVIOUS
  <2> QED
    BY <2>1
<1>3. x - y = d * (q - p) + (a - b)
  BY <1>1, <1>2, Difference
<1>4. PICK k \in Int : k = q - p
  OBVIOUS
<1>5. d * k < 2 * d /\ -d * k < 2 * d
  BY <1>3, <1>4
<1>6. k \in {-1, 0, 1}
  <2>1. k < 2
    BY <1>5
  <2>2. -k < 2
    BY <1>5
  <2> QED
    BY <2>1, <2>2
<1>7. x - y = a - b + (IF k = 0 THEN 0 ELSE IF k = 1 THEN d ELSE -d)
  BY <1>3, <1>4, <1>6
<1>8. (a - b) % d = IF a >= b THEN a - b ELSE d + (a - b)
  OBVIOUS
<1>9. ((x % d) - (y % d)) % d = IF a >= b THEN a - b ELSE d + (a - b)
  BY <1>1, <1>2, <1>8
<1>10. (IF a >= b THEN a - b ELSE d + (a - b)) = IF x >= y THEN x - y ELSE d + (x - y)
  <2> HIDE <1>1, <1>2
  <2> QED
    BY <1>6, <1>7
<1> QED
  BY <1>9, <1>10

LEMMA RemainderBefore ==
  ASSUME NEW d \in Nat \ {0}, NEW x \in Int, x % d # 0
  PROVE  (x - 1) % d = (x % d) - 1
<1>1. PICK q \in Int, a \in 0..d-1 : x = d * q + a /\ x % d = a
  <2>1. x \div d \in Int /\ x % d \in 0..d-1 /\ x = d * (x \div d) + (x % d)
    OBVIOUS
  <2> QED
    BY <2>1
<1>2. PICK r \in 0..d-1 : r = a - 1
  BY <1>1
<1>3. (d * q + r) % d = r
  OBVIOUS
<1>4. x - 1 = d * q + r
  BY <1>1, <1>2
<1> QED
  BY <1>1, <1>2, <1>3, <1>4

(* The number of a packet, and what lostcalc() does to the count.          *)
LEMMA LostOfGap ==
  ASSUME RxTypes, CountedFromBase, strm.jbtype # "off",
         NEW p \in Packets, NEW lost, lost = lostcalc(p)
  PROVE  /\ lost \in -2..SeqRange-1
         /\ p.src = out.base.src =>
              LET gap == p.n - out.base.n IN
              /\ gap \in 1..MaxDropout-1 => lost = gap - 1
              /\ gap \in -MaxMisorder..0 => lost <= 0
<1>1. /\ p.src \in Sources /\ p.n \in Int /\ Seq16(p) \in 0..SeqRange-1
      /\ out.base.n \in Int /\ wire.start \in Int
  BY PacketType DEF RxTypes
<1>2. CASE strm.pseq = Unset
  BY <1>1, <1>2, RxConstants DEF lostcalc, CountedFromBase
<1>3. CASE strm.pseq # Unset
  <2>1. strm.pseq = Seq16(out.base)
    BY <1>3 DEF CountedFromBase
  <2>2. Delta(p) \in 0..SeqRange-1
    BY <1>1, RxConstants DEF Delta, RxTypes
  <2>3. lost \in -2..SeqRange-1
    BY <1>3, <2>2, RxConstants DEF lostcalc
  <2> DEFINE gap == p.n - out.base.n
  <2>4. ASSUME gap < SeqRange, -gap < SeqRange
        PROVE  Delta(p) = IF gap >= 0 THEN gap ELSE SeqRange + gap
    <3> DEFINE x == wire.start + p.n
               y == wire.start + out.base.n
    <3>1. x \in Int /\ y \in Int /\ x - y = gap /\ y - x = -gap
      BY <1>1
    <3>2. Delta(p) = ((x % SeqRange) - (y % SeqRange)) % SeqRange
      <4>1. Seq16(p) = x % SeqRange /\ Seq16(out.base) = y % SeqRange
        BY DEF Seq16
      <4> QED
        BY <2>1, <4>1 DEF Delta
    <3>3. x - y < SeqRange /\ y - x < SeqRange
      BY <2>4, <3>1
    <3> HIDE DEF x, y, gap
    <3>4. ((x % SeqRange) - (y % SeqRange)) % SeqRange
            = IF x >= y THEN x - y ELSE SeqRange + (x - y)
      BY <3>1, <3>3, DeltaOfGap, RxConstants
    <3> QED
      BY <3>1, <3>2, <3>4, RxConstants
  <2>5. gap \in 1..MaxDropout-1 => lost = gap - 1
    BY <1>1, <1>3, <2>4, RxConstants DEF lostcalc
  <2>6. gap \in -MaxMisorder..0 => lost <= 0
    BY <1>1, <1>3, <2>4, RxConstants DEF lostcalc
  <2> QED
    BY <2>3, <2>5, <2>6
<1> QED
  BY <1>2, <1>3

(* Decoding keeps the count exact and bound to the packet it starts from.  *)
LEMMA DecodeKeeps ==
  ASSUME RxTypes, CountedFromBase, strm.jbtype # "off",
         NEW p \in Packets, Decode(p, lostcalc(p)),
         strm'.pseq = IF lostcalc(p) >= 0 THEN Seq16(p) ELSE strm.pseq,
         strm'.jbtype = strm.jbtype, UNCHANGED wire
  PROVE  /\ out' \in [lost : 0..SeqRange-1, gap : Int,
                      base : [src : Sources \cup {0}, n : Int]]
         /\ CountedFromBase' /\ LossExact'
<1>1. PICK lost \in -2..SeqRange-1 : lost = lostcalc(p)
  BY LostOfGap
<1>2. /\ p.src \in Sources /\ p.n \in Int /\ Seq16(p) \in 0..SeqRange-1
      /\ p \in [src : Sources \cup {0}, n : Int] /\ SeqRange \in Nat \ {0}
      /\ out.base \in [src : Sources \cup {0}, n : Int]
  BY PacketType, RxConstants DEF RxTypes
<1>3. /\ out'.lost = IF lost > 0 THEN lost ELSE 0
      /\ out'.gap = IF p.src = out.base.src THEN p.n - out.base.n ELSE Unknown
      /\ out'.base = IF lost >= 0 THEN p ELSE out.base
      /\ out' = [lost |-> out'.lost, gap |-> out'.gap, base |-> out'.base]
  BY <1>1 DEF Decode
<1>4. out' \in [lost : 0..SeqRange-1, gap : Int,
                base : [src : Sources \cup {0}, n : Int]]
  <2>1. out'.lost \in 0..SeqRange-1 /\ out'.gap \in Int
    BY <1>2, <1>3 DEF Unknown
  <2> QED
    BY <1>2, <1>3, <2>1
<1>5. CountedFromBase'
  <2>1. CASE lost >= 0
    BY <1>1, <1>2, <1>3, <2>1 DEF CountedFromBase, Seq16, Unset
  <2>2. CASE lost < 0
    BY <1>1, <1>3, <2>2 DEF CountedFromBase, Seq16
  <2> QED
    BY <2>1, <2>2
<1>6. LossExact'
  <2>1. CASE p.src = out.base.src
    BY <1>1, <1>2, <1>3, <2>1, LostOfGap, RxConstants DEF LossExact
  <2>2. CASE p.src # out.base.src
    BY <1>3, <2>2, RxConstants DEF LossExact, Unknown
  <2> QED
    BY <2>1, <2>2
<1> QED
  BY <1>4, <1>5, <1>6

-----------------------------------------------------------------------------
LEMMA RxInitInvariant == RxInit => RxInv
<1> SUFFICES ASSUME RxInit PROVE RxInv
  OBVIOUS
<1> USE RxConstants DEF RxInit, NoPacket, jbuf_flush
<1>1. RxTypes
  <2>1. wire \in [plan : FormatPlans, start : 0..SeqRange-1, top : [Sources -> Nat]]
    BY StreamRxAssumption
  <2>2. /\ strm \in [ssrc : Sources \cup {0}, pseq : -1..SeqRange-1, pseqSet : BOOLEAN,
                     pt : Formats \cup {"none"}, started : BOOLEAN, recv : BOOLEAN,
                     jbtype : {"off", "fixed", "adaptive"}]
        /\ rxpt \in Formats
    BY DEF Unset, Formats
  <2>3. /\ jbuf \in [frames : SUBSET Packets, got : Packets \cup {NoPacket}]
        /\ pend \in [p : Packets \cup {NoPacket}, flush : BOOLEAN, skipped : BOOLEAN]
    OBVIOUS
  <2>4. out \in [lost : 0..SeqRange-1, gap : Int, base : [src : Sources \cup {0}, n : Int]]
    BY DEF Unknown
  <2> QED
    BY <2>1, <2>2, <2>3, <2>4 DEF RxTypes
<1>2. CountedFromBase /\ Sourced /\ LossExact
  BY DEF CountedFromBase, Sourced, LossExact, Unknown, Unset
<1> QED
  BY <1>1, <1>2 DEF RxInv

(* What the network can deliver does not change.                           *)
LEMMA PacketsStay ==
  ASSUME wire'.plan = wire.plan
  PROVE  Packets' = Packets
BY DEF Packets

LEMMA RxHandlerInvariant ==
  ASSUME RxInv, NEW p \in Packets, rtp_handler(p)
  PROVE  RxInv'
<1> USE DEF RxInv
<1> DEFINE top == [wire.top EXCEPT ![p.src] = IF p.n > @ THEN p.n ELSE @]
<1>1. /\ p.src \in Sources /\ p.n \in Nat \ {0} /\ p # NoPacket
      /\ p \in [src : Sources \cup {0}, n : Int]
      /\ Format(p) \in Formats /\ Seq16(p) \in 0..SeqRange-1
  BY PacketType
<1>2. pend.p = NoPacket /\ ~pend.flush
  BY DEF rtp_handler, RxTypes, Sourced
<1>3. wire' = [wire EXCEPT !.top = top] /\ top \in [Sources -> Nat]
  <2>1. wire' = [wire EXCEPT !.top = top]
    BY DEF rtp_handler
  <2>2. wire.top \in [Sources -> Nat]
    BY DEF RxTypes
  <2> QED
    BY <1>1, <2>1, <2>2
<1> HIDE DEF top
<1>4. /\ wire' \in [plan : FormatPlans, start : 0..SeqRange-1, top : [Sources -> Nat]]
      /\ wire'.plan = wire.plan /\ wire'.start = wire.start
  BY <1>3 DEF RxTypes
<1>5. Packets' = Packets
  BY <1>4, PacketsStay
<1>6. CASE ~strm.recv
  <2>1. UNCHANGED <<strm, jbuf, rxpt, pend, out>>
    BY <1>6 DEF rtp_handler
  <2> QED
    BY <1>4, <1>5, <2>1 DEF RxTypes, CountedFromBase, Sourced, LossExact, Seq16
<1>7. CASE strm.recv
  <2> DEFINE changed == strm.pt # Format(p)
             flush == strm.pseqSet /\ strm.ssrc # p.src
             pseq == IF Restarts(p) THEN Before32(p) ELSE strm.pseq
             base == IF Restarts(p) THEN CountFrom(p) ELSE out.base
  <2>1. /\ strm' = [strm EXCEPT !.ssrc = p.src, !.pseqSet = TRUE, !.pt = Format(p),
                      !.pseq = pseq]
        /\ out' = IF Restarts(p) THEN [out EXCEPT !.base = CountFrom(p)] ELSE out
        /\ rxpt' \in {rxpt, Format(p)}
        /\ jbuf' \in {jbuf, jbuf_flush}
        /\ pend' = IF changed /\ ~Accepted(p)
                   THEN [pend EXCEPT !.skipped = @ \/ flush]
                   ELSE [p |-> p, flush |-> flush, skipped |-> pend.skipped /\ ~flush]
    BY <1>7 DEF rtp_handler, stream_pt_handler
  <2>2. pseq \in -1..SeqRange-1
    BY <1>1, RxConstants DEF RxTypes, Before32, Unset
  <2>3. base \in [src : Sources \cup {0}, n : Int]
    BY <1>1, RxConstants DEF RxTypes, CountFrom, NoPacket
  <2>4. out' = [out EXCEPT !.base = base]
    BY <2>1 DEF RxTypes
  <2>5. strm.jbtype # "off" => IF pseq = Unset THEN base.src = 0
                               ELSE pseq = (wire.start + base.n) % SeqRange
    <3>1. CASE Restarts(p)
      <4>1. CASE Seq16(p) = 0
        BY <3>1, <4>1 DEF Before32, CountFrom, Unset, NoPacket
      <4>2. CASE Seq16(p) # 0
        <5>1. pseq = Seq16(p) - 1 /\ pseq # Unset /\ base = [p EXCEPT !.n = @ - 1]
          BY <1>1, <3>1, <4>2, RxConstants DEF Before32, CountFrom, Unset
        <5>2. base.n = p.n - 1
          BY <1>1, <5>1
        <5> DEFINE x == wire.start + p.n
        <5>3. x \in Int /\ x % SeqRange # 0 /\ Seq16(p) = x % SeqRange
          BY <1>1, <4>2 DEF Seq16, RxTypes
        <5>4. wire.start + base.n = x - 1
          BY <1>1, <5>2 DEF RxTypes
        <5> HIDE DEF x
        <5>5. (x - 1) % SeqRange = (x % SeqRange) - 1
          BY <5>3, RemainderBefore, RxConstants
        <5> QED
          BY <5>1, <5>3, <5>4, <5>5
      <4> QED
        BY <4>1, <4>2
    <3>2. CASE ~Restarts(p)
      BY <3>2 DEF CountedFromBase, Seq16
    <3> QED
      BY <3>1, <3>2
  <2> HIDE DEF pseq, base
  <2>6. /\ strm'.ssrc = p.src /\ strm'.pseqSet = TRUE /\ strm'.pseq = pseq
        /\ strm'.jbtype = strm.jbtype
        /\ strm' \in [ssrc : Sources \cup {0}, pseq : -1..SeqRange-1, pseqSet : BOOLEAN,
                      pt : Formats \cup {"none"}, started : BOOLEAN, recv : BOOLEAN,
                      jbtype : {"off", "fixed", "adaptive"}]
    BY <1>1, <2>1, <2>2 DEF RxTypes
  <2>7. /\ out'.base = base /\ out'.gap = out.gap /\ out'.lost = out.lost
        /\ out' \in [lost : 0..SeqRange-1, gap : Int,
                     base : [src : Sources \cup {0}, n : Int]]
    BY <2>3, <2>4 DEF RxTypes
  <2>8. /\ jbuf' \in [frames : SUBSET Packets, got : Packets \cup {NoPacket}]
        /\ jbuf'.frames \subseteq jbuf.frames /\ rxpt' \in Formats
    BY <1>1, <2>1 DEF RxTypes, jbuf_flush
  <2>9. pend' \in [p : Packets \cup {NoPacket}, flush : BOOLEAN, skipped : BOOLEAN]
    BY <2>1 DEF RxTypes
  <2>10. RxTypes'
    BY <1>4, <1>5, <2>6, <2>7, <2>8, <2>9 DEF RxTypes
  <2>11. CountedFromBase'
    BY <1>4, <2>5, <2>6, <2>7 DEF CountedFromBase, Seq16
  <2>12. LossExact'
    BY <2>6, <2>7 DEF LossExact
  <2>13. Sourced'
    <3>1. strm.ssrc = p.src \/ flush \/ jbuf.frames = {}
      BY DEF Sourced
    <3>2. CASE changed /\ ~Accepted(p)
      BY <1>2, <2>1, <2>6, <2>8, <3>1, <3>2 DEF Sourced, RxTypes
    <3>3. CASE ~(changed /\ ~Accepted(p))
      BY <1>1, <1>2, <2>1, <2>6, <2>8, <3>1, <3>3 DEF Sourced, RxTypes
    <3> QED
      BY <3>2, <3>3
  <2> QED
    BY <2>10, <2>11, <2>12, <2>13
<1> QED
  BY <1>6, <1>7 DEF RxTypes

(* A packet that is put is one of the stream's.                            *)
LEMMA PutType ==
  ASSUME RxTypes, NEW b \in [frames : SUBSET Packets, got : Packets \cup {NoPacket}],
         NEW p \in Packets
  PROVE  /\ jbuf_put(b, p) \in [frames : SUBSET Packets, got : Packets \cup {NoPacket}]
         /\ jbuf_put(b, p).frames \subseteq b.frames \cup {p}
BY DEF jbuf_put

(* Decoding from a buffer b, that holds packets of the stream only if the  *)
(* flush was not skipped.                                                  *)
LEMMA StreamDecodeKeeps ==
  ASSUME RxTypes, CountedFromBase, LossExact, strm.jbtype # "off",
         NEW s, \E f \in BOOLEAN : s = [strm EXCEPT !.started = f],
         NEW b \in [frames : SUBSET Packets, got : Packets \cup {NoPacket}],
         stream_decode(s, b), UNCHANGED <<wire, rxpt>>,
         pend' \in [p : Packets \cup {NoPacket}, flush : BOOLEAN, skipped : BOOLEAN]
  PROVE  /\ RxTypes' /\ CountedFromBase' /\ LossExact'
         /\ jbuf'.frames \subseteq b.frames
         /\ strm'.ssrc = strm.ssrc /\ strm'.pseqSet = strm.pseqSet
         /\ strm'.jbtype = strm.jbtype
<1>1. Packets' = Packets
  BY PacketsStay
<1>2. PICK f \in BOOLEAN : s = [strm EXCEPT !.started = f]
  OBVIOUS
<1>3. CASE jbuf' = b /\ strm' = s /\ UNCHANGED out
  BY <1>1, <1>2, <1>3 DEF RxTypes, CountedFromBase, LossExact, Seq16
<1>4. ASSUME NEW p \in b.frames,
             jbuf' = [frames |-> b.frames \ {p}, got |-> p],
             strm' = [s EXCEPT !.started = TRUE,
                        !.pseq = IF lostcalc(p) >= 0 THEN Seq16(p) ELSE @],
             Decode(p, lostcalc(p))
      PROVE  /\ RxTypes' /\ CountedFromBase' /\ LossExact'
             /\ jbuf'.frames \subseteq b.frames
             /\ strm'.ssrc = strm.ssrc /\ strm'.pseqSet = strm.pseqSet
             /\ strm'.jbtype = strm.jbtype
  <2>1. p \in Packets /\ Seq16(p) \in 0..SeqRange-1
    BY PacketType
  <2>2. PICK k \in -1..SeqRange-1 :
          k = IF lostcalc(p) >= 0 THEN Seq16(p) ELSE strm.pseq
    BY <2>1, RxConstants DEF RxTypes
  <2>3. strm' = [strm EXCEPT !.started = TRUE, !.pseq = k]
    BY <1>2, <1>4, <2>2 DEF RxTypes
  <2>4. /\ strm'.pseq = k /\ strm'.jbtype = strm.jbtype
        /\ strm'.ssrc = strm.ssrc /\ strm'.pseqSet = strm.pseqSet
        /\ strm' \in [ssrc : Sources \cup {0}, pseq : -1..SeqRange-1, pseqSet : BOOLEAN,
                      pt : Formats \cup {"none"}, started : BOOLEAN, recv : BOOLEAN,
                      jbtype : {"off", "fixed", "adaptive"}]
    BY <2>3 DEF RxTypes
  <2>5. /\ out' \in [lost : 0..SeqRange-1, gap : Int,
                     base : [src : Sources \cup {0}, n : Int]]
        /\ CountedFromBase' /\ LossExact'
    BY <1>4, <2>1, <2>2, <2>4, DecodeKeeps
  <2>6. /\ jbuf' \in [frames : SUBSET Packets, got : Packets \cup {NoPacket}]
        /\ jbuf'.frames \subseteq b.frames
    BY <1>4, <2>1
  <2> QED
    BY <1>1, <2>4, <2>5, <2>6 DEF RxTypes
<1> QED
  BY <1>3, <1>4 DEF stream_decode

LEMMA RxPutInvariant ==
  ASSUME RxInv, PutPacket
  PROVE  RxInv'
<1> USE DEF RxInv
<1> DEFINE b == IF pend.flush THEN jbuf_flush ELSE jbuf
           f == strm.started /\ ~pend.flush
           s == [strm EXCEPT !.started = f]
           JbufType == [frames : SUBSET Packets, got : Packets \cup {NoPacket}]
<1>1. /\ pend.p \in Packets /\ pend.p # NoPacket /\ UNCHANGED <<wire, rxpt>>
      /\ pend' = [pend EXCEPT !.p = NoPacket, !.flush = FALSE]
  BY DEF PutPacket, RxTypes
<1>2. /\ pend' \in [p : Packets \cup {NoPacket}, flush : BOOLEAN, skipped : BOOLEAN]
      /\ pend'.p = NoPacket /\ pend'.flush = FALSE /\ pend'.skipped = pend.skipped
  BY <1>1 DEF RxTypes
<1>3. Packets' = Packets
  BY <1>1, PacketsStay
<1>4. b \in JbufType /\ (pend.skipped \/ \A q \in b.frames : q.src = strm.ssrc)
  BY DEF RxTypes, Sourced, jbuf_flush
<1>5. pend.p.src = strm.ssrc /\ strm.pseqSet
  BY <1>1 DEF Sourced, RxTypes
<1>6. f \in BOOLEAN
  BY DEF RxTypes
<1> HIDE DEF b, f
<1>7. CASE strm.jbtype = "off"
  <2>1. Decode(pend.p, 0) /\ UNCHANGED <<strm, jbuf>>
    BY <1>7 DEF PutPacket
  <2>2. pend.p \in [src : Sources \cup {0}, n : Int] /\ pend.p.n \in Int
    BY <1>1, PacketType
  <2>3. out' \in [lost : 0..SeqRange-1, gap : Int,
                  base : [src : Sources \cup {0}, n : Int]]
    BY <2>1, <2>2, RxConstants DEF Decode, RxTypes, Unknown
  <2>4. LossExact'
    BY <1>7, <2>1 DEF LossExact, Decode
  <2> QED
    BY <1>1, <1>2, <1>3, <1>7, <2>1, <2>3, <2>4
       DEF RxTypes, CountedFromBase, Sourced
<1>8. CASE strm.jbtype # "off"
  <2>1. /\ jbuf_put(b, pend.p) \in JbufType
        /\ jbuf_put(b, pend.p).frames \subseteq b.frames \cup {pend.p}
    BY <1>1, <1>4, PutType
  <2>2. /\ RxTypes' /\ CountedFromBase' /\ LossExact'
        /\ jbuf'.frames \subseteq b.frames \cup {pend.p}
        /\ strm'.ssrc = strm.ssrc /\ strm'.pseqSet = strm.pseqSet
        /\ strm'.jbtype = strm.jbtype
    <3>1. CASE strm.jbtype = "fixed"
      <4>1. stream_decode(s, jbuf_put(b, pend.p))
        BY <3>1 DEF PutPacket, b, f
      <4> QED
        BY <1>1, <1>2, <1>6, <1>8, <2>1, <4>1, StreamDecodeKeeps
    <3>2. CASE strm.jbtype # "fixed"
      <4>1. jbuf' = jbuf_put(b, pend.p) /\ strm' = s /\ UNCHANGED out
        BY <1>8, <3>2 DEF PutPacket, b, f
      <4> QED
        BY <1>1, <1>2, <1>3, <1>6, <2>1, <4>1
           DEF RxTypes, CountedFromBase, LossExact, Seq16
    <3> QED
      BY <3>1, <3>2
  <2> QED
    BY <1>2, <1>4, <1>5, <1>8, <2>2 DEF Sourced
<1> QED
  BY <1>7, <1>8

LEMMA RxNextInvariant ==
  ASSUME RxInv, [RxNext]_rxVars
  PROVE  RxInv'
<1> USE DEF RxInv
<1>1. ASSUME NEW p \in Packets, rtp_handler(p)
      PROVE  RxInv'
  BY <1>1, RxHandlerInvariant
<1>2. CASE PutPacket
  BY <1>2, RxPutInvariant
<1>3. CASE DecodeNext
  <2>1. strm = [strm EXCEPT !.started = strm.started] /\ strm.started \in BOOLEAN
    BY DEF RxTypes
  <2>2. /\ strm.jbtype # "off" /\ stream_decode(strm, jbuf)
        /\ UNCHANGED <<wire, rxpt, pend>>
    BY <1>3 DEF DecodeNext
  <2>3. /\ jbuf \in [frames : SUBSET Packets, got : Packets \cup {NoPacket}]
        /\ pend \in [p : Packets \cup {NoPacket}, flush : BOOLEAN, skipped : BOOLEAN]
    BY DEF RxTypes
  <2>4. /\ RxTypes' /\ CountedFromBase' /\ LossExact'
        /\ jbuf'.frames \subseteq jbuf.frames
        /\ strm'.ssrc = strm.ssrc /\ strm'.pseqSet = strm.pseqSet
        /\ strm'.jbtype = strm.jbtype
    BY <2>1, <2>2, <2>3, StreamDecodeKeeps
  <2> QED
    BY <2>2, <2>4 DEF Sourced
<1>4. CASE stream_set_ldir
  <2>1. /\ UNCHANGED <<wire, rxpt, pend, out>> /\ jbuf' \in {jbuf, jbuf_flush}
        /\ strm' = [strm EXCEPT !.recv = ~@]
    BY <1>4 DEF stream_set_ldir
  <2>2. Packets' = Packets
    BY <2>1, PacketsStay
  <2>3. /\ strm'.ssrc = strm.ssrc /\ strm'.pseqSet = strm.pseqSet
        /\ strm'.jbtype = strm.jbtype /\ strm'.pseq = strm.pseq
        /\ strm' \in [ssrc : Sources \cup {0}, pseq : -1..SeqRange-1, pseqSet : BOOLEAN,
                      pt : Formats \cup {"none"}, started : BOOLEAN, recv : BOOLEAN,
                      jbtype : {"off", "fixed", "adaptive"}]
    <3>1. PICK r \in BOOLEAN : strm' = [strm EXCEPT !.recv = r]
      BY <2>1
    <3> QED
      BY <3>1 DEF RxTypes
  <2>4. RxTypes'
    BY <2>1, <2>2, <2>3 DEF RxTypes, jbuf_flush
  <2> QED
    BY <2>1, <2>3, <2>4
       DEF CountedFromBase, Sourced, LossExact, Seq16, jbuf_flush
<1>5. CASE UNCHANGED rxVars
  <2>1. Packets' = Packets
    BY <1>5, PacketsStay DEF rxVars
  <2> QED
    BY <1>5, <2>1
       DEF rxVars, RxTypes, CountedFromBase, Sourced, LossExact, Seq16
<1> QED
  BY <1>1, <1>2, <1>3, <1>4, <1>5 DEF RxNext

LEMMA RxInvMeans ==
  ASSUME RxInv
  PROVE  RxTypeOK /\ LossExact /\ OneSource
<1>1. RxTypeOK
  BY DEF RxInv, RxTypes, RxTypeOK, Sourced
<1> QED
  BY <1>1 DEF RxInv, Sourced, OneSource

(* The types of the receiving side of a stream.                            *)
THEOREM StreamTypes == RxSpec => []RxTypeOK
BY RxInvMeans, RxInitInvariant, RxNextInvariant, PTL DEF RxSpec

(* The decoder is told the true number of lost packets.                    *)
THEOREM LossIsExact == RxSpec => []LossExact
BY RxInvMeans, RxInitInvariant, RxNextInvariant, PTL DEF RxSpec

(* The jitter buffer holds one source, unless a flush was skipped.         *)
THEOREM BufferHasOneSource == RxSpec => []OneSource
BY RxInvMeans, RxInitInvariant, RxNextInvariant, PTL DEF RxSpec
=============================================================================

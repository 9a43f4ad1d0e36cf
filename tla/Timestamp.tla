----------------------------- MODULE Timestamp -----------------------------
(***************************************************************************)
(* The time of received media: timestamp.c and its two users.  An RTP      *)
(* timestamp has 32 bits and wraps; the receiver counts the wraps to know  *)
(* how long it has received.  audio.c (stream_recv_handler()) and video.c  *)
(* (update_rtp_timestamp()) use the same helper and differ in what they do *)
(* with a frame from before the wrap.                                      *)
(***************************************************************************)
EXTENDS Integers

CONSTANTS
  Half,     \* 2^31 in the code: half the range of a timestamp
  MaxTime   \* bound: the sender stops here

ASSUME TimestampAssumption == Half \in Nat \ {0} /\ MaxTime \in Nat

VARIABLES
  media,    \* who receives: audio or video
  ts,       \* struct timestamp_recv; now: the time of the sender at `last'
  upset     \* an event after which the count is off was seen, see ExtendedTrue

tsVars == <<media, ts, upset>>

Range32 == 2 * Half

(* The time n of the sender, as it is in the header of a packet.           *)
Header(n) == n % Range32

Signed(x) == IF x < Half THEN x ELSE x - Range32

(* The difference of two int32_t overflows here.                           *)
Overflows(new, old) == new < old /\ Signed(new) - Signed(old) >= Half

(* Faulty: forward wraps are not noticed.                                  *)
timestamp_wrap_backwards_only(new, old) ==
  IF new >= old /\ Signed((old - new) % Range32) > 0 THEN {-1} ELSE {0}

(* 1: wrapped, -1: from before the wrap.  A signed overflow is undefined;  *)
(* the outcomes that compilers produce are those of wrapping arithmetic    *)
(* (0) and of comparing the operands instead of subtracting them (1).      *)
timestamp_wrap(new, old) ==
  IF Overflows(new, old) THEN {0, 1}
  ELSE IF new < old THEN IF Signed(new) - Signed(old) > 0 THEN {1} ELSE {0}
  ELSE IF Signed((old - new) % Range32) > 0 THEN {-1} ELSE {0}

timestamp_calc_extended(wraps, last) == wraps * Range32 + last

timestamp_duration ==
  timestamp_calc_extended(ts.wraps, ts.last) - ts.first

(* origin: the time of the sender at the first frame; drop: the last frame *)
(* was discarded.                                                          *)
timestamp_set(n) ==
  [set |-> TRUE, first |-> Header(n), last |-> Header(n), wraps |-> 0,
   origin |-> n, now |-> n, drop |-> FALSE]

(* Frames come late or early by less than half the range.  Bound: nothing  *)
(* is received once the count is ahead of every wrap the sender can make.  *)
Frames ==
  {n \in 0..MaxTime : ts.set => /\ n < ts.now + Half /\ ts.now < n + Half
                               /\ ts.wraps <= MaxTime \div Range32}

(* Faulty: a late frame is one that is not later than the first.           *)
stream_recv_handler_first(n) ==
  /\ \E w \in timestamp_wrap(Header(n), ts.last) :
       /\ ts' = [ts EXCEPT !.last = Header(n), !.now = n,
                   !.wraps = IF w = 1 THEN @ + 1 ELSE @,
                   !.drop = w = -1 \/ Header(n) <= ts.first]
       /\ upset' = (upset \/ w = -1
                          \/ (w = 1 /\ Overflows(Header(n), ts.last)))
  /\ UNCHANGED media

(* Audio: discards what is not later than the last frame, compared with    *)
(* the old number of wraps, and remembers the discarded frame as the last. *)
stream_recv_handler(n) ==
  /\ \E w \in timestamp_wrap(Header(n), ts.last) :
       /\ ts' = [ts EXCEPT !.last = Header(n), !.now = n,
                   !.wraps = IF w = 1 THEN @ + 1 ELSE @,
                   !.drop = w = -1 \/ Header(n) <= ts.last]
       /\ upset' = (upset \/ w = -1
                          \/ (w = 1 /\ Overflows(Header(n), ts.last)))
  /\ UNCHANGED media

(* Video: ignores the time of a frame from before the wrap.                *)
update_rtp_timestamp(n) ==
  /\ \E w \in timestamp_wrap(Header(n), ts.last) :
       /\ ts' = IF w = -1 THEN ts
                ELSE [ts EXCEPT !.last = Header(n), !.now = n,
                        !.wraps = IF w = 1 THEN @ + 1 ELSE @]
       /\ upset' = (upset \/ (w = 1 /\ Overflows(Header(n), ts.last)))
  /\ UNCHANGED media

FirstFrame(n) ==
  /\ ~ts.set
  /\ ts' = timestamp_set(n)
  /\ UNCHANGED <<media, upset>>

AudioFrame(n) == ts.set /\ media = "audio" /\ stream_recv_handler(n)
VideoFrame(n) == ts.set /\ media = "video" /\ update_rtp_timestamp(n)

TsInit ==
  /\ media \in {"audio", "video"}
  /\ ts = [set |-> FALSE, first |-> 0, last |-> 0, wraps |-> 0,
           origin |-> 0, now |-> 0, drop |-> FALSE]
  /\ upset = FALSE

TsNext == \E n \in Frames : FirstFrame(n) \/ AudioFrame(n) \/ VideoFrame(n)

TsSpec == TsInit /\ [][TsNext]_tsVars

-----------------------------------------------------------------------------
(* Properties.                                                             *)

TsTypeOK ==
  /\ media \in {"audio", "video"}
  /\ ts \in [set : BOOLEAN, first : 0..Range32-1, last : 0..Range32-1,
             wraps : Nat, origin : Nat, now : Nat, drop : BOOLEAN]
  /\ upset \in BOOLEAN

(* The duration is the time that passed at the sender between the first    *)
(* and the last frame, although only its low bits were received, in every  *)
(* order of frames, until audio has counted a frame from before a wrap as  *)
(* the last one or the difference overflowed to the wrong side.            *)
ExtendedTrue == ts.set /\ ~upset => timestamp_duration = ts.now - ts.origin

(* Audio discards late frames only, and the first one after a wrap.        *)
DiscardsLate ==
  [][ ts.set /\ ts'.drop /\ ts' # ts
        => ts'.now <= ts.now \/ ts'.now \div Range32 > ts.now \div Range32 ]_tsVars
=============================================================================

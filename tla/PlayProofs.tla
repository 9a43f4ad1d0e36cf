------------------------------ MODULE PlayProofs ------------------------------
(***************************************************************************)
(* Proofs about what is heard: the received audio and its device           *)
(* (AudioRx.tla), for any set of identifiers of threads, whether or not a  *)
(* thread may fail to be created; the player of tones and files            *)
(* (Play.tla), for any length and repeat count; and the stream that opens  *)
(* the device (StreamLife.tla), for any timeout.                           *)
(***************************************************************************)
EXTENDS AudioRx, Play, StreamLife, TLAPS

(***************************************************************************)
(* AudioRx.                                                                *)
(*                                                                         *)
(* TypeOK, with who holds the mutex, is inductive.  DecoderRuns rests on   *)
(* it: a decoding thread ends only if it finds the flag cleared, and when  *)
(* the flag is set again the device is on its way to create the next one.  *)
(* BufferOutlivesPlayer needs that the event loop has stopped the device   *)
(* when it comes to the buffer, and that nobody starts one meanwhile.      *)
(***************************************************************************)

(* When the event loop comes to the buffer, the device is stopped.         *)
PlayerStopped == main = "buffer" => dev = "none"

IInv == TypeOK /\ PlayerStopped /\ DecoderRuns

-----------------------------------------------------------------------------
LEMMA InitInvariant == Init => IInv
BY AudioRxAssumption
   DEF Init, IInv, TypeOK, PlayerStopped, DecoderRuns, MainPC, DevPC, ThreadPC

(* Every step keeps the types, and the mutex with who locked it.           *)
LEMMA TypeNext ==
  ASSUME TypeOK, [Next]_vars
  PROVE  TypeOK'
<1>1. CASE audio_start
  BY <1>1, AudioRxAssumption DEF TypeOK, MainPC, DevPC, ThreadPC, audio_start, start_player
<1>2. CASE audio_stop
  BY <1>2, AudioRxAssumption DEF TypeOK, MainPC, DevPC, ThreadPC, audio_stop
<1>3. CASE audio_decoder_set
  BY <1>3, AudioRxAssumption DEF TypeOK, MainPC, DevPC, ThreadPC, audio_decoder_set, PlayerEnds
<1>4. CASE audio_set_player
  BY <1>4, AudioRxAssumption DEF TypeOK, MainPC, DevPC, ThreadPC, audio_set_player, PlayerEnds
<1>5. CASE StopClear
  BY <1>5, AudioRxAssumption DEF TypeOK, MainPC, DevPC, ThreadPC, StopClear
<1>6. CASE StopJoin
  BY <1>6, AudioRxAssumption DEF TypeOK, MainPC, DevPC, ThreadPC, StopJoin
<1>7. CASE StopJoined
  BY <1>7, AudioRxAssumption DEF TypeOK, MainPC, DevPC, ThreadPC, StopJoined
<1>8. CASE StopDevice
  BY <1>8, AudioRxAssumption DEF TypeOK, MainPC, DevPC, ThreadPC, StopDevice, PlayerEnds
<1>9. CASE StopBuffer
  BY <1>9, AudioRxAssumption DEF TypeOK, MainPC, DevPC, ThreadPC, StopBuffer
<1>10. CASE WriteHandler
  BY <1>10, AudioRxAssumption DEF TypeOK, MainPC, DevPC, ThreadPC, WriteHandler
<1>11. CASE WriteLock
  BY <1>11, AudioRxAssumption DEF TypeOK, MainPC, DevPC, ThreadPC, WriteLock
<1>12. CASE WriteCheck
  BY <1>12, AudioRxAssumption DEF TypeOK, MainPC, DevPC, ThreadPC, WriteCheck
<1>13. CASE WriteCreate
  BY <1>13, AudioRxAssumption DEF TypeOK, MainPC, DevPC, ThreadPC, WriteCreate
<1>14. CASE WriteCreateFails
  BY <1>14, AudioRxAssumption DEF TypeOK, MainPC, DevPC, ThreadPC, WriteCreateFails
<1>15. CASE WriteSignal
  BY <1>15, AudioRxAssumption DEF TypeOK, MainPC, DevPC, ThreadPC, WriteSignal
<1>16. ASSUME NEW t \in Threads, ThreadTop(t)
      PROVE  TypeOK'
  BY <1>16, AudioRxAssumption DEF TypeOK, MainPC, DevPC, ThreadPC, ThreadTop, Goto
<1>17. ASSUME NEW t \in Threads, ThreadLock(t)
      PROVE  TypeOK'
  BY <1>17, AudioRxAssumption DEF TypeOK, MainPC, DevPC, ThreadPC, ThreadLock, Goto
<1>18. ASSUME NEW t \in Threads, ThreadWait(t)
      PROVE  TypeOK'
  BY <1>18, AudioRxAssumption DEF TypeOK, MainPC, DevPC, ThreadPC, ThreadWait, Goto
<1>19. ASSUME NEW t \in Threads, ThreadUnlock(t)
      PROVE  TypeOK'
  BY <1>19, AudioRxAssumption DEF TypeOK, MainPC, DevPC, ThreadPC, ThreadUnlock, Goto
<1>20. ASSUME NEW t \in Threads, ThreadCheck(t)
      PROVE  TypeOK'
  BY <1>20, AudioRxAssumption DEF TypeOK, MainPC, DevPC, ThreadPC, ThreadCheck, Goto
<1>21. ASSUME NEW t \in Threads, audio_decode(t)
      PROVE  TypeOK'
  BY <1>21, AudioRxAssumption DEF TypeOK, MainPC, DevPC, ThreadPC, audio_decode, Goto
<1>22. CASE UNCHANGED vars
  BY <1>22 DEF TypeOK, MainPC, DevPC, ThreadPC, vars
<1> QED
  BY <1>1, <1>2, <1>3, <1>4, <1>5, <1>6, <1>7, <1>8, <1>9,
     <1>10, <1>11, <1>12, <1>13, <1>14, <1>15, <1>16, <1>17, <1>18,
     <1>19, <1>20, <1>21, <1>22
     DEF Next, StopStep, auplay_write_handler2, rx_thread

(* From StopDevice to StopBuffer there is no device.                       *)
LEMMA PlayerNext ==
  ASSUME PlayerStopped, [Next]_vars
  PROVE  PlayerStopped'
<1>1. CASE audio_start
  BY <1>1 DEF PlayerStopped, audio_start, start_player
<1>2. CASE audio_stop
  BY <1>2 DEF PlayerStopped, audio_stop
<1>3. CASE audio_decoder_set
  BY <1>3 DEF PlayerStopped, audio_decoder_set, PlayerEnds
<1>4. CASE audio_set_player
  BY <1>4 DEF PlayerStopped, audio_set_player, PlayerEnds
<1>5. CASE StopClear
  BY <1>5 DEF PlayerStopped, StopClear
<1>6. CASE StopJoin
  BY <1>6 DEF PlayerStopped, StopJoin
<1>7. CASE StopJoined
  BY <1>7 DEF PlayerStopped, StopJoined
<1>8. CASE StopDevice
  BY <1>8 DEF PlayerStopped, StopDevice, PlayerEnds
<1>9. CASE StopBuffer
  BY <1>9 DEF PlayerStopped, StopBuffer
<1>10. CASE WriteHandler
  BY <1>10 DEF PlayerStopped, WriteHandler
<1>11. CASE WriteLock
  BY <1>11 DEF PlayerStopped, WriteLock
<1>12. CASE WriteCheck
  BY <1>12 DEF PlayerStopped, WriteCheck
<1>13. CASE WriteCreate
  BY <1>13 DEF PlayerStopped, WriteCreate
<1>14. CASE WriteCreateFails
  BY <1>14 DEF PlayerStopped, WriteCreateFails
<1>15. CASE WriteSignal
  BY <1>15 DEF PlayerStopped, WriteSignal
<1>16. ASSUME NEW t \in Threads, ThreadTop(t)
      PROVE  PlayerStopped'
  BY <1>16 DEF PlayerStopped, ThreadTop, Goto
<1>17. ASSUME NEW t \in Threads, ThreadLock(t)
      PROVE  PlayerStopped'
  BY <1>17 DEF PlayerStopped, ThreadLock, Goto
<1>18. ASSUME NEW t \in Threads, ThreadWait(t)
      PROVE  PlayerStopped'
  BY <1>18 DEF PlayerStopped, ThreadWait, Goto
<1>19. ASSUME NEW t \in Threads, ThreadUnlock(t)
      PROVE  PlayerStopped'
  BY <1>19 DEF PlayerStopped, ThreadUnlock, Goto
<1>20. ASSUME NEW t \in Threads, ThreadCheck(t)
      PROVE  PlayerStopped'
  BY <1>20 DEF PlayerStopped, ThreadCheck, Goto
<1>21. ASSUME NEW t \in Threads, audio_decode(t)
      PROVE  PlayerStopped'
  BY <1>21 DEF PlayerStopped, audio_decode, Goto
<1>22. CASE UNCHANGED vars
  BY <1>22 DEF PlayerStopped, vars
<1> QED
  BY <1>1, <1>2, <1>3, <1>4, <1>5, <1>6, <1>7, <1>8, <1>9,
     <1>10, <1>11, <1>12, <1>13, <1>14, <1>15, <1>16, <1>17, <1>18,
     <1>19, <1>20, <1>21, <1>22
     DEF Next, StopStep, auplay_write_handler2, rx_thread

(* The flag and the decoding thread.                                       *)
LEMMA DecoderNext ==
  ASSUME TypeOK, DecoderRuns, [Next]_vars
  PROVE  DecoderRuns'
<1>1. CASE audio_start
  BY <1>1 DEF DecoderRuns, TypeOK, audio_start, start_player
<1>2. CASE audio_stop
  BY <1>2 DEF DecoderRuns, TypeOK, audio_stop
<1>3. CASE audio_decoder_set
  BY <1>3 DEF DecoderRuns, TypeOK, audio_decoder_set, PlayerEnds
<1>4. CASE audio_set_player
  BY <1>4 DEF DecoderRuns, TypeOK, audio_set_player, PlayerEnds
<1>5. CASE StopClear
  BY <1>5 DEF DecoderRuns, TypeOK, StopClear
<1>6. CASE StopJoin
  BY <1>6 DEF DecoderRuns, TypeOK, StopJoin
<1>7. CASE StopJoined
  BY <1>7 DEF DecoderRuns, TypeOK, StopJoined
<1>8. CASE StopDevice
  BY <1>8 DEF DecoderRuns, TypeOK, StopDevice, PlayerEnds
<1>9. CASE StopBuffer
  BY <1>9 DEF DecoderRuns, TypeOK, StopBuffer
<1>10. CASE WriteHandler
  BY <1>10 DEF DecoderRuns, TypeOK, WriteHandler
<1>11. CASE WriteLock
  BY <1>11 DEF DecoderRuns, TypeOK, WriteLock
<1>12. CASE WriteCheck
  BY <1>12 DEF DecoderRuns, TypeOK, WriteCheck
<1>13. CASE WriteCreate
  BY <1>13 DEF DecoderRuns, TypeOK, WriteCreate
<1>14. CASE WriteCreateFails
  BY <1>14 DEF DecoderRuns, TypeOK, WriteCreateFails
<1>15. CASE WriteSignal
  BY <1>15 DEF DecoderRuns, TypeOK, WriteSignal
<1>16. ASSUME NEW t \in Threads, ThreadTop(t)
      PROVE  DecoderRuns'
  BY <1>16 DEF DecoderRuns, TypeOK, ThreadTop, Goto
<1>17. ASSUME NEW t \in Threads, ThreadLock(t)
      PROVE  DecoderRuns'
  BY <1>17 DEF DecoderRuns, TypeOK, ThreadLock, Goto
<1>18. ASSUME NEW t \in Threads, ThreadWait(t)
      PROVE  DecoderRuns'
  BY <1>18 DEF DecoderRuns, TypeOK, ThreadWait, Goto
<1>19. ASSUME NEW t \in Threads, ThreadUnlock(t)
      PROVE  DecoderRuns'
  BY <1>19 DEF DecoderRuns, TypeOK, ThreadUnlock, Goto
<1>20. ASSUME NEW t \in Threads, ThreadCheck(t)
      PROVE  DecoderRuns'
  BY <1>20 DEF DecoderRuns, TypeOK, ThreadCheck, Goto
<1>21. ASSUME NEW t \in Threads, audio_decode(t)
      PROVE  DecoderRuns'
  BY <1>21 DEF DecoderRuns, TypeOK, audio_decode, Goto
<1>22. CASE UNCHANGED vars
  BY <1>22 DEF DecoderRuns, TypeOK, vars
<1> QED
  BY <1>1, <1>2, <1>3, <1>4, <1>5, <1>6, <1>7, <1>8, <1>9,
     <1>10, <1>11, <1>12, <1>13, <1>14, <1>15, <1>16, <1>17, <1>18,
     <1>19, <1>20, <1>21, <1>22
     DEF Next, StopStep, auplay_write_handler2, rx_thread

LEMMA NextInvariant == IInv /\ [Next]_vars => IInv'
BY TypeNext, PlayerNext, DecoderNext DEF IInv

-----------------------------------------------------------------------------
(* Theorems.                                                               *)

THEOREM Invariant == Spec => []IInv
BY InitInvariant, NextInvariant, PTL DEF Spec

(* Every variable has its type, and a decoding thread has the mutex of     *)
(* struct aurx exactly between its lock and its unlock.                    *)
THEOREM TypeCorrect == Spec => []TypeOK
<1>1. IInv => TypeOK
  BY DEF IInv
<1> QED
  BY <1>1, Invariant, PTL

(* The flag thr.run is set only while the thread thr.tid is alive or the   *)
(* device is creating it.                                                  *)
THEOREM FlagMeansThread == Spec => []DecoderRuns
<1>1. IInv => DecoderRuns
  BY DEF IInv
<1> QED
  BY <1>1, Invariant, PTL

(* stop_rx() and the other ways to stop or change the player never free    *)
(* the sample buffer under a device.                                       *)
THEOREM BufferSafe == Spec => BufferOutlivesPlayer
<1> DEFINE Kept == aubuf /\ ~aubuf' => dev = "none"
<1>1. ASSUME IInv, [Next]_vars
      PROVE  [Kept]_vars
  <2> SUFFICES ASSUME aubuf, ~aubuf'
               PROVE  dev = "none"
    OBVIOUS
  <2>1. CASE audio_start
    BY <2>1 DEF audio_start, start_player
  <2>2. CASE audio_stop
    BY <2>2 DEF audio_stop
  <2>3. CASE audio_decoder_set
    BY <2>3 DEF audio_decoder_set, PlayerEnds
  <2>4. CASE audio_set_player
    BY <2>4 DEF audio_set_player, PlayerEnds
  <2>5. CASE StopClear
    BY <2>5 DEF StopClear
  <2>6. CASE StopJoin
    BY <2>6 DEF StopJoin
  <2>7. CASE StopJoined
    BY <2>7 DEF StopJoined
  <2>8. CASE StopDevice
    BY <2>8 DEF StopDevice, PlayerEnds
  <2>9. CASE StopBuffer
    BY <1>1, <2>9 DEF StopBuffer, IInv, PlayerStopped
  <2>10. CASE WriteHandler
    BY <2>10 DEF WriteHandler
  <2>11. CASE WriteLock
    BY <2>11 DEF WriteLock
  <2>12. CASE WriteCheck
    BY <2>12 DEF WriteCheck
  <2>13. CASE WriteCreate
    BY <2>13 DEF WriteCreate
  <2>14. CASE WriteCreateFails
    BY <2>14 DEF WriteCreateFails
  <2>15. CASE WriteSignal
    BY <2>15 DEF WriteSignal
  <2>16. ASSUME NEW t \in Threads, rx_thread(t)
        PROVE  dev = "none"
    BY <2>16 DEF rx_thread, ThreadTop, ThreadLock, ThreadWait, ThreadUnlock, ThreadCheck, audio_decode
  <2>17. CASE UNCHANGED vars
    BY <2>17 DEF vars
  <2> QED
    BY <1>1, <2>1, <2>2, <2>3, <2>4, <2>5, <2>6, <2>7, <2>8, <2>9,
       <2>10, <2>11, <2>12, <2>13, <2>14, <2>15, <2>16, <2>17
       DEF Next, StopStep, auplay_write_handler2
<1> QED
  BY <1>1, Invariant, PTL DEF Spec, BufferOutlivesPlayer

(***************************************************************************)
(* Play.                                                                   *)
(*                                                                         *)
(* What is still to be played and what was started add up (Counting), also *)
(* while a pause runs and in the middle of destructor(); a player that the *)
(* user did not stop is at its end only when nothing is left (Ending); and *)
(* a source that has come to its end was read (SourceRead).                *)
(***************************************************************************)


PlTypes ==
  /\ sound \in [type : {"tone", "source"}, repeat : Repeats]
  /\ play \in [repeat : Int, eof : BOOLEAN, trep : {"no", "later", "now"},
               pos : 0..SoundLen, tmr : {"off", "poll", "stop"},
               life : {"up", "release_src", "release_dev", "free"}]
  /\ psrc \in [on : BOOLEAN, left : 0..SoundLen]
  /\ pbuf \in Nat
  /\ pdev \in [at : {"none", "broken", "idle", "measured"}, left : Nat]
  /\ heard \in [started : Nat, complete : Nat, failed : Nat, stopped : BOOLEAN,
                orphan : BOOLEAN]

(* repeat counts down while the repetitions that were tried count up, those*)
(* whose source did not start too; they differ by one while a restart is   *)
(* pending, and at zero all that were started were read to their end, or   *)
(* the sound was stopped.                                                  *)
Tried == heard.started + heard.failed

Counting ==
  Wanted > 0 =>
    /\ play.repeat >= 0
    /\ play.trep = "no" /\ play.repeat > 0 => Tried = Wanted - play.repeat + 1
    /\ play.trep # "no" => play.repeat > 0 /\ Tried = Wanted - play.repeat
    /\ play.repeat = 0 =>
         Tried = Wanted /\ (heard.stopped \/ heard.complete = heard.started)

(* A sound is at its end when it was played often enough or stopped, and   *)
(* only then the timer stops it and destructor() runs.                     *)
Ending ==
  /\ Wanted > 0 /\ play.eof /\ ~heard.stopped => play.repeat = 0
  /\ play.tmr = "stop" => play.eof
  /\ play.life # "up" => play.eof /\ play.tmr = "off"

(* Only a source is measured, and one that is off has been read.           *)
SourceRead ==
  /\ sound.type = "tone" => pdev.at # "measured"
  /\ sound.type = "source" /\ ~psrc.on /\ play.life = "up" => psrc.left = 0

(* What destructor() has released at each of its steps.                    *)
Freeing ==
  /\ play.life = "free" => pdev.at = "none"
  /\ play.life \in {"release_dev", "free"} /\ psrc.on => heard.orphan

PlInv == PlTypes /\ Counting /\ Ending /\ SourceRead /\ Freeing

LEMMA PlInitInv == PlInit => PlInv
<1> SUFFICES ASSUME PlInit PROVE PlInv
  OBVIOUS
<1>1. sound.repeat \in Int /\ SoundLen \in Nat
  BY PlayAssumption DEF PlInit
<1>2. PlTypes
  BY <1>1 DEF PlInit, PlTypes, start_ausrc, start_auplay
<1>3. Counting /\ Ending /\ SourceRead /\ Freeing
  BY <1>1 DEF PlInit, Counting, Tried, Ending, SourceRead, Freeing, Wanted,
              start_ausrc, start_auplay
<1> QED
  BY <1>2, <1>3 DEF PlInv

(* The end of the sound: one repetition less is left, or it is over.       *)
LEMMA AtEndFacts ==
  ASSUME PlTypes, play.trep = "no"
  PROVE  /\ AtEnd(play) \in
              [repeat : Int, eof : BOOLEAN, trep : {"no", "later"},
               pos : {play.pos}, tmr : {play.tmr}, life : {play.life}]
         /\ AtEnd(play).repeat = IF play.repeat > 0 THEN play.repeat - 1
                                 ELSE play.repeat
         /\ AtEnd(play).repeat = 0 => AtEnd(play).eof /\ AtEnd(play).trep = "no"
         /\ AtEnd(play).repeat # 0 =>
              AtEnd(play).eof = play.eof /\ AtEnd(play).trep = "later"
<1> DEFINE r == IF play.repeat > 0 THEN play.repeat - 1 ELSE play.repeat
<1>1. r \in Int /\ r = IF play.repeat > 0 THEN play.repeat - 1 ELSE play.repeat
  BY DEF PlTypes
<1>2. AtEnd(play) = IF r = 0 THEN [play EXCEPT !.repeat = r, !.eof = TRUE]
                    ELSE [play EXCEPT !.repeat = r, !.trep = "later"]
  BY DEF AtEnd
<1> HIDE DEF r
<1>3. CASE r = 0
  BY <1>1, <1>2, <1>3 DEF PlTypes, r
<1>4. CASE r # 0
  <2>1. AtEnd(play) = [play EXCEPT !.repeat = r, !.trep = "later"]
    BY <1>2, <1>4
  <2>2. AtEnd(play) \in
          [repeat : {r}, eof : {play.eof}, trep : {"later"},
           pos : {play.pos}, tmr : {play.tmr}, life : {play.life}]
    BY <1>1, <2>1 DEF PlTypes
  <2> QED
    BY <1>1, <1>4, <2>2 DEF PlTypes
<1> QED
  BY <1>3, <1>4

(* The end that a thread notices keeps the count.                          *)
LEMMA EndCounts ==
  ASSUME PlInv, play.trep = "no", NEW pos \in 0..SoundLen,
         play' = [AtEnd(play) EXCEPT !.pos = pos],
         sound' = sound, psrc' = psrc,
         \/ heard' = [heard EXCEPT !.complete = heard.started]
         \/ heard' = heard /\ psrc.left > 0 /\ sound.type = "source" /\ ~psrc.on,
         pbuf' \in Nat,
         pdev' \in [at : {"none", "broken", "idle", "measured"}, left : Nat],
         pdev'.at = "measured" => pdev.at = "measured",
         pdev.at # "none"
  PROVE  PlInv'
<1> DEFINE a == AtEnd(play)
<1>1. /\ a \in [repeat : Int, eof : BOOLEAN, trep : {"no", "later"},
                pos : {play.pos}, tmr : {play.tmr}, life : {play.life}]
      /\ a.repeat = IF play.repeat > 0 THEN play.repeat - 1 ELSE play.repeat
      /\ a.repeat = 0 => a.eof /\ a.trep = "no"
      /\ a.repeat # 0 => a.eof = play.eof /\ a.trep = "later"
  BY AtEndFacts DEF PlInv
<1>2. play' = [a EXCEPT !.pos = pos]
  OBVIOUS
<1> HIDE DEF a
<1>3. play' \in [repeat : {a.repeat}, eof : {a.eof}, trep : {a.trep},
                 pos : {pos}, tmr : {play.tmr}, life : {play.life}]
  BY <1>1, <1>2
<1>4. /\ play'.repeat = a.repeat /\ play'.eof = a.eof /\ play'.trep = a.trep
      /\ play'.tmr = play.tmr /\ play'.life = play.life
  BY <1>3
<1>5. /\ heard.started \in Nat /\ heard.complete \in Nat /\ heard.failed \in Nat
      /\ heard.stopped \in BOOLEAN /\ Tried \in Nat
  BY DEF PlInv, PlTypes, Tried
<1>6. /\ heard' \in [started : {heard.started},
                     complete : {heard.started, heard.complete},
                     failed : {heard.failed},
                     stopped : {heard.stopped}, orphan : {heard.orphan}]
      /\ \/ heard'.complete = heard.started
         \/ heard' = heard /\ psrc.left > 0 /\ sound.type = "source" /\ ~psrc.on
  BY DEF PlInv, PlTypes
<1>7. /\ heard'.started = heard.started /\ heard'.stopped = heard.stopped
      /\ heard'.orphan = heard.orphan /\ Tried' = Tried
  BY <1>6 DEF Tried
<1>8. PlTypes'
  BY <1>1, <1>3, <1>6 DEF PlInv, PlTypes
<1>9. Counting'
  <2> SUFFICES ASSUME Wanted > 0
               PROVE  /\ a.repeat >= 0
                      /\ a.trep = "no" /\ a.repeat > 0
                           => Tried = Wanted - a.repeat + 1
                      /\ a.trep # "no" =>
                           a.repeat > 0 /\ Tried = Wanted - a.repeat
                      /\ a.repeat = 0 =>
                           /\ Tried = Wanted
                           /\ heard.stopped \/ heard'.complete = heard.started
    BY <1>4, <1>7 DEF Counting, Wanted
  <2>1. play.repeat \in Int /\ Wanted \in Int /\ play.repeat >= 0
    BY PlayAssumption DEF PlInv, PlTypes, Counting, Wanted
  <2>2. Tried = IF play.repeat > 0 THEN Wanted - play.repeat + 1 ELSE Wanted
    BY <2>1 DEF PlInv, Counting
  <2>3. CASE play.repeat = 0
    <3>1. heard.stopped \/ heard'.complete = heard.started
      BY <1>6, <2>2, <2>3, <2>1 DEF PlInv, Counting
    <3> QED
      BY <1>1, <2>1, <2>2, <2>3, <3>1
  <2>4. CASE play.repeat > 0
    <3>1. a.repeat = play.repeat - 1 /\ Tried = Wanted - a.repeat
      BY <1>1, <1>5, <2>1, <2>2, <2>4
    <3>2. heard.stopped \/ heard'.complete = heard.started
      BY <1>5, <1>6, <2>4 DEF PlInv, Ending, SourceRead
    <3> QED
      BY <1>1, <1>5, <2>1, <2>4, <3>1, <3>2
  <2> QED
    BY <2>1, <2>3, <2>4
<1>10. Ending'
  <2>1. play.eof => a.eof
    BY <1>1
  <2>2. Wanted > 0 /\ ~heard.stopped /\ a.eof => a.repeat = 0
    <3>1. SUFFICES ASSUME Wanted > 0, ~heard.stopped, a.eof, a.repeat # 0
                   PROVE  FALSE
      OBVIOUS
    <3>2. play.eof
      BY <1>1, <3>1
    <3>3. play.repeat = 0
      BY <3>1, <3>2 DEF PlInv, Ending
    <3> QED
      BY <1>1, <3>1, <3>3
  <2> QED
    BY <1>4, <1>7, <2>1, <2>2 DEF PlInv, Ending, Wanted
<1>11. SourceRead' /\ Freeing'
  BY <1>4, <1>7 DEF PlInv, SourceRead, Freeing
<1> QED
  BY <1>8, <1>9, <1>10, <1>11 DEF PlInv

(* A new repetition, with its source or without it.                        *)
LEMMA StartCounts ==
  ASSUME PlInv, play.trep = "now",
         NEW pos \in 0..SoundLen, NEW orphan \in BOOLEAN,
         play' = [play EXCEPT !.trep = "no", !.pos = pos],
         \/ heard' = [heard EXCEPT !.started = @ + 1, !.orphan = orphan]
         \/ heard' = [heard EXCEPT !.failed = @ + 1] /\ orphan = heard.orphan,
         sound' = sound
  PROVE  /\ play' \in [repeat : {play.repeat}, eof : {play.eof}, trep : {"no"},
                       pos : {pos}, tmr : {play.tmr}, life : {play.life}]
         /\ heard' \in [started : Nat, complete : Nat, failed : Nat,
                        stopped : {heard.stopped}, orphan : {orphan}]
         /\ Counting' /\ Ending'
<1>1. play' \in [repeat : {play.repeat}, eof : {play.eof}, trep : {"no"},
                 pos : {pos}, tmr : {play.tmr}, life : {play.life}]
  BY DEF PlInv, PlTypes
<1>2. \/ heard' \in [started : {heard.started + 1}, complete : {heard.complete},
                     failed : {heard.failed}, stopped : {heard.stopped},
                     orphan : {orphan}]
      \/ heard' \in [started : {heard.started}, complete : {heard.complete},
                     failed : {heard.failed + 1}, stopped : {heard.stopped},
                     orphan : {orphan}]
  BY DEF PlInv, PlTypes
<1>3. /\ heard.started \in Nat /\ heard.complete \in Nat /\ heard.failed \in Nat
      /\ play.repeat \in Int
  BY DEF PlInv, PlTypes
<1>4. Wanted' = Wanted /\ Wanted \in Int
  BY PlayAssumption DEF Wanted, PlInv, PlTypes
<1>5. Counting'
  BY <1>1, <1>2, <1>3, <1>4 DEF PlInv, Counting, Tried
<1>6. Ending'
  BY <1>1, <1>2, <1>4 DEF PlInv, Ending
<1> QED
  BY <1>1, <1>2, <1>3, <1>5, <1>6

LEMMA WriteHandlerInv ==
  ASSUME PlInv, write_handler
  PROVE  PlInv'
<1>1. CASE play.pos + Period <= SoundLen
  <2>1. play' = [play EXCEPT !.pos = @ + Period] /\ heard' = heard
    BY <1>1 DEF write_handler
  <2>2. play.pos + Period \in 0..SoundLen
    BY <1>1, PlayAssumption DEF PlInv, PlTypes
  <2>3. play' \in [repeat : {play.repeat}, eof : {play.eof}, trep : {play.trep},
                   pos : {play.pos + Period}, tmr : {play.tmr}, life : {play.life}]
    BY <2>1 DEF PlInv, PlTypes
  <2> QED
    BY <2>1, <2>2, <2>3
       DEF write_handler, PlInv, PlTypes, Counting, Tried, Ending, SourceRead, Freeing, Wanted
<1>2. CASE ~(play.pos + Period <= SoundLen)
  <2>1. SoundLen \in 0..SoundLen /\ Period \in 0..SoundLen
    BY PlayAssumption
  <2>2. /\ sound' = sound /\ psrc' = psrc /\ pbuf' = pbuf /\ pdev' = pdev
        /\ sound.type = "tone" /\ pdev.at = "idle"
    BY DEF write_handler
  <2>3. CASE play.trep = "no"
    <3>1. /\ play' = [AtEnd(play) EXCEPT !.pos = SoundLen]
          /\ heard' = [heard EXCEPT !.complete = heard.started]
      BY <1>2, <2>3 DEF write_handler, check_restart, Restarted
    <3>2. /\ pbuf' \in Nat
          /\ pdev' \in [at : {"none", "broken", "idle", "measured"}, left : Nat]
      BY <2>2 DEF PlInv, PlTypes
    <3> QED
      BY <2>1, <2>2, <2>3, <3>1, <3>2, EndCounts
  <2>4. CASE play.trep = "now"
    <3>1. /\ play' = [play EXCEPT !.trep = "no", !.pos = Period]
          /\ heard' = [heard EXCEPT !.started = @ + 1]
      BY <1>2, <2>4 DEF write_handler, check_restart, Restarted
    <3>2. heard' = [heard EXCEPT !.started = @ + 1, !.orphan = heard.orphan]
      BY <3>1 DEF PlInv, PlTypes
    <3>3. heard.orphan \in BOOLEAN
      BY DEF PlInv, PlTypes
    <3>4. /\ play' \in [repeat : {play.repeat}, eof : {play.eof}, trep : {"no"},
                        pos : {Period}, tmr : {play.tmr}, life : {play.life}]
          /\ heard' \in [started : Nat, complete : Nat, failed : Nat,
                         stopped : {heard.stopped}, orphan : {heard.orphan}]
          /\ Counting' /\ Ending'
      BY <2>1, <2>2, <2>4, <3>1, <3>2, <3>3, StartCounts
    <3> QED
      BY <2>1, <2>2, <3>4 DEF PlInv, PlTypes, SourceRead, Freeing
  <2>5. CASE play.trep = "later"
    <3>1. /\ play' = [play EXCEPT !.pos = SoundLen]
          /\ heard' = [heard EXCEPT !.complete = heard.started]
      BY <1>2, <2>5 DEF write_handler, check_restart, Restarted
    <3>2. play' \in [repeat : {play.repeat}, eof : {play.eof}, trep : {"later"},
                     pos : {SoundLen}, tmr : {play.tmr}, life : {play.life}]
      BY <2>5, <3>1 DEF PlInv, PlTypes
    <3>3. heard' \in [started : {heard.started}, complete : {heard.started},
                      failed : {heard.failed}, stopped : {heard.stopped}, orphan : {heard.orphan}]
      BY <3>1 DEF PlInv, PlTypes
    <3>4. Wanted' = Wanted /\ play.repeat \in Int
      BY <2>2 DEF Wanted, PlInv, PlTypes
    <3>5. Counting'
      BY <2>5, <3>2, <3>3, <3>4 DEF PlInv, Counting, Tried
    <3> QED
      BY <2>1, <2>2, <2>5, <3>2, <3>3, <3>4, <3>5
         DEF PlInv, PlTypes, Ending, SourceRead, Freeing
  <2> QED
    BY <2>3, <2>4, <2>5 DEF PlInv, PlTypes
<1> QED
  BY <1>1, <1>2

LEMMA HandleInv ==
  ASSUME PlInv, Handle
  PROVE  PlInv'
<1>1. /\ sound' = sound /\ pbuf' = pbuf /\ pbuf \in Nat
      /\ pdev.at = "measured" /\ sound.type = "source"
      /\ pdev' \in [at : {"idle"}, left : {0}] /\ pdev'.at = "idle"
  BY DEF Handle, PlInv, PlTypes, SourceRead
<1>2. play.life # "free" /\ play.pos \in 0..SoundLen
  BY <1>1 DEF PlInv, PlTypes, Freeing
<1>3. CASE aubuf_write_handler(play)
  <2>1. play.trep = "no" /\ ~psrc.on /\ psrc' = psrc
    BY <1>3 DEF Handle, aubuf_write_handler
  <2>2. play' = AtEnd(play)
    BY <1>3, <2>1 DEF Handle, check_restart
  <2>3. AtEnd(play) \in [repeat : Int, eof : BOOLEAN, trep : {"no", "later"},
               pos : {play.pos}, tmr : {play.tmr}, life : {play.life}]
    BY <2>1, AtEndFacts DEF PlInv
  <2>4. play' = [AtEnd(play) EXCEPT !.pos = play.pos]
    BY <2>2, <2>3
  <2>5. \/ heard' = [heard EXCEPT !.complete = heard.started]
        \/ heard' = heard /\ psrc.left > 0 /\ sound.type = "source" /\ ~psrc.on
    BY <1>1, <1>3, <2>1 DEF Handle
  <2>6. pdev' \in [at : {"none", "broken", "idle", "measured"}, left : Nat]
    BY <1>1
  <2> QED
    BY <1>1, <1>2, <2>1, <2>4, <2>5, <2>6, EndCounts
<1>4. CASE ~aubuf_write_handler(play) /\ Restarted(play)
           /\ heard' = [heard EXCEPT !.started = @ + 1, !.orphan = play.life # "up"]
           /\ psrc' = start_ausrc
  <2> DEFINE b == play.life # "up"
  <2>1. /\ play.trep = "now" /\ play' = [play EXCEPT !.trep = "no"]
        /\ heard' = [heard EXCEPT !.started = @ + 1, !.orphan = b]
        /\ psrc' = [on |-> TRUE, left |-> SoundLen]
    BY <1>4 DEF Handle, Restarted, check_restart, start_ausrc
  <2>2. play' = [play EXCEPT !.trep = "no", !.pos = play.pos] /\ b \in BOOLEAN
    BY <2>1 DEF PlInv, PlTypes
  <2> HIDE DEF b
  <2>3. /\ play' \in [repeat : {play.repeat}, eof : {play.eof}, trep : {"no"},
                      pos : {play.pos}, tmr : {play.tmr}, life : {play.life}]
        /\ heard' \in [started : Nat, complete : Nat, failed : Nat,
                       stopped : {heard.stopped}, orphan : {b}]
        /\ Counting' /\ Ending'
    BY <1>1, <1>2, <2>1, <2>2, StartCounts
  <2>4. psrc' \in [on : BOOLEAN, left : 0..SoundLen] /\ psrc'.on = TRUE
    BY <2>1, PlayAssumption
  <2>5. PlTypes'
    BY <1>1, <2>2, <2>3, <2>4 DEF PlInv, PlTypes
  <2>6. SourceRead' /\ Freeing'
    BY <1>1, <1>2, <2>3, <2>4 DEF SourceRead, Freeing, b
  <2> QED
    BY <2>3, <2>5, <2>6 DEF PlInv
<1>5. CASE ~aubuf_write_handler(play) /\ Restarted(play)
           /\ heard' = [heard EXCEPT !.failed = @ + 1] /\ psrc' = psrc
  <2>1. play.trep = "now" /\ play' = [play EXCEPT !.trep = "no"]
    BY <1>5 DEF Handle, Restarted, check_restart
  <2>2. play' = [play EXCEPT !.trep = "no", !.pos = play.pos] /\ heard.orphan \in BOOLEAN
    BY <2>1 DEF PlInv, PlTypes
  <2>3. /\ play' \in [repeat : {play.repeat}, eof : {play.eof}, trep : {"no"},
                      pos : {play.pos}, tmr : {play.tmr}, life : {play.life}]
        /\ heard' \in [started : Nat, complete : Nat, failed : Nat,
                       stopped : {heard.stopped}, orphan : {heard.orphan}]
        /\ Counting' /\ Ending'
    BY <1>1, <1>2, <1>5, <2>1, <2>2, StartCounts
  <2>4. PlTypes'
    BY <1>1, <1>2, <1>5, <2>3 DEF PlInv, PlTypes
  <2>5. SourceRead' /\ Freeing'
    BY <1>1, <1>2, <1>5, <2>3 DEF PlInv, SourceRead, Freeing
  <2> QED
    BY <2>3, <2>4, <2>5 DEF PlInv
<1>6. CASE ~aubuf_write_handler(play) /\ ~Restarted(play)
  <2>1. play' = play /\ psrc' = psrc /\ heard' = heard
    BY <1>6 DEF Handle
  <2> QED
    BY <1>1, <1>2, <2>1
       DEF PlInv, PlTypes, Counting, Tried, Ending, SourceRead, Freeing, Wanted
<1> QED
  BY <1>3, <1>4, <1>5, <1>6 DEF Handle, RestartSource

LEMMA PlNextInv ==
  ASSUME PlInv, [PlNext]_plVars
  PROVE  PlInv'
<1> USE DEF PlInv, PlTypes, Counting, Tried, Ending, SourceRead, Freeing, Wanted
<1>1. CASE Measure
  <2>1. sound' = sound /\ play' = play /\ psrc' = psrc /\ heard' = heard
    BY <1>1 DEF Measure
  <2>2. PICK n \in {0, IF pbuf < Period THEN pbuf ELSE Period} : pbuf' = pbuf - n
    BY <1>1 DEF Measure
  <2>3. pbuf' \in Nat
    BY <2>2, PlayAssumption
  <2>4. pdev' \in [at : {"measured"}, left : Nat]
    BY <1>1 DEF Measure
  <2> QED
    BY <1>1, <2>1, <2>3, <2>4 DEF Measure
<1>2. CASE ausrc_read_handler
  <2>1. psrc.left - 1 \in 0..SoundLen /\ psrc.on
    BY <1>2, PlayAssumption DEF ausrc_read_handler
  <2>2. psrc' \in [on : {psrc.on}, left : {psrc.left - 1}]
    BY <1>2 DEF ausrc_read_handler
  <2>3. pbuf' \in Nat
    BY <1>2 DEF ausrc_read_handler
  <2> QED
    BY <1>2, <2>1, <2>2, <2>3 DEF ausrc_read_handler
<1>3. CASE ausrc_error_handler
  <2>1. psrc' \in [on : {FALSE}, left : {0}]
    BY <1>3 DEF ausrc_error_handler
  <2> QED
    BY <1>3, <2>1, PlayAssumption DEF ausrc_error_handler
<1>4. CASE tmr_polling
  <2>1. CASE play.eof /\ play.repeat = 0 /\ play' = [play EXCEPT !.tmr = "stop"]
                /\ pdev' = pdev
    <3>1. play' \in [repeat : {play.repeat}, eof : {play.eof}, trep : {play.trep},
                     pos : {play.pos}, tmr : {"stop"}, life : {play.life}]
      BY <2>1
    <3> QED
      BY <1>4, <2>1, <3>1 DEF tmr_polling
  <2>2. CASE pdev.at = "none" /\ pdev' = start_auplay /\ play' = play
    <3>1. pdev' \in [at : {"idle"}, left : {0}]
      BY <2>2 DEF start_auplay
    <3> QED
      BY <1>4, <2>2, <3>1 DEF tmr_polling
  <2> QED
    BY <1>4, <2>1, <2>2 DEF tmr_polling
<1>5. ASSUME Release,
             \/ play.tmr = "stop" /\ heard' = heard
             \/ play.life = "up" /\ heard' = [heard EXCEPT !.stopped = TRUE]
      PROVE  PlInv'
  <2>1. play' \in [repeat : {play.repeat}, eof : {TRUE}, trep : {play.trep},
                   pos : {play.pos}, tmr : {"off"}, life : {"release_src"}]
    BY <1>5 DEF Release
  <2>2. /\ heard' \in [started : {heard.started}, complete : {heard.complete},
                       failed : {heard.failed}, stopped : BOOLEAN, orphan : {heard.orphan}]
        /\ heard'.stopped \/ (heard' = heard /\ play.tmr = "stop")
        /\ heard.stopped => heard'.stopped
    BY <1>5
  <2>3. play.tmr = "stop" => play.eof
    OBVIOUS
  <2>4. sound' = sound /\ psrc' = psrc /\ pbuf' = pbuf /\ pdev' = pdev
    BY <1>5 DEF Release
  <2>5. PlTypes'
    BY <2>1, <2>2, <2>4
  <2>6. Counting'
    BY <2>1, <2>2, <2>4
  <2>7. Ending'
    BY <2>1, <2>2, <2>3, <2>4
  <2>8. SourceRead' /\ Freeing'
    BY <2>1, <2>4
  <2> QED
    BY <2>5, <2>6, <2>7, <2>8
<1>6. CASE ReleaseSource
  <2>1. play' \in [repeat : {play.repeat}, eof : {play.eof}, trep : {play.trep},
                   pos : {play.pos}, tmr : {play.tmr}, life : {"release_dev"}]
    BY <1>6 DEF ReleaseSource
  <2>2. psrc' \in [on : {FALSE}, left : {psrc.left}]
    BY <1>6 DEF ReleaseSource
  <2> QED
    BY <1>6, <2>1, <2>2 DEF ReleaseSource
<1>7. CASE ReleaseDevice
  <2>1. play' \in [repeat : {play.repeat}, eof : {play.eof}, trep : {play.trep},
                   pos : {play.pos}, tmr : {play.tmr}, life : {"free"}]
    BY <1>7 DEF ReleaseDevice
  <2>2. pdev' \in [at : {"none"}, left : {0}]
    BY <1>7 DEF ReleaseDevice
  <2> QED
    BY <1>7, <2>1, <2>2 DEF ReleaseDevice
<1>8. CASE DelayOver
  <2>1. play' \in [repeat : {play.repeat}, eof : {play.eof}, trep : {"now"},
                   pos : {play.pos}, tmr : {play.tmr}, life : {play.life}]
    BY <1>8 DEF DelayOver
  <2> QED
    BY <1>8, <2>1 DEF DelayOver
<1>9. CASE UNCHANGED plVars
  BY <1>9 DEF plVars
<1>10. CASE DeviceChanges
  <2>1. PICK to \in {"none", "broken"} : pdev' = [pdev EXCEPT !.at = to]
    BY <1>10 DEF DeviceChanges
  <2>2. pdev' \in [at : {to}, left : {pdev.left}]
    BY <2>1
  <2> QED
    BY <1>10, <2>1, <2>2 DEF DeviceChanges
<1> QED
  BY <1>1, <1>2, <1>3, <1>4, <1>5, <1>6, <1>7, <1>8, <1>9, <1>10, WriteHandlerInv, HandleInv
     DEF PlNext, Device, EventLoop, tmr_stop, Stop

LEMMA PlInvMeans ==
  ASSUME PlInv
  PROVE  PlTypeOK /\ PlayedAsOften /\ FreedLast
<1>1. PlTypeOK /\ FreedLast
  BY DEF PlInv, PlTypes, PlTypeOK, Freeing, FreedLast
<1>2. PlayedAsOften
  <2> SUFFICES ASSUME Wanted > 0 PROVE PlayedAsOften
    BY DEF PlayedAsOften
  <2>1. /\ Tried \in Nat /\ play.repeat \in Int
        /\ play.trep \in {"no", "later", "now"}
    BY DEF PlInv, PlTypes, Tried
  <2>2. Wanted \in Int
    <3>1. sound.repeat \in Repeats
      BY DEF PlInv, PlTypes
    <3>2. sound.repeat \in Int
      BY <3>1, PlayAssumption
    <3> QED
      BY <3>2 DEF Wanted
  <2>3. Tried <= Wanted
    BY <2>1, <2>2 DEF PlInv, Counting
  <2>4. play.eof /\ ~heard.stopped
          => Tried = Wanted /\ heard.complete = heard.started
    BY DEF PlInv, Counting, Ending
  <2> QED
    BY <2>3, <2>4 DEF PlayedAsOften, Tried
<1> QED
  BY <1>1, <1>2

(* Every variable of the player keeps its type, a sound never runs past    *)
(* its end nor a buffer below empty (play.c).                              *)
THEOREM PlayTypes == PlSpec => []PlTypeOK
BY PlInvMeans, PlInitInv, PlNextInv, PTL DEF PlSpec

(* A sound is never started more often than it was asked for, and one that *)
(* ends by itself has used up its repetitions: each was started and read   *)
(* to its end, or was skipped because its source did not start; whichever  *)
(* thread notices its end and the end of the pause (check_restart(),       *)
(* aubuf_write_handler() and write_handler() of play.c).                   *)
THEOREM SoundCounted == PlSpec => []PlayedAsOften
BY PlInvMeans, PlInitInv, PlNextInv, PTL DEF PlSpec

(* When the player is freed its device is gone, and its source too unless  *)
(* the device started it again in the middle of destructor() (play.c).     *)
THEOREM PlayerFreedLast == PlSpec => []FreedLast
BY PlInvMeans, PlInitInv, PlNextInv, PTL DEF PlSpec

(***************************************************************************)
(* StreamLife.                                                             *)
(***************************************************************************)

TimerTypes ==
  /\ tmo \in [tmr : BOOLEAN, due : BOOLEAN, age : Int, err : {0, 1}]
  /\ ~InCall => ~tmo.tmr /\ ~tmo.due

(* Encryption starts when there is a path, and RTCP when there is all.     *)
Linked ==
  /\ link.dtls # "idle" => kind.menc = "dtls" /\ link.raddr /\ mnat_ready(link)
  /\ link.secure /\ kind.menc = "sdes" => link.raddr /\ mnat_ready(link)
  /\ stream_is_ready(link) => stage.rtcp

SlInv == SlTypeOK /\ TimerTypes /\ Linked /\ AudioMeansReady

LinkType == [raddr : BOOLEAN, connected : BOOLEAN, secure : BOOLEAN, failed : BOOLEAN,
             dtls : {"idle", "waiting", "running", "nokeys", "done"}, mute : BOOLEAN]
StageType == [rtcp : BOOLEAN, audio : BOOLEAN, call : {"setup", "estab", "closed"}]

LEMMA SlInitInvariant == SlInit => SlInv
BY StreamLifeAssumption
   DEF SlInit, SlInv, SlTypeOK, TimerTypes, Linked, AudioMeansReady, InCall, Unheard,
       stream_is_ready, mnat_ready

(* Starting encryption on a link whose path is known.                      *)
LEMMA MediaencKeeps ==
  ASSUME NEW l \in LinkType, NEW good \in BOOLEAN,
         kind \in [mnat : {"none", "ice"}, menc : {"none", "sdes", "dtls"}],
         l.dtls # "idle" => kind.menc = "dtls" /\ l.raddr /\ mnat_ready(l),
         mnat_ready(l)
  PROVE  LET m == MediaencStarted(l, good) IN
         /\ m \in LinkType
         /\ m.raddr = l.raddr /\ m.connected = l.connected
         /\ m.dtls # "idle" => kind.menc = "dtls" /\ m.raddr
         /\ l.secure => m.secure
         /\ kind.menc # "sdes" => m.secure = l.secure
<1> DEFINE m == MediaencStarted(l, good)
<1>1. CASE m = l
  BY <1>1
<1>2. CASE l.raddr /\ kind.menc = "sdes"
  <2>1. PICK s \in BOOLEAN : m = [l EXCEPT !.secure = s] /\ s = (l.secure \/ good)
    BY <1>2 DEF MediaencStarted, LinkType
  <2> HIDE DEF m
  <2>2. m \in LinkType /\ m.raddr = l.raddr /\ m.connected = l.connected
        /\ m.dtls = l.dtls /\ m.secure = s
    BY <2>1 DEF LinkType
  <2> QED
    BY <1>2, <2>1, <2>2 DEF m
<1>3. CASE l.raddr /\ kind.menc = "dtls" /\ l.dtls \in {"idle", "waiting"}
  <2>1. PICK d \in {"running", "waiting"} : m = [l EXCEPT !.dtls = d]
    BY <1>3 DEF MediaencStarted
  <2> HIDE DEF m
  <2>2. m \in LinkType /\ m.raddr = l.raddr /\ m.connected = l.connected
        /\ m.secure = l.secure
    BY <2>1 DEF LinkType
  <2> QED
    BY <1>3, <2>2 DEF m
<1> QED
  BY <1>1, <1>2, <1>3 DEF MediaencStarted, LinkType

LEMMA SlNextInvariant ==
  ASSUME SlInv, [SlNext]_slVars
  PROVE  SlInv'
<1> USE StreamLifeAssumption DEF SlInv
<1> SUFFICES ASSUME SlNext \/ UNCHANGED slVars
             PROVE  SlInv'
  OBVIOUS
<1>1. /\ link \in LinkType /\ stage \in StageType
      /\ kind \in [mnat : {"none", "ice"}, menc : {"none", "sdes", "dtls"}]
      /\ dir \in [hold : BOOLEAN, peer : BOOLEAN]
  BY DEF SlTypeOK, LinkType, StageType
(* A step of the link: it only gains, and what it gains is started.        *)
<1>2. ASSUME NEW m \in LinkType, link' = m, NEW audio \in BOOLEAN,
             UNCHANGED <<kind, tmo>>, dir' \in [hold : BOOLEAN, peer : BOOLEAN],
             NEW l \in LinkType, Started(l, audio),
             link.raddr => m.raddr, link.connected => m.connected,
             link.secure => m.secure,
             stream_is_ready(m) => stream_is_ready(l) \/ audio,
             audio => stream_is_ready(m),
             m.dtls # "idle" => kind.menc = "dtls" /\ m.raddr /\ mnat_ready(m),
             m.secure /\ kind.menc = "sdes" => m.raddr /\ mnat_ready(m)
      PROVE  SlInv'
  <2>1. PICK r \in BOOLEAN, a \in BOOLEAN :
          /\ stage' = [stage EXCEPT !.rtcp = r, !.audio = a]
          /\ r = (stage.rtcp \/ stream_is_ready(l) \/ audio)
          /\ a = (stage.audio \/ audio)
    BY <1>2 DEF Started
  <2>2. /\ stage'.rtcp = r /\ stage'.audio = a /\ stage'.call = stage.call
        /\ stage' \in StageType
    BY <1>1, <2>1 DEF StageType
  <2>3. SlTypeOK' /\ TimerTypes'
    BY <1>1, <1>2, <2>2 DEF SlTypeOK, TimerTypes, InCall, LinkType, StageType
  <2>4. stream_is_ready(link) => stream_is_ready(m)
    BY <1>2 DEF stream_is_ready
  <2>5. Linked'
    BY <1>2, <2>1, <2>2 DEF Linked, stream_is_ready, mnat_ready
  <2>6. AudioMeansReady'
    BY <1>2, <2>1, <2>2, <2>4 DEF AudioMeansReady, stream_is_ready
  <2> QED
    BY <2>3, <2>5, <2>6
<1>3. ASSUME NEW peer \in BOOLEAN, NEW good \in BOOLEAN, update_media(peer, good)
      PROVE  SlInv'
  <2> DEFINE l == [link EXCEPT !.raddr = TRUE]
             m == IF mnat_ready(l) THEN MediaencStarted(l, good) ELSE l
             audio == stream_is_ready(l)
  <2>1. /\ link' = m /\ Started(l, audio) /\ UNCHANGED <<kind, tmo>>
        /\ dir' = [dir EXCEPT !.peer = peer]
    BY <1>3 DEF update_media
  <2>2. /\ l \in LinkType /\ l.raddr = TRUE /\ l.connected = link.connected
        /\ l.secure = link.secure /\ l.dtls = link.dtls
    BY <1>1 DEF LinkType
  <2>3. l.dtls # "idle" => kind.menc = "dtls" /\ l.raddr /\ mnat_ready(l)
    BY <2>2 DEF Linked, mnat_ready
  <2> HIDE DEF l
  <2>4. CASE mnat_ready(l)
    <3>1. m = MediaencStarted(l, good)
      BY <2>4
    <3>2. /\ m \in LinkType /\ m.raddr = TRUE /\ m.connected = l.connected
          /\ m.dtls # "idle" => kind.menc = "dtls"
          /\ l.secure => m.secure
          /\ kind.menc # "sdes" => m.secure = l.secure
      BY <1>1, <2>2, <2>3, <2>4, <3>1, MediaencKeeps DEF LinkType
    <3>3. audio \in BOOLEAN
      BY DEF stream_is_ready
    <3> HIDE DEF m
    <3>4. /\ stream_is_ready(m) <=> stream_is_ready(l)
          /\ mnat_ready(m)
      BY <1>1, <2>2, <2>4, <3>2 DEF stream_is_ready, mnat_ready
    <3>5. /\ link.raddr => m.raddr /\ (link.connected => m.connected)
          /\ link.secure => m.secure
      BY <1>1, <2>2, <3>2
    <3>6. dir' \in [hold : BOOLEAN, peer : BOOLEAN]
      BY <1>1, <2>1
    <3>7. stream_is_ready(m) => stream_is_ready(l) \/ audio
      BY <3>4
    <3>8. audio => stream_is_ready(m)
      BY <3>4
    <3> HIDE DEF audio
    <3> QED
      BY <1>2, <2>1, <2>2, <3>2, <3>7, <3>8, <3>3, <3>4, <3>5, <3>6
  <2>5. CASE ~mnat_ready(l)
    <3>1. m = l
      BY <2>5
    <3>2. ~stream_is_ready(l) /\ l.dtls = "idle" /\ ~(m.secure /\ kind.menc = "sdes")
      BY <2>2, <2>3, <2>5, <3>1 DEF stream_is_ready, mnat_ready, Linked
    <3>3. dir' \in [hold : BOOLEAN, peer : BOOLEAN]
      BY <1>1, <2>1
    <3>4. audio = FALSE
      BY <3>2 DEF stream_is_ready
    <3> HIDE DEF m, audio
    <3> QED
      BY <1>2, <2>1, <2>2, <3>1, <3>2, <3>3, <3>4
  <2> QED
    BY <2>4, <2>5
<1>4. CASE mnat_connected_handler
  <2> PICK good \in BOOLEAN :
        stream_mnatconn_handler([link EXCEPT !.connected = TRUE], good)
    BY <1>4 DEF mnat_connected_handler
  <2> DEFINE l == [link EXCEPT !.connected = TRUE]
             k == MediaencStarted(l, good)
             mute == kind.menc = "sdes" /\ ~good /\ stage.call = "estab"
             m == [k EXCEPT !.mute = mute]
             audio == IF kind.menc = "none" THEN stream_is_ready(l)
                      ELSE kind.menc = "sdes" /\ good
  <2>1. /\ link' = m /\ Started(l, audio) /\ UNCHANGED <<kind, tmo, dir>>
        /\ link.raddr
    BY <1>4 DEF mnat_connected_handler, stream_mnatconn_handler, Checking
  <2>2. /\ l \in LinkType /\ l.raddr = link.raddr /\ l.connected = TRUE
        /\ l.secure = link.secure /\ l.dtls = link.dtls /\ mnat_ready(l)
    BY <1>1 DEF LinkType, mnat_ready
  <2>3. l.dtls # "idle" => kind.menc = "dtls" /\ l.raddr /\ mnat_ready(l)
    BY <2>2 DEF Linked
  <2>4. mute \in BOOLEAN
    OBVIOUS
  <2> HIDE DEF l, mute, k, m, audio
  <2>5. /\ k \in LinkType /\ k.raddr = TRUE /\ k.connected = TRUE
        /\ k.dtls # "idle" => kind.menc = "dtls"
        /\ l.secure => k.secure
        /\ kind.menc # "sdes" => k.secure = l.secure
    <3>1. /\ k \in LinkType
          /\ k.raddr = l.raddr /\ k.connected = l.connected
          /\ k.dtls # "idle" => kind.menc = "dtls" /\ k.raddr
          /\ l.secure => k.secure
          /\ kind.menc # "sdes" => k.secure = l.secure
      BY <1>1, <2>2, <2>3, MediaencKeeps DEF k
    <3> QED
      BY <1>1, <2>1, <2>2, <3>1 DEF LinkType
  <2>6. /\ m \in LinkType /\ m.raddr = k.raddr /\ m.connected = k.connected
         /\ m.dtls = k.dtls /\ m.secure = k.secure
    BY <2>4, <2>5 DEF LinkType, m
  <2>7. /\ m \in LinkType /\ m.raddr = TRUE /\ m.connected = TRUE
        /\ m.dtls # "idle" => kind.menc = "dtls"
        /\ l.secure => m.secure
        /\ kind.menc # "sdes" => m.secure = l.secure
    BY <2>5, <2>6
  <2>8. audio \in BOOLEAN
    BY DEF stream_is_ready, audio
  <2>9. /\ stream_is_ready(m) <=> stream_is_ready(l)
        /\ mnat_ready(m) /\ (audio => stream_is_ready(m))
    BY <1>1, <2>1, <2>2, <2>7 DEF stream_is_ready, mnat_ready, audio
  <2>10. /\ link.raddr => m.raddr /\ (link.connected => m.connected)
        /\ link.secure => m.secure
    BY <1>1, <2>2, <2>7
  <2>11. stream_is_ready(m) => stream_is_ready(l) \/ audio
    BY <2>9
  <2>12. /\ dir' \in [hold : BOOLEAN, peer : BOOLEAN]
         /\ audio => stream_is_ready(m)
    BY <1>1, <2>1, <2>9
  <2> QED
    BY <1>2, <2>1, <2>2, <2>7, <2>8, <2>9, <2>10, <2>11, <2>12
<1>5. CASE menc_event_handler
  <2> DEFINE m == [link EXCEPT !.dtls = "done", !.secure = TRUE]
  <2>1. link' = m /\ Started(m, TRUE) /\ UNCHANGED <<kind, tmo, dir>> /\ link.dtls = "running"
    BY <1>5 DEF menc_event_handler, Started, stream_is_ready
  <2>2. /\ m \in LinkType /\ m.raddr = link.raddr /\ m.connected = link.connected
        /\ m.secure = TRUE
    BY <1>1 DEF LinkType
  <2>3. kind.menc = "dtls" /\ link.raddr /\ mnat_ready(link)
    BY <2>1 DEF Linked
  <2> HIDE DEF m
  <2>4. stream_is_ready(m) /\ mnat_ready(m) /\ m.raddr
    BY <2>2, <2>3 DEF stream_is_ready, mnat_ready
  <2> QED
    BY <1>1, <1>2, <2>1, <2>2, <2>3, <2>4
<1>6. CASE Established
  <2>1. PICK a \in BOOLEAN : /\ stage' = [stage EXCEPT !.call = "estab", !.audio = a]
                             /\ a = (stage.audio \/ stream_is_ready(link))
    BY <1>1, <1>6 DEF Established, stream_is_ready, StageType
  <2>2. /\ stage' \in StageType /\ stage'.audio = a /\ stage'.rtcp = stage.rtcp
        /\ stage'.call = "estab"
    BY <1>1, <2>1 DEF StageType
  <2>3. UNCHANGED <<kind, link, dir>> /\ stage.call = "setup"
        /\ tmo' \in {tmo, [tmo EXCEPT !.tmr = TRUE, !.due = FALSE, !.age = 0]}
    BY <1>6 DEF Established
  <2>4. /\ tmo' \in [tmr : BOOLEAN, due : BOOLEAN, age : Int, err : {0, 1}]
        /\ tmo'.age \in {tmo.age, 0} /\ tmo'.err = tmo.err /\ tmo.err = 0
    <3>1. tmo.err = 0 /\ tmo \in [tmr : BOOLEAN, due : BOOLEAN, age : Int, err : {0}]
      BY <2>3 DEF TimerTypes, SlTypeOK
    <3>2. CASE tmo' = tmo
      BY <3>1, <3>2
    <3>3. CASE tmo' = [tmo EXCEPT !.tmr = TRUE, !.due = FALSE, !.age = 0]
      <4> DEFINE set == [tmo EXCEPT !.tmr = TRUE, !.due = FALSE, !.age = 0]
      <4>1. set \in [tmr : BOOLEAN, due : BOOLEAN, age : {0}, err : {0}]
        BY <3>1
      <4> QED
        BY <3>1, <3>3, <4>1
    <3> QED
      BY <2>3, <3>2, <3>3
  <2>5. SlTypeOK' /\ TimerTypes'
    BY <1>1, <2>2, <2>3, <2>4 DEF SlTypeOK, TimerTypes, InCall, LinkType, StageType
  <2> QED
    BY <2>1, <2>2, <2>3, <2>5
       DEF Linked, AudioMeansReady, stream_is_ready, mnat_ready
<1>7. CASE UNCHANGED <<kind, link, dir>> /\ Closed
           /\ tmo' \in [tmr : {FALSE}, due : {FALSE}, age : {tmo.age}, err : {0, 1}]
  <2>1. /\ stage' \in StageType /\ stage'.audio = FALSE /\ stage'.rtcp = stage.rtcp
        /\ stage'.call = "closed"
    BY <1>1, <1>7 DEF StageType, Closed
  <2>2. TimerTypes' /\ tmo'.age = tmo.age /\ tmo'.err \in {0, 1}
    BY <1>7, <2>1 DEF TimerTypes, InCall
  <2>3. SlTypeOK'
    BY <1>1, <1>7, <2>1, <2>2 DEF SlTypeOK, LinkType, StageType
  <2> QED
    BY <1>7, <2>1, <2>2, <2>3 DEF Linked, AudioMeansReady, stream_is_ready, mnat_ready
<1>8. CASE UNCHANGED <<kind, link, stage>> /\ tmo' \in [tmr : BOOLEAN, due : BOOLEAN, age : Int, err : {0, 1}]
           /\ dir' \in [hold : BOOLEAN, peer : BOOLEAN]
           /\ (~InCall => ~tmo'.tmr /\ ~tmo'.due) /\ tmo'.err = tmo.err
           /\ tmo'.age \in {Unheard, Hour + 1} \cup 0..RtpTimeout+1
  BY <1>1, <1>8 DEF SlTypeOK, TimerTypes, InCall, LinkType, StageType,
                    Linked, AudioMeansReady, stream_is_ready, mnat_ready
<1>9. CASE ConncheckFails
  <2>1. link' = [link EXCEPT !.failed = TRUE] /\ UNCHANGED <<kind, stage, dir, tmo>>
    BY <1>9 DEF ConncheckFails
  <2>2. /\ link' \in LinkType /\ link'.raddr = link.raddr /\ link'.secure = link.secure
        /\ link'.connected = link.connected /\ link'.dtls = link.dtls
    BY <1>1, <2>1 DEF LinkType
  <2> QED
    BY <1>1, <2>1, <2>2 DEF SlTypeOK, TimerTypes, InCall, LinkType, StageType,
                    Linked, AudioMeansReady, stream_is_ready, mnat_ready
<1>10. CASE SetupFails \/ HangUp
  BY <1>7, <1>10 DEF SetupFails, HangUp, TimerTypes
<1>11. CASE call_hold
  BY <1>1, <1>8, <1>11 DEF call_hold, TimerTypes, SlTypeOK
<1>12. CASE MediaArrives
  BY <1>1, <1>8, <1>12 DEF MediaArrives, TimerTypes, SlTypeOK, InCall
<1>13. CASE Second
  <2> DEFINE k == IF tmo.age \in 0..RtpTimeout THEN tmo.age + 1 ELSE tmo.age
  <2>1. k \in Int /\ k \in {Unheard, Hour + 1} \cup 0..RtpTimeout+1
    BY DEF TimerTypes, SlTypeOK
  <2>2. tmo' = [tmo EXCEPT !.due = TRUE, !.age = k] /\ UNCHANGED <<kind, link, stage, dir>>
        /\ tmo.tmr
    BY <1>13 DEF Second
  <2> HIDE DEF k
  <2>3. /\ tmo' \in [tmr : BOOLEAN, due : BOOLEAN, age : Int, err : {0, 1}]
        /\ tmo'.age = k /\ tmo'.err = tmo.err
    BY <2>1, <2>2 DEF TimerTypes
  <2> QED
    BY <1>1, <1>8, <2>1, <2>2, <2>3 DEF TimerTypes, InCall
<1>14. CASE ClockJumps
  BY <1>1, <1>8, <1>14 DEF ClockJumps, TimerTypes, SlTypeOK, InCall
<1>15. CASE check_rtp_handler
  <2> DEFINE jumped == SDP_SENDRECV /\ tmo.age > Hour
             silent == SDP_SENDRECV /\ tmo.age \in RtpTimeout+1..Hour
  <2>1. CASE silent
    <3>1. tmo.err = 0 /\ Closed /\ UNCHANGED <<kind, link, dir>>
          /\ tmo' = [tmo EXCEPT !.tmr = FALSE, !.due = FALSE, !.err = @ + 1]
      BY <1>15, <2>1 DEF check_rtp_handler, TimerTypes, SlTypeOK, InCall
    <3>2. tmo' = [tmo EXCEPT !.tmr = FALSE, !.due = FALSE, !.err = 1]
      BY <3>1
    <3>3. tmo' \in [tmr : {FALSE}, due : {FALSE}, age : {tmo.age}, err : {0, 1}]
      BY <3>2 DEF TimerTypes
    <3> QED
      BY <1>7, <3>1, <3>3
  <2>2. CASE ~silent
    <3> DEFINE k == IF jumped THEN Unheard ELSE tmo.age
    <3>1. k \in Int /\ k \in {Unheard, Hour + 1} \cup 0..RtpTimeout+1
      BY DEF TimerTypes, SlTypeOK, Unheard
    <3>2. /\ UNCHANGED <<kind, link, stage, dir>> /\ tmo.due
          /\ tmo' = [tmo EXCEPT !.due = FALSE, !.age = k]
      BY <1>15, <2>2 DEF check_rtp_handler
    <3> HIDE DEF jumped, k
    <3>3. /\ tmo' \in [tmr : BOOLEAN, due : BOOLEAN, age : Int, err : {0, 1}]
          /\ tmo'.age = k /\ tmo'.err = tmo.err
      BY <3>1, <3>2 DEF TimerTypes
    <3> QED
      BY <1>1, <1>8, <3>1, <3>2, <3>3 DEF TimerTypes, InCall
  <2> QED
    BY <2>1, <2>2
<1>16. CASE UNCHANGED slVars
  BY <1>1, <1>8, <1>16 DEF slVars, TimerTypes, SlTypeOK
<1>17. CASE PeerConnects \/ NoKeys
  <2>1. PICK d \in {"running", "nokeys"} :
          link' = [link EXCEPT !.dtls = d] /\ UNCHANGED <<kind, stage, dir, tmo>>
    BY <1>17 DEF PeerConnects, NoKeys
  <2>2. /\ link' \in LinkType /\ link'.raddr = link.raddr /\ link'.secure = link.secure
        /\ link'.connected = link.connected /\ link.dtls # "idle"
    BY <1>1, <1>17, <2>1 DEF LinkType, PeerConnects, NoKeys
  <2> QED
    BY <1>1, <2>1, <2>2 DEF SlTypeOK, TimerTypes, InCall, LinkType, StageType,
                    Linked, AudioMeansReady, stream_is_ready, mnat_ready
<1> QED
  BY <1>3, <1>4, <1>5, <1>6, <1>9, <1>10, <1>11, <1>12, <1>13, <1>14, <1>15, <1>16, <1>17
     DEF SlNext, Progress

(* The types of a stream from its set-up to its end.                       *)
THEOREM StreamLifeTypes == SlSpec => []SlTypeOK
<1>1. SlInv => SlTypeOK
  BY DEF SlInv
<1> QED
  BY <1>1, SlInitInvariant, SlNextInvariant, PTL DEF SlSpec

(* The audio device is opened only for a stream that is ready.             *)
THEOREM AudioOnlyWhenReady == SlSpec => []AudioMeansReady
<1>1. SlInv => AudioMeansReady
  BY DEF SlInv
<1> QED
  BY <1>1, SlInitInvariant, SlNextInvariant, PTL DEF SlSpec
=============================================================================

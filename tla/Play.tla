-------------------------------- MODULE Play --------------------------------
(***************************************************************************)
(* The player of ringtones and error tones (play.c).  A tone is a buffer   *)
(* that the thread of the sound device copies; a source is a file that a   *)
(* thread of its own reads into a buffer, from which the device takes it.  *)
(* The event loop polls for the end and releases the player, or the user   *)
(* of the player releases it at any time.  Every section under the lock of *)
(* the player is one step.                                                 *)
(***************************************************************************)
EXTENDS Integers

CONSTANTS
  Repeats,    \* values of the parameter repeat, -1: for ever
  SoundLen,   \* length of the sound
  Period      \* what the device takes at a time

ASSUME PlayAssumption ==
  /\ Repeats \subseteq Int
  /\ SoundLen \in Nat \ {0} /\ Period \in 1..SoundLen

VARIABLES
  sound,   \* parameters: type, repeat
  play,    \* struct play: repeat, eof, trep (no, later, now: the delay is
           \* over), pos, tmr, life (steps of destructor())
  psrc,    \* the source: on (its thread runs), left (not yet read)
  pbuf,    \* how much the buffer has
  pdev,    \* the device: at (none, broken: not open, and would not open;
           \* idle, measured), left (what its handler has measured)
  heard    \* repetitions started, complete, and failed: their source did not
           \* start; stopped by the user; orphan: the source was restarted
           \* in the middle of destructor()

plVars == <<sound, play, psrc, pbuf, pdev, heard>>

start_ausrc == [on |-> TRUE, left |-> SoundLen]
start_auplay == [at |-> "idle", left |-> 0]

(* With trep unset: the sound has come to its end.                         *)
AtEnd(p) ==
  LET r == IF p.repeat > 0 THEN p.repeat - 1 ELSE p.repeat IN
  IF r = 0 THEN [p EXCEPT !.repeat = r, !.eof = TRUE]
  ELSE [p EXCEPT !.repeat = r, !.trep = "later"]

(* Faulty: counts down again in every period of a pause.                   *)
check_restart_no_wait(p) ==
  IF p.trep = "now" THEN [p EXCEPT !.trep = "no"] ELSE AtEnd(p)

(* It returns true if it resets an expired trep.                           *)
check_restart(p) ==
  CASE p.trep = "later" -> p
    [] p.trep = "now" -> [p EXCEPT !.trep = "no"]
    [] OTHER -> AtEnd(p)

Restarted(p) == p.trep = "now"

-----------------------------------------------------------------------------
(* The thread of the device.                                               *)

(* write_handler(): the copy, or the end with what check_restart() makes   *)
(* of it, or a new start.                                                  *)
write_handler ==
  /\ sound.type = "tone" /\ pdev.at = "idle"
  /\ ~play.eof
  /\ IF play.pos + Period <= SoundLen
     THEN /\ play' = [play EXCEPT !.pos = @ + Period]
          /\ UNCHANGED heard
     ELSE IF Restarted(play)
     THEN /\ play' = [check_restart(play) EXCEPT !.pos = Period]
          /\ heard' = [heard EXCEPT !.started = @ + 1]
     ELSE /\ play' = [check_restart(play) EXCEPT !.pos = SoundLen]
          /\ heard' = [heard EXCEPT !.complete = heard.started]
  /\ UNCHANGED <<sound, psrc, pbuf, pdev>>

(* aubuf_write_handler() before the lock: measure and read.  A device that *)
(* is being closed does not ask again.                                     *)
Measure ==
  /\ sound.type = "source" /\ pdev.at = "idle" /\ play.life # "release_dev"
  /\ pdev' = [at |-> "measured", left |-> pbuf]
  /\ \E n \in {0, IF pbuf < Period THEN pbuf ELSE Period} :
       /\ n = 0 => psrc.on \/ pbuf = 0 \* the buffer may hold back
       /\ pbuf' = pbuf - n
  /\ UNCHANGED <<sound, play, psrc, heard>>

(* The file has come to its end.                                           *)
aubuf_write_handler(p) ==
  p.trep = "no" /\ ~psrc.on /\ pdev.left < Period

(* A restart of the source, whose failure nobody looks at: the repetition  *)
(* then counts as played.                                                  *)
RestartSource ==
  \/ /\ heard' = [heard EXCEPT !.started = @ + 1, !.orphan = play.life # "up"]
     /\ psrc' = start_ausrc
  \/ heard' = [heard EXCEPT !.failed = @ + 1] /\ UNCHANGED psrc

(* The rest, under the lock: the end, or a restart after the delay, which  *)
(* does not look at eof.                                                   *)
Handle ==
  /\ pdev.at = "measured"
  /\ IF aubuf_write_handler(play)
     THEN /\ play' = check_restart(play)
          /\ heard' = IF psrc.left > 0 THEN heard
                      ELSE [heard EXCEPT !.complete = heard.started]
          /\ UNCHANGED psrc
     ELSE IF Restarted(play)
     THEN play' = check_restart(play) /\ RestartSource
     ELSE UNCHANGED <<play, psrc, heard>>
  /\ pdev' = [at |-> "idle", left |-> 0]
  /\ UNCHANGED <<sound, pbuf>>

-----------------------------------------------------------------------------
(* The thread of the source.                                               *)

ausrc_read_handler ==
  /\ psrc.on /\ psrc.left > 0
  /\ psrc' = [psrc EXCEPT !.left = @ - 1]
  /\ pbuf' = IF play.eof THEN pbuf ELSE pbuf + 1
  /\ UNCHANGED <<sound, play, pdev, heard>>

-----------------------------------------------------------------------------
(* The event loop.                                                         *)

(* The timer of the source finds the end of the file.                      *)
ausrc_error_handler ==
  /\ psrc.on /\ psrc.left = 0 /\ play.life = "up"
  /\ psrc' = [psrc EXCEPT !.on = FALSE]
  /\ UNCHANGED <<sound, play, pbuf, pdev, heard>>


(* At the end start the timer for tmr_stop(), else open the device when    *)
(* the source has delivered; if that fails, the next poll tries again.     *)
tmr_polling ==
  /\ play.tmr = "poll"
  /\ \/ /\ play.eof /\ play.repeat = 0
        /\ play' = [play EXCEPT !.tmr = "stop"]
        /\ UNCHANGED pdev
     \/ /\ ~play.eof
        /\ sound.type = "source" /\ pdev.at = "none" /\ pbuf > 0
        /\ pdev' = start_auplay
        /\ UNCHANGED play
  /\ UNCHANGED <<sound, psrc, pbuf, heard>>

(* destructor(): first the timer and eof, ...                              *)
Release ==
  /\ play' = [play EXCEPT !.tmr = "off", !.eof = TRUE, !.life = "release_src"]
  /\ UNCHANGED <<sound, psrc, pbuf, pdev>>

tmr_stop == play.tmr = "stop" /\ Release /\ UNCHANGED heard

(* The menu stops the sound.                                               *)
Stop ==
  /\ play.life = "up"
  /\ Release
  /\ heard' = [heard EXCEPT !.stopped = TRUE]

(* ... then the source, which waits for its thread; the device is told ... *)
ReleaseSource ==
  /\ play.life = "release_src"
  /\ play' = [play EXCEPT !.life = "release_dev"]
  /\ psrc' = [psrc EXCEPT !.on = FALSE]
  /\ UNCHANGED <<sound, pbuf, pdev, heard>>

(* Faulty: the player is freed before its device.                          *)
ReleaseDevice_unlocked ==
  /\ play.life = "release_dev"
  /\ play' = [play EXCEPT !.life = "free"]
  /\ UNCHANGED <<sound, psrc, pbuf, pdev, heard>>

(* ... and waits for its handler, and the rest is freed.                   *)
ReleaseDevice ==
  /\ play.life = "release_dev" /\ pdev.at # "measured"
  /\ pdev' = [at |-> "none", left |-> 0]
  /\ play' = [play EXCEPT !.life = "free"]
  /\ UNCHANGED <<sound, psrc, pbuf, heard>>

(* The device that is not open yet is taken away, or comes back.           *)
DeviceChanges ==
  /\ sound.type = "source" /\ play.life = "up"
  /\ \E from, to \in {"none", "broken"} :
       pdev.at = from /\ from # to /\ pdev' = [pdev EXCEPT !.at = to]
  /\ UNCHANGED <<sound, play, psrc, pbuf, heard>>

(* The clock: the delay between repetitions is over.  Bound: an endless    *)
(* sound waits after its third repetition.                                 *)
DelayOver ==
  /\ play.trep = "later" /\ heard.started + heard.failed < 3
  /\ play' = [play EXCEPT !.trep = "now"]
  /\ UNCHANGED <<sound, psrc, pbuf, pdev, heard>>

-----------------------------------------------------------------------------
(* play_tone() or play_file_ausrc().                                       *)
PlInit ==
  /\ sound \in [type : {"tone", "source"}, repeat : Repeats]
  /\ play = [repeat |-> IF sound.repeat = 0 THEN 1 ELSE sound.repeat,
             eof |-> FALSE, trep |-> "no", pos |-> 0, tmr |-> "poll",
             life |-> "up"]
  /\ psrc = IF sound.type = "source" THEN start_ausrc
            ELSE [on |-> FALSE, left |-> 0]
  /\ pbuf = 0
  /\ pdev \in IF sound.type = "tone" THEN {start_auplay}
              ELSE [at : {"none", "broken"}, left : {0}]
  /\ heard = [started |-> 1, complete |-> 0, failed |-> 0, stopped |-> FALSE,
              orphan |-> FALSE]

Device == write_handler \/ Measure \/ Handle
EventLoop ==
  ausrc_error_handler \/ tmr_polling \/ tmr_stop \/ ReleaseSource \/ ReleaseDevice

PlNext ==
  Device \/ ausrc_read_handler \/ EventLoop \/ DelayOver \/ DeviceChanges \/ Stop

PlSpec == PlInit /\ [][PlNext]_plVars

-----------------------------------------------------------------------------
(* Properties.                                                             *)

PlTypeOK ==
  /\ sound \in [type : {"tone", "source"}, repeat : Repeats]
  /\ play.trep \in {"no", "later", "now"}
  /\ play.tmr \in {"off", "poll", "stop"}
  /\ play.life \in {"up", "release_src", "release_dev", "free"}
  /\ play.pos \in 0..SoundLen
  /\ pbuf \in Nat /\ psrc \in [on : BOOLEAN, left : 0..SoundLen]
  /\ pdev.at \in {"none", "broken", "idle", "measured"}

Wanted == IF sound.repeat = 0 THEN 1 ELSE sound.repeat

(* play_tone(): "repeat: number of times to repeat": a sound is never      *)
(* started once more than that, and one that ends by itself has used up    *)
(* all its repetitions, each started and read to its end, or skipped       *)
(* because its source did not start; whichever thread noticed the end of   *)
(* the file and the end of the pause.                                      *)
PlayedAsOften ==
  Wanted > 0 =>
    /\ heard.started + heard.failed <= Wanted
    /\ play.eof /\ ~heard.stopped =>
         /\ heard.started + heard.failed = Wanted
         /\ heard.complete = heard.started

(* When the player is freed the device is gone, and the source too unless  *)
(* the device started it again in the middle of destructor().              *)
FreedLast ==
  play.life = "free" => pdev.at = "none" /\ (psrc.on => heard.orphan)

=============================================================================

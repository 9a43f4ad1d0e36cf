------------------------------- MODULE AudioRx -------------------------------
(***************************************************************************)
(* The receive side of an audio stream (audio.c, struct aurx) with an      *)
(* adaptive jitter buffer: three kinds of threads around one object.       *)
(*                                                                         *)
(*   main: the event loop, which starts, stops and changes the player      *)
(*   dev:  the thread of the sound device, which asks for samples in       *)
(*         auplay_write_handler2() and starts the decoding thread          *)
(*   th:   decoding threads (rx_thread())                                  *)
(*                                                                         *)
(* An action is what a thread does between two points where another one    *)
(* can see or change what they share: the flag thr.run, the mutex, the     *)
(* thread identifier, the device and the sample buffer.                    *)
(***************************************************************************)
EXTENDS Integers, FiniteSets

CONSTANTS
  Threads,       \* identifiers of decoding threads: a bound, see audio_stop
  NoThread,      \* thr.tid before the first pthread_create()
  CreateMayFail  \* whether pthread_create() may fail

ASSUME AudioRxAssumption ==
  /\ Threads \cap {NoThread, "free", "device"} = {}
  /\ CreateMayFail \in BOOLEAN

VARIABLES
  main,    \* where the event loop is
  dev,     \* where the device thread is, none: there is no device (auplay)
  th,      \* th[t]: where the decoding thread t is
  run,     \* thr.run
  tid,     \* thr.tid
  join,    \* the thread the event loop waits for in pthread_join()
  mutex,   \* who holds thr.mutex: free, device, or a decoding thread
  aubuf    \* there is a sample buffer

vars == <<main, dev, th, run, tid, join, mutex, aubuf>>

MainPC == {"loop", "clear", "join", "joining", "player", "buffer",
           "decoder", "device"}
DevPC == {"none", "idle", "lock", "check", "create", "signal"}
ThreadPC == {"none", "top", "lock", "wait", "unlock", "check", "decode", "done"}

-----------------------------------------------------------------------------
(* The event loop.                                                         *)

(* The buffer and a device with its thread that reads from it; a step      *)
(* before the buffer, or the opening of the device, may fail.              *)
start_player ==
  \/ UNCHANGED <<dev, aubuf>>
  \/ /\ dev = "none"
     /\ aubuf' = TRUE
     /\ dev' \in {"none", "idle"}

audio_start ==
  /\ main = "loop"
  /\ start_player
  /\ UNCHANGED <<main, th, run, tid, join, mutex>>

(* mem_deref() of the device waits for its thread, which ends after it has *)
(* left the write handler; main does not get past it before.               *)
PlayerEnds == dev \in {"none", "idle"}

(* A new decoder, when the codec or the direction changed: the player is   *)
(* stopped, the buffer is flushed but kept, the player started again.      *)
audio_decoder_set ==
  \/ /\ main = "loop"
     /\ main' = "decoder"
     /\ UNCHANGED <<dev, th, run, tid, join, mutex, aubuf>>
  \/ /\ main = "decoder"
     /\ PlayerEnds
     /\ \/ dev' = "none" /\ UNCHANGED aubuf
        \/ dev' \in {"none", "idle"} /\ aubuf' = TRUE
     /\ main' = "loop"
     /\ UNCHANGED <<th, run, tid, join, mutex>>

(* The user chooses another device, or none.                               *)
audio_set_player ==
  \/ /\ main = "loop"
     /\ main' = "device"
     /\ UNCHANGED <<dev, th, run, tid, join, mutex, aubuf>>
  \/ /\ main = "device"
     /\ PlayerEnds
     /\ dev' \in {"none", "idle"}
     /\ main' = "loop"
     /\ UNCHANGED <<th, run, tid, join, mutex, aubuf>>

(* The identifiers in use, counting the thread that is being created.      *)
InUse == {t \in Threads : th[t] \notin {"none", "done"} \/ t = tid}
Created == Cardinality(InUse) + (IF dev = "create" THEN 1 ELSE 0)

(* stop_rx(): clear the flag if it is set and wait for the thread, ...     *)
(* A stop makes the device start one more thread.  Bound: nobody stops the *)
(* audio while no identifier would be left for it.                         *)
audio_stop ==
  /\ main = "loop"
  /\ Created < Cardinality(Threads)
  /\ main' = IF run THEN "clear" ELSE "player"
  /\ UNCHANGED <<dev, th, run, tid, join, mutex, aubuf>>

StopClear ==
  /\ main = "clear"
  /\ run' = FALSE
  /\ main' = "join"
  /\ UNCHANGED <<dev, th, tid, join, mutex, aubuf>>

StopJoin ==
  /\ main = "join"
  /\ join' = tid
  /\ main' = "joining"
  /\ UNCHANGED <<dev, th, run, tid, mutex, aubuf>>

(* Joining a thread that is not there, or was joined before, is undefined; *)
(* of its outcomes, that of a library that notices and does not wait.      *)
StopJoined ==
  /\ main = "joining"
  /\ \/ /\ join \in Threads
        /\ th[join] \in {"none", "done"}
        /\ th' = [th EXCEPT ![join] = "none"]
     \/ /\ join = NoThread
        /\ UNCHANGED th
  /\ join' = NoThread
  /\ main' = "player"
  /\ UNCHANGED <<dev, run, tid, mutex, aubuf>>

(* Faulty: the buffer goes first.                                          *)
StopDevice_buffer_first ==
  /\ main = "player"
  /\ aubuf' = FALSE
  /\ main' = "buffer"
  /\ UNCHANGED <<dev, th, run, tid, join, mutex>>

(* ... then stop the player, and then free the buffer.                     *)
StopDevice ==
  /\ main = "player"
  /\ PlayerEnds
  /\ dev' = "none"
  /\ main' = "buffer"
  /\ UNCHANGED <<th, run, tid, join, mutex, aubuf>>

StopBuffer ==
  /\ main = "buffer"
  /\ aubuf' = FALSE
  /\ main' = "loop"
  /\ UNCHANGED <<dev, th, run, tid, join, mutex>>

-----------------------------------------------------------------------------
(* The device thread: auplay_write_handler2().                             *)

(* The next period, unless the device is being stopped: the samples of the *)
(* buffer are read, wcnt counts the call.                                  *)
WriteHandler ==
  /\ dev = "idle"
  /\ main \notin {"player", "decoder", "device"}
  /\ dev' = "lock"
  /\ UNCHANGED <<main, th, run, tid, join, mutex, aubuf>>

WriteLock ==
  /\ dev = "lock"
  /\ mutex = "free"
  /\ mutex' = "device"
  /\ dev' = "check"
  /\ UNCHANGED <<main, th, run, tid, join, aubuf>>

(* Faulty: the thread is created before the flag is set, by nobody.        *)
WriteCheck_no_run ==
  /\ dev = "check"
  /\ dev' = IF run THEN "signal" ELSE "create"
  /\ UNCHANGED <<main, th, run, tid, join, mutex, aubuf>>

(* Without a decoding thread, or with one that was told to stop, start one.*)
WriteCheck ==
  /\ dev = "check"
  /\ run' = TRUE
  /\ dev' = IF run THEN "signal" ELSE "create"
  /\ UNCHANGED <<main, th, tid, join, mutex, aubuf>>

(* The new thread takes an identifier nobody refers to.                    *)
WriteCreate ==
  /\ dev = "create"
  /\ \E t \in Threads \ {join} :
       /\ \/ th[t] = "none"
          \/ th[t] = "done" /\ t # tid
       /\ th' = [th EXCEPT ![t] = "top"]
       /\ tid' = t
  /\ dev' = "signal"
  /\ UNCHANGED <<main, run, join, mutex, aubuf>>

(* Faulty: the flag is not taken back.                                     *)
WriteCreateFails_keep_run ==
  /\ CreateMayFail
  /\ dev = "create"
  /\ dev' = "idle"
  /\ UNCHANGED <<main, th, run, tid, join, mutex, aubuf>>

(* If there is no thread the handler returns at once, with the mutex.      *)
WriteCreateFails ==
  /\ CreateMayFail
  /\ dev = "create"
  /\ run' = FALSE
  /\ dev' = "idle"
  /\ UNCHANGED <<main, th, tid, join, mutex, aubuf>>

(* Faulty: the handler returns without unlocking.                          *)
WriteSignal_no_unlock ==
  /\ dev = "signal"
  /\ dev' = "idle"
  /\ UNCHANGED <<main, th, run, tid, join, mutex, aubuf>>

WriteSignal ==
  /\ dev = "signal"
  /\ mutex' = "free"
  /\ dev' = "idle"
  /\ UNCHANGED <<main, th, run, tid, join, aubuf>>

-----------------------------------------------------------------------------
(* Decoding threads: rx_thread() and audio_decode().                       *)

Goto(t, pc) == th' = [th EXCEPT ![t] = pc]

ThreadTop(t) ==
  /\ th[t] = "top"
  /\ Goto(t, IF run THEN "lock" ELSE "done")
  /\ UNCHANGED <<main, dev, run, tid, join, mutex, aubuf>>

(* pthread_cond_timedwait() releases the mutex at once; it returns for the *)
(* signal or after 500 ms, so for no reason that matters here, ...         *)
ThreadLock(t) ==
  /\ th[t] = "lock"
  /\ mutex = "free"
  /\ Goto(t, "wait")
  /\ UNCHANGED <<main, dev, run, tid, join, mutex, aubuf>>

(* ... when it has the mutex again.                                        *)
ThreadWait(t) ==
  /\ th[t] = "wait"
  /\ mutex = "free"
  /\ mutex' = t
  /\ Goto(t, "unlock")
  /\ UNCHANGED <<main, dev, run, tid, join, aubuf>>

ThreadUnlock(t) ==
  /\ th[t] = "unlock"
  /\ mutex' = "free"
  /\ Goto(t, "check")
  /\ UNCHANGED <<main, dev, run, tid, join, aubuf>>

ThreadCheck(t) ==
  /\ th[t] = "check"
  /\ Goto(t, IF run THEN "decode" ELSE "done")
  /\ UNCHANGED <<main, dev, run, tid, join, mutex, aubuf>>

(* One frame of the jitter buffer.  wcnt, the level of the sample buffer   *)
(* and the jitter buffer decide whether there is another one, but never    *)
(* after the flag was cleared.                                             *)
audio_decode(t) ==
  /\ th[t] = "decode"
  /\ \/ Goto(t, "top")
     \/ run /\ Goto(t, "decode")
  /\ UNCHANGED <<main, dev, run, tid, join, mutex, aubuf>>

-----------------------------------------------------------------------------
Init ==
  /\ main = "loop"
  /\ dev = "none"
  /\ th = [t \in Threads |-> "none"]
  /\ run = FALSE
  /\ tid = NoThread
  /\ join = NoThread
  /\ mutex = "free"
  /\ aubuf = FALSE

(* Statements of a function the event loop has entered.                    *)
StopStep == StopClear \/ StopJoin \/ StopJoined \/ StopDevice \/ StopBuffer

MainStep == StopStep \/ (main # "loop" /\ (audio_decoder_set \/ audio_set_player))

auplay_write_handler2 ==
  \/ WriteLock \/ WriteCheck \/ WriteCreate \/ WriteCreateFails \/ WriteSignal

rx_thread(t) ==
  \/ ThreadTop(t) \/ ThreadLock(t) \/ ThreadWait(t)
  \/ ThreadUnlock(t) \/ ThreadCheck(t) \/ audio_decode(t)

Next ==
  \/ audio_start \/ audio_stop \/ audio_decoder_set \/ audio_set_player
  \/ StopStep
  \/ WriteHandler \/ auplay_write_handler2
  \/ \E t \in Threads : rx_thread(t)

(* Threads that can run do, the device asks for samples period by period,  *)
(* and nobody is kept from the mutex for ever while it is free again and   *)
(* again: it is held for a few statements every period.  Nothing is        *)
(* assumed of what the event loop is asked to do.                          *)
Fairness ==
  /\ WF_vars(MainStep)
  /\ WF_vars(WriteHandler)
  /\ SF_vars(auplay_write_handler2)
  /\ \A t \in Threads : SF_vars(rx_thread(t))

Spec == Init /\ [][Next]_vars
FairSpec == Spec /\ Fairness

-----------------------------------------------------------------------------
(* Properties.                                                             *)

(* Every variable has its type; a decoding thread holds the mutex exactly  *)
(* between its lock and its unlock, and the write handler at least there.  *)
TypeOK ==
  /\ main \in MainPC
  /\ dev \in DevPC
  /\ th \in [Threads -> ThreadPC]
  /\ run \in BOOLEAN
  /\ tid \in Threads \cup {NoThread}
  /\ join \in Threads \cup {NoThread}
  /\ aubuf \in BOOLEAN
  /\ dev \in {"check", "create", "signal"} => mutex = "device"
  /\ \A t \in Threads : mutex = t <=> th[t] = "unlock"
  /\ mutex \in Threads \cup {"free", "device"}

(* The sample buffer is never freed while the device can still read from   *)
(* it (stop_rx(): the player before the buffer).                           *)
BufferOutlivesPlayer == [][aubuf /\ ~aubuf' => dev = "none"]_vars

(* While the flag is set, the thread that thr.tid names is there to decode *)
(* and to be joined, or the device is about to create it.  Both the device *)
(* and the event loop decide by the flag alone.                            *)
DecoderRuns ==
  run => \/ dev = "create"
         \/ tid \in Threads /\ th[tid] \notin {"none", "done"}

(* audio.c: "This function has REAL-TIME properties": the write handler    *)
(* of the device always returns, whatever the other threads do.            *)
DeviceReturns == []<>(dev \in {"none", "idle"})

(* As long as the player runs and nobody stops it, frames are decoded,     *)
(* also after earlier stops, restarts and changes of decoder, and although *)
(* signals of the condition may be lost.                                   *)
Serving ==
  []<>( \/ main # "loop"
        \/ dev = "none"
        \/ \E t \in Threads : th[t] = "decode" )

(* audio_stop(): "Stop the audio playback and recording": the event loop   *)
(* comes back from it.                                                     *)
StopTerminates == main = "joining" ~> main = "loop"
=============================================================================

------------------------------- MODULE AudioTx -------------------------------
(***************************************************************************)
(* The transmit side of an audio stream (audio.c, struct autx): the event  *)
(* loop, the thread of the sound source, and, with audio_txmode "thread",  *)
(* a thread that encodes and sends every ptime.                            *)
(*                                                                         *)
(* Which samples are in the buffer is left out: whether there are enough   *)
(* for a packet is open.                                                   *)
(***************************************************************************)
EXTENDS Integers, FiniteSets

CONSTANT CodecRate  \* the rate and channels of each codec

ASSUME AudioTxAssumption == "none" \notin DOMAIN CodecRate

Codecs == DOMAIN CodecRate

VARIABLES
  txmode,   \* cfg.txmode: poll or thread
  offered,  \* the codecs the peer may choose in this call
  ctl,      \* where the event loop is, and the codec it is setting
  enc,      \* the codec (ac), and whose encoder there is (st)
  ausrc,    \* the source: none, or where its thread is; unfed: it was started
            \* without a buffer or a thread that sends
  txthr,    \* the transmit thread, and the flag thr.run
  txbuf     \* there is a sample buffer (tx->aubuf)

atVars == <<txmode, offered, ctl, enc, ausrc, txthr, txbuf>>
atSettings == <<txmode, offered>>

CtlPC == {"loop", "join", "source", "buffer", "reset", "free", "update", "set"}
SourcePC == {"none", "idle", "write", "encode"}
ThreadTxPC == {"none", "top", "sleep", "encode", "done"}

NoSource == [pc |-> "none", unfed |-> FALSE]
At(pc) == ctl' = [ctl EXCEPT !.at = pc]

(* What a source needs to be heard.                                        *)
Fed == txbuf /\ (txmode = "thread" => txthr.run)

-----------------------------------------------------------------------------
(* The event loop.                                                         *)

(* Faulty: the thread is made together with the buffer, which may be left  *)
(* from a start that failed.                                               *)
start_source_with_buffer ==
  \/ UNCHANGED <<ausrc, txthr, txbuf>>
  \/ /\ ausrc.pc = "none" /\ enc.ac # "none"
     /\ txbuf' = TRUE
     /\ ausrc' \in {NoSource, [pc |-> "idle", unfed |-> FALSE]}
     /\ IF txmode = "thread" /\ ~txbuf /\ ~txthr.run /\ ausrc'.pc = "idle"
        THEN txthr' = [pc |-> "top", run |-> TRUE]
        ELSE UNCHANGED txthr

(* A source that runs is left as it is.  Else the buffer, the source and   *)
(* the thread are made, each of which may fail; a source stays then.       *)
start_source ==
  \/ UNCHANGED <<ausrc, txthr, txbuf>>
  \/ /\ ausrc.pc = "none" /\ enc.ac # "none"
     /\ txbuf' = TRUE
     /\ UNCHANGED <<ausrc, txthr>>
  \/ /\ ausrc.pc = "none" /\ enc.ac # "none"
     /\ txbuf' = TRUE
     /\ \/ /\ txmode = "poll" \/ txthr.run
           /\ ausrc' = [pc |-> "idle", unfed |-> FALSE]
           /\ UNCHANGED txthr
        \/ /\ txmode = "thread" /\ ~txthr.run
           /\ \/ /\ txthr' = [pc |-> "top", run |-> TRUE]
                 /\ ausrc' = [pc |-> "idle", unfed |-> FALSE]
              \/ /\ ausrc' = [pc |-> "idle", unfed |-> TRUE]
                 /\ UNCHANGED txthr

audio_start_source ==
  /\ ctl.at = "loop"
  /\ start_source
  /\ UNCHANGED <<atSettings, ctl, enc>>

(* mem_deref() of a source waits for its thread to leave the read handler. *)
SourceEnds == ausrc.pc \in {"none", "idle"}

(* Faulty: the thread is told to stop and not waited for.                  *)
stop_tx_no_join ==
  /\ ctl.at = "loop"
  /\ txthr' = [txthr EXCEPT !.run = FALSE]
  /\ At("source")
  /\ UNCHANGED <<atSettings, enc, ausrc, txbuf>>

(* stop_tx(): first the thread, ...                                        *)
stop_tx ==
  /\ ctl.at = "loop"
  /\ IF txmode = "thread" /\ txthr.run
     THEN txthr' = [txthr EXCEPT !.run = FALSE] /\ At("join")
     ELSE At("source") /\ UNCHANGED txthr
  /\ UNCHANGED <<atSettings, enc, ausrc, txbuf>>

TxJoined ==
  /\ ctl.at = "join"
  /\ txthr.pc = "done"
  /\ txthr' = [txthr EXCEPT !.pc = "none"]
  /\ At("source")
  /\ UNCHANGED <<atSettings, enc, ausrc, txbuf>>

(* ... then the source, ...                                                *)
StopSource ==
  /\ ctl.at = "source"
  /\ SourceEnds
  /\ ausrc' = NoSource
  /\ At("buffer")
  /\ UNCHANGED <<atSettings, enc, txthr, txbuf>>

(* ... and then the buffer.                                                *)
FreeBuffer ==
  /\ ctl.at = "buffer"
  /\ txbuf' = FALSE
  /\ At("loop")
  /\ UNCHANGED <<atSettings, enc, ausrc, txthr>>

(* audio_encoder_set(): the source is stopped if the rate changes, ...     *)
audio_encoder_set(c) ==
  /\ ctl.at = "loop"
  /\ ctl' = [codec |-> c,
             at |-> IF c = enc.ac THEN "update"
                    ELSE IF enc.ac = "none" THEN "reset"
                    ELSE IF CodecRate[c] # CodecRate[enc.ac] THEN "reset"
                    ELSE "free"]
  /\ UNCHANGED <<atSettings, enc, ausrc, txthr, txbuf>>

EncoderReset ==
  /\ ctl.at = "reset"
  /\ SourceEnds
  /\ ausrc' = NoSource
  /\ At("free")
  /\ UNCHANGED <<atSettings, enc, txthr, txbuf>>

(* ... the encoder of another codec is freed, ...                          *)
EncoderFree ==
  /\ ctl.at = "free"
  /\ enc' = [ac |-> ctl.codec, st |-> "none"]
  /\ At("update")
  /\ UNCHANGED <<atSettings, ausrc, txthr, txbuf>>

(* ... and the encoder made or updated, which may fail; if it does not and *)
(* there is no source, audio_start() follows.                              *)
EncoderUpdate ==
  /\ ctl.at = "update"
  /\ At("loop")
  /\ \/ UNCHANGED <<enc, ausrc, txthr, txbuf>>
     \/ enc' = [enc EXCEPT !.st = enc.ac] /\ start_source
  /\ UNCHANGED atSettings

(* audio_set_source(): the user chooses another source, or none.  Buffer   *)
(* and thread stay as they are, also if there are none.                    *)
audio_set_source ==
  \/ /\ ctl.at = "loop"
     /\ At("set")
     /\ UNCHANGED <<atSettings, enc, ausrc, txthr, txbuf>>
  \/ /\ ctl.at = "set"
     /\ SourceEnds
     /\ ausrc' \in {NoSource, [pc |-> "idle", unfed |-> ~Fed]}
     /\ At("loop")
     /\ UNCHANGED <<atSettings, enc, txthr, txbuf>>

-----------------------------------------------------------------------------
(* The thread of the source: ausrc_read_handler().                         *)

SourceGoes(pc) ==
  /\ ausrc' = [ausrc EXCEPT !.pc = pc]
  /\ UNCHANGED <<atSettings, ctl, enc, txthr, txbuf>>

ReadHandler ==
  /\ ausrc.pc = "idle"
  /\ ctl.at \notin {"source", "reset", "set"}
  /\ SourceGoes("write")

(* In poll mode, packets are sent while there are samples.                 *)
ausrc_read_handler ==
  \/ ausrc.pc \in {"write", "encode"} /\ SourceGoes("idle")
  \/ /\ ausrc.pc \in {"write", "encode"} /\ txmode = "poll" /\ txbuf
     /\ SourceGoes("encode")

-----------------------------------------------------------------------------
(* The transmit thread.                                                    *)

ThreadGoes(pc) ==
  /\ txthr' = [txthr EXCEPT !.pc = pc]
  /\ UNCHANGED <<atSettings, ctl, enc, ausrc, txbuf>>

(* Sleep; nothing more if told to stop; else send if it is time and there  *)
(* are samples.                                                            *)
tx_thread ==
  \/ txthr.pc = "top" /\ ThreadGoes(IF txthr.run THEN "sleep" ELSE "done")
  \/ txthr.pc = "sleep" /\ ~txthr.run /\ ThreadGoes("done")
  \/ txthr.pc = "sleep" /\ ThreadGoes("top")
  \/ txthr.pc = "sleep" /\ txthr.run /\ ThreadGoes("encode")
  \/ txthr.pc = "encode" /\ ThreadGoes("top")

AtInit ==
  /\ txmode \in {"poll", "thread"}
  /\ offered \in (SUBSET Codecs) \ {{}}
  /\ ctl \in [at : {"loop"}, codec : {"none"}]
  /\ enc = [ac |-> "none", st |-> "none"]
  /\ ausrc = NoSource
  /\ txthr = [pc |-> "none", run |-> FALSE]
  /\ txbuf = FALSE

Controls ==
  \/ audio_start_source \/ stop_tx \/ TxJoined \/ StopSource \/ FreeBuffer
  \/ \E c \in offered : audio_encoder_set(c)
  \/ EncoderReset \/ EncoderFree \/ EncoderUpdate \/ audio_set_source

AtNext == Controls \/ ReadHandler \/ ausrc_read_handler \/ tx_thread

AtSpec == AtInit /\ [][AtNext]_atVars

-----------------------------------------------------------------------------
(* Properties.                                                             *)

AtTypeOK ==
  /\ txmode \in {"poll", "thread"} /\ offered \subseteq Codecs
  /\ ctl \in [at : CtlPC, codec : offered \cup {"none"}]
  /\ enc \in [ac : offered \cup {"none"}, st : offered \cup {"none"}]
  /\ enc.st \in {enc.ac, "none"}
  /\ ausrc \in [pc : SourcePC, unfed : BOOLEAN]
  /\ txthr \in [pc : ThreadTxPC, run : BOOLEAN]
  /\ txbuf \in BOOLEAN

(* A source that runs is heard: its samples have a buffer and, in thread   *)
(* mode, a thread that sends them, after any order of stops, starts and    *)
(* changes of codec and source.  Two cases are left out, the ones in which *)
(* the code starts a source without them: the user chose one while the     *)
(* audio was stopped, or the thread could not be created.                  *)
SourceIsSent ==
  ctl.at = "loop" /\ ausrc.pc # "none" /\ ~ausrc.unfed
    => Fed /\ (txmode = "thread" => txthr.pc \notin {"none", "done"})

(* No two codecs of the call have the same rate.                           *)
RatesDiffer ==
  \A c, d \in offered : CodecRate[c] = CodecRate[d] => c = d

(* Neither the buffer nor, in poll mode, the encoder is freed while a      *)
(* thread uses it.  Between codecs of one rate the source is not stopped,  *)
(* and the transmit thread never is: there the encoder may go under them.  *)
InUseIsKept ==
  /\ ctl.at = "buffer" => ausrc.pc = "none" /\ txthr.pc # "encode"
  /\ txthr.pc = "encode" => txbuf
  /\ ctl.at = "free" /\ txmode = "poll" /\ RatesDiffer => ausrc.pc # "encode"
=============================================================================

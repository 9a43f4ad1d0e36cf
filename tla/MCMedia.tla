------------------------------ MODULE MCMedia ------------------------------
(***************************************************************************)
(* The safety of six components in one run of TLC.  They share nothing:    *)
(* the initial state chooses one of them, which then runs alone while the  *)
(* others stay in their initial state.                                     *)
(***************************************************************************)
EXTENDS AudioRx, Timestamp, StreamRx, Menu, Publisher,
        AudioTx, TLC

CONSTANTS t1, t2, t3, a1, a2, c1, c2

VARIABLE part

Plans == { <<"codec", "event", "event", "codec">>,
           <<"codec", "other", "event", "codec">> }

Rates == [pcmu |-> 8, pcma |-> 8, opus |-> 48]

Symmetry == Permutations(MenuCalls)

allVars == <<part, vars, tsVars, rxVars, mnVars, pbVars, atVars>>

(* One initial state of the components that choose one.                    *)
TsStill == media = "audio"
RxStill ==
  /\ wire.start = 0 /\ wire.plan = <<"codec", "event", "event", "codec">>
  /\ strm.jbtype = "off"
MnStill == manual = {}
PbStill == user = "closed"
AtStill == txmode = "poll" /\ offered = {"pcmu"}

MediaInit ==
  /\ Init /\ TsInit /\ RxInit /\ MnInit /\ PbInit /\ AtInit
  /\ \/ part = "audio" /\ TsStill /\ RxStill /\ MnStill /\ PbStill /\ AtStill
     \/ part = "time" /\ RxStill /\ MnStill /\ PbStill /\ AtStill
     \/ part = "stream" /\ TsStill /\ MnStill /\ PbStill /\ AtStill
     \/ part = "menu" /\ TsStill /\ RxStill /\ PbStill /\ AtStill
     \/ part = "publisher" /\ TsStill /\ RxStill /\ MnStill /\ AtStill
     \/ part = "transmit" /\ TsStill /\ RxStill /\ MnStill /\ PbStill

MediaNext ==
  \/ part = "audio" /\ Next /\ UNCHANGED <<part, tsVars, rxVars, mnVars, pbVars, atVars>>
  \/ part = "time" /\ TsNext /\ UNCHANGED <<part, vars, rxVars, mnVars, pbVars, atVars>>
  \/ part = "stream" /\ RxNext /\ UNCHANGED <<part, vars, tsVars, mnVars, pbVars, atVars>>
  \/ part = "menu" /\ MnNext /\ UNCHANGED <<part, vars, tsVars, rxVars, pbVars, atVars>>
  \/ part = "publisher" /\ PbNext /\ UNCHANGED <<part, vars, tsVars, rxVars, mnVars, atVars>>
  \/ part = "transmit" /\ AtNext
     /\ UNCHANGED <<part, vars, tsVars, rxVars, mnVars, pbVars>>

MediaSpec == MediaInit /\ [][MediaNext]_allVars

(* The types of the components; those of AudioRx are checked by MCLive.    *)
MediaTypeOK == TsTypeOK /\ RxTypeOK /\ MnTypeOK /\ PbTypeOK /\ AtTypeOK
=============================================================================

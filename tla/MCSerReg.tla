------------------------------ MODULE MCSerReg ------------------------------
(* Instances of SerReg.tla for TLC.  Agents are numbers, so that of the    *)
(* accounts that differ only in their order one is enough.                 *)
EXTENDS SerReg

Kind == [prio : 0 .. 2, regint : {TRUE}, fbregint : BOOLEAN]
          \cup [prio : {1, 3}, regint : {FALSE}, fbregint : {FALSE}]

(* By priority, and the polled ones of a priority first. *)
Ordered(f) ==
  \A a, b \in Agents : a < b =>
    /\ f[a].prio <= f[b].prio
    /\ f[a].prio = f[b].prio /\ f[b].fbregint => f[a].fbregint

(* Three priorities, polled or not; and some that do not register. *)
MixedAccounts ==
  {f \in [Agents -> Kind] : Ordered(f) /\ f[1].prio = 0}

PolledAccounts ==
  {f \in MixedAccounts : \A a \in Agents : f[a].regint /\ f[a].fbregint}
=============================================================================

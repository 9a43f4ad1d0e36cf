----------------------------- MODULE CallProofs -----------------------------
(***************************************************************************)
(* Proofs about Call.tla, for every number of user agents, call objects,   *)
(* lines and calls allowed, and every kind of account.                     *)
(*                                                                         *)
(* The argument: every action of Call.tla leaves the lists alone (Inner),  *)
(* takes one call out (Leave), adds one (Enter) or reorders one list       *)
(* (Reorder), and each of the four preserves the inductive invariant IInv. *)
(* IInv is the type invariant, the line numbers, the limit on incoming     *)
(* calls and, for each object, the agreement of its state, its session,    *)
(* its timer and the last event (Sound): the timer needs the state, and    *)
(* the state needs the session, so none of them is inductive on its own.   *)
(***************************************************************************)
EXTENDS Call, SequenceTheorems, FiniteSetTheorems, TLAPS

Sound(r) ==
  /\ r.state = "ESTABLISHED" <=> r.sess = "estab"
  /\ r.state = "ESTABLISHED" <=> r.seen = "established"
  /\ r.tmr => r.state = "INCOMING" /\ r.sess \in {"incoming", "answered"}

IInv ==
  /\ TypeOK
  /\ LineNumbersUnique
  /\ \A c \in InUse : Sound(call[c])
  /\ IncomingWithinMax

-----------------------------------------------------------------------------
(* Lists of calls.                                                         *)

(* Unlinking a call moves those behind it one place up.                    *)
LEMMA UnlinkAt ==
  ASSUME NEW S, NEW s \in Seq(S), NEW c \in Range(s)
  PROVE  /\ Position(s, c) \in 1 .. Len(s) /\ s[Position(s, c)] = c
         /\ Unlink(s, c) \in Seq(S)
         /\ Len(Unlink(s, c)) = Len(s) - 1
         /\ \A i \in 1 .. Len(s) - 1 :
              Unlink(s, c)[i] = IF i < Position(s, c) THEN s[i] ELSE s[i + 1]
<1> DEFINE p == Position(s, c)
           n == Len(s)
           t == Unlink(s, c)
<1>1. p \in 1 .. n /\ s[p] = c
  BY DEF Position, Range
<1>2. /\ SubSeq(s, 1, p - 1) \in Seq(S)
      /\ Len(SubSeq(s, 1, p - 1)) = p - 1
      /\ \A i \in 1 .. p - 1 : SubSeq(s, 1, p - 1)[i] = s[i]
      /\ SubSeq(s, p + 1, n) \in Seq(S)
      /\ Len(SubSeq(s, p + 1, n)) = n - p
      /\ \A i \in 1 .. n - p : SubSeq(s, p + 1, n)[i] = s[i + p]
  BY <1>1
<1>3. t = SubSeq(s, 1, p - 1) \o SubSeq(s, p + 1, n)
  BY <1>1 DEF Unlink, RemoveAt
<1>4. /\ t \in Seq(S)
      /\ Len(t) = n - 1
      /\ \A i \in 1 .. n - 1 : t[i] = IF i < p THEN s[i] ELSE s[i + 1]
  <2> DEFINE a == SubSeq(s, 1, p - 1)
             b == SubSeq(s, p + 1, n)
  <2>1. /\ a \o b \in Seq(S)
        /\ Len(a \o b) = Len(a) + Len(b)
        /\ \A i \in 1 .. Len(a) + Len(b) :
             (a \o b)[i] = IF i <= Len(a) THEN a[i] ELSE b[i - Len(a)]
    BY <1>2, ConcatProperties
  <2>2. Len(a) = p - 1 /\ Len(b) = n - p /\ (p - 1) + (n - p) = n - 1
    BY <1>1, <1>2
  <2>3. /\ t \in Seq(S)
        /\ Len(t) = n - 1
        /\ \A i \in 1 .. n - 1 :
             t[i] = IF i <= p - 1 THEN a[i] ELSE b[i - (p - 1)]
    BY <2>1, <2>2, <1>3
  <2> HIDE DEF t, a, b
  <2>4. ASSUME NEW i \in 1 .. n - 1
        PROVE  t[i] = IF i < p THEN s[i] ELSE s[i + 1]
    <3>1. CASE i < p
      <4>1. i \in 1 .. p - 1 /\ i <= p - 1
        BY <3>1, <1>1
      <4> QED
        BY <4>1, <3>1, <2>3, <1>2 DEF a
    <3>2. CASE ~(i < p)
      <4>1. /\ ~(i <= p - 1)
            /\ i - (p - 1) \in 1 .. n - p
            /\ i - (p - 1) + p = i + 1
        BY <3>2, <1>1
      <4> QED
        BY <4>1, <3>2, <2>3, <1>2 DEF b
    <3> QED
      BY <3>1, <3>2
  <2> QED
    BY <2>3, <2>4
<1> QED
  BY <1>1, <1>4

(* call_set_current() and call_destructor() unlink a call: the others stay *)
(* in the list, each at one place.                                         *)
LEMMA UnlinkFacts ==
  ASSUME NEW S, NEW s \in Seq(S), IsInjective(s), NEW c \in Range(s)
  PROVE  /\ Unlink(s, c) \in Seq(S)
         /\ IsInjective(Unlink(s, c))
         /\ Range(Unlink(s, c)) = Range(s) \ {c}
<1> DEFINE p == Position(s, c)
           n == Len(s)
           t == Unlink(s, c)
<1>1. p \in 1 .. n /\ s[p] = c
  BY UnlinkAt
<1>2. /\ t \in Seq(S)
      /\ Len(t) = n - 1
      /\ \A i \in 1 .. n - 1 : t[i] = IF i < p THEN s[i] ELSE s[i + 1]
  BY UnlinkAt
<1> HIDE DEF p
<1>3. IsInjective(t)
  BY <1>1, <1>2 DEF IsInjective
<1>4. Range(t) \subseteq Range(s) \ {c}
  <2> HIDE DEF t
  <2> SUFFICES ASSUME NEW i \in 1 .. n - 1
               PROVE  t[i] \in Range(s) /\ t[i] # c
    BY <1>2 DEF Range
  <2>1. PICK j \in 1 .. n : t[i] = s[j] /\ j # p
    <3>1. CASE i < p
      BY <3>1, <1>1, <1>2
    <3>2. CASE ~(i < p)
      <4>1. i + 1 \in 1 .. n /\ i + 1 # p
        BY <3>2, <1>1
      <4> QED
        BY <4>1, <3>2, <1>2
    <3> QED
      BY <3>1, <3>2
  <2>2. s[j] \in Range(s)
    BY <1>1 DEF Range
  <2>3. s[j] # c
    BY <2>1, <1>1 DEF IsInjective
  <2> QED
    BY <2>1, <2>2, <2>3
<1>5. Range(s) \ {c} \subseteq Range(t)
  <2> SUFFICES ASSUME NEW j \in 1 .. n, s[j] # c
               PROVE  \E i \in 1 .. n - 1 : t[i] = s[j]
    BY <1>2 DEF Range
  <2>1. CASE j < p
    BY <2>1, <1>1, <1>2
  <2>2. CASE j > p
    <3>1. j - 1 \in 1 .. n - 1 /\ ~(j - 1 < p) /\ j - 1 + 1 = j
      BY <2>2, <1>1
    <3> QED
      BY <3>1, <1>2
  <2> QED
    BY <2>1, <2>2, <1>1
<1> QED
  BY <1>2, <1>3, <1>4, <1>5

(* call_alloc() appends the new call.                                      *)
LEMMA AppendFacts ==
  ASSUME NEW S, NEW s \in Seq(S), IsInjective(s), NEW c \in S,
         c \notin Range(s)
  PROVE  /\ Append(s, c) \in Seq(S)
         /\ IsInjective(Append(s, c))
         /\ Range(Append(s, c)) = Range(s) \cup {c}
         /\ Unlink(Append(s, c), c) = s
<1> DEFINE t == Append(s, c)
           n == Len(s)
<1>1. /\ t \in Seq(S)
      /\ Len(t) = n + 1
      /\ \A i \in 1 .. n + 1 : t[i] = IF i = n + 1 THEN c ELSE s[i]
  BY AppendProperties
<1>2. IsInjective(t)
  BY <1>1 DEF IsInjective, Range
<1>3. Range(t) = Range(s) \cup {c}
  BY <1>1 DEF Range
<1>4. Position(t, c) = n + 1
  BY <1>1 DEF Position, Range
<1>5. Unlink(t, c) = SubSeq(t, 1, n) \o SubSeq(t, n + 2, n + 1)
  BY <1>1, <1>4 DEF Unlink, RemoveAt
<1>6. SubSeq(t, 1, n) = s /\ SubSeq(t, n + 2, n + 1) = <<>>
  BY <1>1, SubSeqProperties
<1> QED
  BY <1>1, <1>2, <1>3, <1>5, <1>6

LEMMA LeastNatural ==
  ASSUME NEW T, T \subseteq Nat, T # {}
  PROVE  \E x \in T : \A y \in T : x <= y
<1> DEFINE R == OpToRel(<, Nat)
<1>1. IsWellFoundedOn(R, Nat)
  BY NatLessThanWellFounded
<1>2. \A x, y \in Nat : <<x, y>> \in R <=> x < y
  BY DEF OpToRel
<1> HIDE DEF R
<1>3. PICK x \in T : \A y \in T : ~ (<<y, x>> \in R)
  BY <1>1, WFMin
<1>4. \A y \in T : ~ (y < x)
  BY <1>2, <1>3, Zenon
<1> QED
  BY <1>4

(* resume_call() finds the call on hold nearest the tail: there is one.    *)
LEMMA MaxOfPlaces ==
  ASSUME NEW n \in Nat, NEW S, S \subseteq 1 .. n, S # {}
  PROVE  Max(S) \in S /\ \A i \in S : i <= Max(S)
<1> DEFINE T == {n - i : i \in S}
<1>1. T \subseteq Nat /\ T # {}
  <2>1. \A i \in S : i \in Nat /\ i <= n /\ n - i \in Nat
    OBVIOUS
  <2>2. PICK i \in S : TRUE
    OBVIOUS
  <2>3. n - i \in T
    OBVIOUS
  <2> QED
    BY <2>1, <2>3
<1>2. PICK x \in T : \A y \in T : x <= y
  <2> HIDE DEF T
  <2> QED
    BY <1>1, LeastNatural
<1>3. \E m \in S : \A i \in S : m >= i
  <2>1. PICK m \in S : x = n - m
    OBVIOUS
  <2>2. \A i \in S : n - m <= n - i
    BY <1>2, <2>1
  <2> QED
    BY <2>2
<1> QED
  BY <1>3 DEF Max

(* assign_linenum() finds the least free line when one is free.            *)
LEMMA AssignLinenum ==
  ASSUME NEW u \in UAs, FreeLines(u) # {}
  PROVE  assign_linenum(u) \in FreeLines(u)
<1>1. FreeLines(u) \subseteq Nat
  BY CallAssumption DEF FreeLines
<1>2. \E n \in FreeLines(u) : \A m \in FreeLines(u) : n <= m
  BY <1>1, LeastNatural
<1> QED
  BY <1>2 DEF assign_linenum

-----------------------------------------------------------------------------
(* The contents of call objects.                                           *)

(* What media and hold leave alone.                                        *)
Keeps(r, q) ==
  /\ q \in CallObject
  /\ q.state = r.state /\ q.line = r.line /\ q.sess = r.sess
  /\ q.tmr = r.tmr /\ q.wait = r.wait /\ q.seen = r.seen

LEMMA ZeroedType == Zeroed \in CallObject /\ Sound(Zeroed)
BY DEF Zeroed, CallObject, CallState, Session, Sound

LEMMA StreamStartKeeps ==
  ASSUME NEW m \in MnatKinds, NEW r \in CallObject
  PROVE  Keeps(r, call_stream_start(m, r))
BY DEF Keeps, call_stream_start, stream_is_ready, CallObject

LEMMA UpdateMediaKeeps ==
  ASSUME NEW m \in MnatKinds, NEW r \in CallObject
  PROVE  Keeps(r, update_media(m, r))
<1> DEFINE q == [r EXCEPT !.raddr = TRUE,
                   !.conn = IF m = "ice" /\ @ = "no" THEN "checks" ELSE @]
<1>1. q \in CallObject /\ Keeps(r, q)
  BY DEF Keeps, CallObject
<1>2. Keeps(q, call_stream_start(m, q))
  BY <1>1, StreamStartKeeps
<1> QED
  BY <1>1, <1>2 DEF update_media, Keeps

LEMMA HoldKeeps ==
  ASSUME NEW m \in MnatKinds, NEW r \in CallObject, NEW hold \in BOOLEAN
  PROVE  Keeps(r, HoldCall(m, r, hold))
<1> DEFINE q == [r EXCEPT !.hold = hold]
<1>1. q \in CallObject /\ Keeps(r, q)
  BY DEF Keeps, CallObject
<1>2. Keeps(q, update_media(m, q))
  BY <1>1, UpdateMediaKeeps
<1> QED
  BY <1>1, <1>2 DEF HoldCall, call_modify, Keeps

(* call_answer() changes the session at most.                              *)
LEMMA AnswerFacts ==
  ASSUME NEW m \in MnatKinds, NEW r \in CallObject,
         NEW q \in AnswerCall(m, r)
  PROVE  /\ q \in CallObject
         /\ q.state = r.state /\ q.line = r.line /\ q.tmr = r.tmr
         /\ q.wait = r.wait /\ q.seen = r.seen
         /\ q.sess = r.sess \/ q.sess = "answered"
<1> DEFINE p == update_media(m, r)
<1>1. Keeps(r, p)
  BY UpdateMediaKeeps
<1>2. q = p \/ q = [p EXCEPT !.sess = "answered"]
  BY DEF AnswerCall
<1> QED
  BY <1>1, <1>2 DEF Keeps, CallObject, Session

(* resume_call() changes the media of one call of the list.                *)
LEMMA ResumeKeeps ==
  ASSUME NEW m \in MnatKinds, NEW s \in Seq(Calls),
         NEW k \in [Calls -> CallObject]
  PROVE  /\ resume_call(m, s, k) \in [Calls -> CallObject]
         /\ \A c \in Calls : Keeps(k[c], resume_call(m, s, k)[c])
         /\ \A c \in Calls \ Range(s) : resume_call(m, s, k)[c] = k[c]
<1>1. \A c \in Calls : Keeps(k[c], k[c])
  BY DEF Keeps
<1>2. CASE OnHold(s, k) = {}
  BY <1>1, <1>2 DEF resume_call
<1>3. CASE OnHold(s, k) # {}
  <2> DEFINE i == Max(OnHold(s, k))
             d == s[i]
  <2>1. i \in 1 .. Len(s)
    <3>1. OnHold(s, k) \subseteq 1 .. Len(s)
      BY DEF OnHold
    <3> QED
      BY <3>1, <1>3, MaxOfPlaces
  <2>2. d \in Calls /\ d \in Range(s)
    BY <2>1 DEF Range
  <2>3. Keeps(k[d], HoldCall(m, k[d], FALSE))
    BY <2>2, HoldKeeps
  <2>4. resume_call(m, s, k) = [k EXCEPT ![d] = HoldCall(m, k[d], FALSE)]
    BY <1>3 DEF resume_call
  <2>5. HoldCall(m, k[d], FALSE) \in CallObject
    BY <2>3 DEF Keeps
  <2> HIDE DEF d
  <2> QED
    BY <1>1, <2>2, <2>3, <2>4, <2>5
<1> QED
  BY <1>2, <1>3

-----------------------------------------------------------------------------
(* The four ways a step can go, and why each preserves the invariant.      *)

Settled(r, q) ==
  /\ q \in CallObject /\ Sound(q)
  /\ q.line = r.line
  /\ q.state = "INCOMING" => r.state = "INCOMING"

Inner ==
  /\ calls' = calls
  /\ call' \in [Calls -> CallObject]
  /\ \A d \in Free : call'[d] = call[d]
  /\ \A d \in InUse : Settled(call[d], call'[d])

Leave(u, c) ==
  /\ c \in Live(u)
  /\ calls' = [calls EXCEPT ![u] = Unlink(@, c)]
  /\ call' \in [Calls -> CallObject]
  /\ call'[c] = Zeroed
  /\ \A d \in Free : call'[d] = call[d]
  /\ \A d \in InUse \ {c} : Settled(call[d], call'[d])

Enter(u, c, r) ==
  /\ c \in Free
  /\ FreeLines(u) # {}
  /\ calls' = [calls EXCEPT ![u] = Append(@, c)]
  /\ call' = [call EXCEPT ![c] = r]
  /\ r \in CallObject /\ Sound(r) /\ r.line = assign_linenum(u)
  /\ r.state = "INCOMING" /\ MaxCalls > 0 => uag_call_count + 1 <= MaxCalls

Reorder(u, c) ==
  /\ c \in Live(u)
  /\ calls' = [calls EXCEPT ![u] = Append(Unlink(@, c), c)]
  /\ UNCHANGED call

Shaped ==
  \/ Inner
  \/ \E u \in UAs : \E c \in Calls : Leave(u, c)
  \/ \E u \in UAs : \E c \in Calls : \E r \in CallObject : Enter(u, c, r)
  \/ \E u \in UAs : \E c \in Calls : Reorder(u, c)

Incoming == {c \in InUse : call[c].state = "INCOMING"}

LEMMA KeepsSettled ==
  ASSUME NEW r, NEW q, Sound(r), Keeps(r, q)
  PROVE  Settled(r, q)
BY DEF Sound, Keeps, Settled

LEMMA LiveInCalls ==
  ASSUME TypeOK
  PROVE  /\ \A u \in UAs : calls[u] \in Seq(Calls) /\ Live(u) \subseteq Calls
         /\ InUse \subseteq Calls
         /\ IsFiniteSet(InUse) /\ IsFiniteSet(Incoming)
<1>1. \A u \in UAs : calls[u] \in Seq(Calls)
  BY DEF TypeOK
<1>2. \A u \in UAs : Live(u) \subseteq Calls
  BY <1>1, RangeOfSeq DEF Live
<1>3. InUse \subseteq Calls /\ Incoming \subseteq Calls
  BY <1>2 DEF InUse, Incoming
<1> QED
  BY <1>1, <1>2, <1>3, CallAssumption, FS_Subset

LEMMA FewerIncoming ==
  ASSUME IInv, Incoming' \subseteq Incoming
  PROVE  IncomingWithinMax'
<1>1. IsFiniteSet(Incoming)
  BY LiveInCalls DEF IInv
<1>2. Cardinality(Incoming') <= Cardinality(Incoming)
  BY <1>1, FS_Subset
<1>3. Cardinality(Incoming') \in Nat /\ Cardinality(Incoming) \in Nat
  BY <1>1, FS_Subset, FS_CardinalityType
<1> QED
  BY <1>2, <1>3, CallAssumption DEF IInv, IncomingWithinMax, Incoming

LEMMA InnerPreserves ==
  ASSUME IInv, Inner, UNCHANGED acc
  PROVE  IInv'
<1>1. /\ \A u \in UAs : Live(u)' = Live(u)
      /\ InUse' = InUse
      /\ Free' = Free
  BY DEF Inner, Live, InUse, Free
<1>2. TypeOK'
  BY <1>1 DEF IInv, TypeOK, Inner
<1>3. LineNumbersUnique'
  BY <1>1 DEF IInv, LineNumbersUnique, Inner, Settled, InUse
<1>4. \A c \in InUse' : Sound(call'[c])
  BY <1>1 DEF Inner, Settled
<1>5. IncomingWithinMax'
  <2>1. Incoming' \subseteq Incoming
    BY <1>1 DEF Incoming, Inner, Settled
  <2> QED
    BY <2>1, FewerIncoming
<1> QED
  BY <1>2, <1>3, <1>4, <1>5 DEF IInv

LEMMA LeavePreserves ==
  ASSUME IInv, NEW u \in UAs, NEW c \in Calls, Leave(u, c), UNCHANGED acc
  PROVE  IInv'
<1>1. calls[u] \in Seq(Calls) /\ IsInjective(calls[u]) /\ c \in Range(calls[u])
  BY DEF IInv, TypeOK, Leave, Live
<1>2. /\ Unlink(calls[u], c) \in Seq(Calls)
      /\ IsInjective(Unlink(calls[u], c))
      /\ Range(Unlink(calls[u], c)) = Live(u) \ {c}
  BY <1>1, UnlinkFacts DEF Live
<1>3. /\ calls' \in [UAs -> Seq(Calls)]
      /\ \A v \in UAs : IsInjective(calls'[v])
      /\ Live(u)' = Live(u) \ {c}
      /\ \A v \in UAs \ {u} : Live(v)' = Live(v)
  BY <1>2 DEF IInv, TypeOK, Leave, Live
<1>4. \A v, w \in UAs : v # w => Live(v) \cap Live(w) = {}
  BY DEF IInv, TypeOK
<1>5. /\ \A v \in UAs : Live(v)' \subseteq Live(v) /\ c \notin Live(v)'
      /\ InUse' = InUse \ {c}
      /\ Free' = Free \cup {c}
  BY <1>3, <1>4 DEF Leave, InUse, Free
<1>6. TypeOK'
  BY <1>3, <1>4, <1>5 DEF IInv, TypeOK, Leave
<1>7. LineNumbersUnique'
  BY <1>5 DEF IInv, LineNumbersUnique, Leave, Settled, InUse
<1>8. \A d \in InUse' : Sound(call'[d])
  BY <1>5 DEF Leave, Settled
<1>9. IncomingWithinMax'
  <2>1. Incoming' \subseteq Incoming
    BY <1>5 DEF Incoming, Leave, Settled
  <2> QED
    BY <2>1, FewerIncoming
<1> QED
  BY <1>6, <1>7, <1>8, <1>9 DEF IInv

LEMMA EnterPreserves ==
  ASSUME IInv, NEW u \in UAs, NEW c \in Calls, NEW r \in CallObject,
         Enter(u, c, r), UNCHANGED acc
  PROVE  IInv'
<1>1. calls[u] \in Seq(Calls) /\ IsInjective(calls[u]) /\ c \notin Range(calls[u])
  BY DEF IInv, TypeOK, Enter, Free, InUse, Live
<1>2. /\ Append(calls[u], c) \in Seq(Calls)
      /\ IsInjective(Append(calls[u], c))
      /\ Range(Append(calls[u], c)) = Live(u) \cup {c}
  BY <1>1, AppendFacts DEF Live
<1>3. /\ calls' \in [UAs -> Seq(Calls)]
      /\ \A v \in UAs : IsInjective(calls'[v])
      /\ Live(u)' = Live(u) \cup {c}
      /\ \A v \in UAs \ {u} : Live(v)' = Live(v)
  BY <1>2 DEF IInv, TypeOK, Enter, Live
<1>4. /\ c \notin InUse
      /\ InUse' = InUse \cup {c}
      /\ Free' = Free \ {c}
  BY <1>3 DEF Enter, InUse, Free
<1>5. /\ call' \in [Calls -> CallObject]
      /\ call'[c] = r
      /\ \A d \in Calls \ {c} : call'[d] = call[d]
  BY DEF IInv, TypeOK, Enter
<1>6. TypeOK'
  <2>1. \A v, w \in UAs : v # w => Live(v)' \cap Live(w)' = {}
    <3>1. \A v \in UAs : c \notin Live(v)
      BY <1>4 DEF InUse
    <3>2. \A v, w \in UAs : v # w => Live(v) \cap Live(w) = {}
      BY DEF IInv, TypeOK
    <3> QED
      BY <1>3, <3>1, <3>2
  <2> QED
    BY <1>3, <1>4, <1>5, <2>1 DEF IInv, TypeOK, Free
<1>7. LineNumbersUnique'
  <2>1. assign_linenum(u) \in 1 .. LineMax - 1
    BY AssignLinenum DEF FreeLines, Enter
  <2>2. \A d \in Live(u) : call[d].line # assign_linenum(u)
    BY AssignLinenum DEF FreeLines, call_find_linenum, Enter
  <2>3. \A v \in UAs : Live(v) \subseteq Calls \ {c}
    BY <1>4, LiveInCalls DEF IInv, InUse
  <2> QED
    BY <1>3, <1>5, <2>1, <2>2, <2>3 DEF IInv, LineNumbersUnique, Enter
<1>8. \A d \in InUse' : Sound(call'[d])
  BY <1>4, <1>5, LiveInCalls DEF IInv, Enter
<1>9. IncomingWithinMax'
  <2>1. CASE r.state # "INCOMING"
    <3>1. Incoming' \subseteq Incoming
      BY <2>1, <1>4, <1>5, LiveInCalls DEF Incoming, IInv
    <3> QED
      BY <3>1, FewerIncoming
  <2>2. CASE r.state = "INCOMING"
    <3>1. Incoming' \subseteq InUse \cup {c}
      BY <1>4 DEF Incoming
    <3>2. IsFiniteSet(InUse)
      BY LiveInCalls DEF IInv
    <3>3. /\ IsFiniteSet(InUse \cup {c})
          /\ Cardinality(InUse \cup {c}) = Cardinality(InUse) + 1
      BY <3>2, <1>4, FS_AddElement
    <3>4. Cardinality(Incoming') <= Cardinality(InUse) + 1
      BY <3>1, <3>3, FS_Subset
    <3>5. Cardinality(Incoming') \in Nat /\ Cardinality(InUse) \in Nat
      BY <3>1, <3>2, <3>3, FS_Subset, FS_CardinalityType
    <3> QED
      BY <2>2, <3>4, <3>5, CallAssumption
         DEF IncomingWithinMax, Incoming, Enter, uag_call_count
  <2> QED
    BY <2>1, <2>2
<1> QED
  BY <1>6, <1>7, <1>8, <1>9 DEF IInv

LEMMA ReorderPreserves ==
  ASSUME IInv, NEW u \in UAs, NEW c \in Calls, Reorder(u, c), UNCHANGED acc
  PROVE  IInv'
<1> DEFINE s == Unlink(calls[u], c)
<1>1. calls[u] \in Seq(Calls) /\ IsInjective(calls[u]) /\ c \in Range(calls[u])
  BY DEF IInv, TypeOK, Reorder, Live
<1>2. s \in Seq(Calls) /\ IsInjective(s) /\ Range(s) = Live(u) \ {c}
  BY <1>1, UnlinkFacts DEF Live
<1>3. /\ Append(s, c) \in Seq(Calls)
      /\ IsInjective(Append(s, c))
      /\ Range(Append(s, c)) = Range(s) \cup {c}
  BY <1>2, AppendFacts
<1>4. /\ calls' \in [UAs -> Seq(Calls)]
      /\ \A v \in UAs : IsInjective(calls'[v]) /\ Live(v)' = Live(v)
  BY <1>2, <1>3 DEF IInv, TypeOK, Reorder, Live
<1>5. InUse' = InUse /\ Free' = Free /\ call' = call
  BY <1>4 DEF InUse, Free, Reorder
<1>6. Incoming' = Incoming
  BY <1>5 DEF Incoming
<1>7. TypeOK' /\ LineNumbersUnique' /\ IncomingWithinMax'
  BY <1>4, <1>5, <1>6, FewerIncoming DEF IInv, TypeOK, LineNumbersUnique
<1> QED
  BY <1>5, <1>7 DEF IInv

LEMMA ShapedPreserves ==
  ASSUME IInv, Shaped, UNCHANGED acc
  PROVE  IInv'
BY InnerPreserves, LeavePreserves, EnterPreserves, ReorderPreserves DEF Shaped

-----------------------------------------------------------------------------
(* Each action has one of the four shapes.                                 *)

LEMMA LiveFacts ==
  ASSUME IInv, NEW u \in UAs, NEW c \in Live(u)
  PROVE  /\ c \in InUse /\ c \in Calls
         /\ call[c] \in CallObject /\ Sound(call[c])
         /\ acc[u].mnat \in MnatKinds
         /\ calls[u] \in Seq(Calls) /\ IsInjective(calls[u])
<1>1. c \in InUse
  BY DEF InUse
<1>2. TypeOK
  BY DEF IInv
<1> QED
  BY <1>1, <1>2, LiveInCalls DEF IInv, TypeOK, Account

LEMMA SettledSelf ==
  ASSUME IInv, NEW d \in InUse
  PROVE  d \in Calls /\ call[d] \in CallObject /\ Settled(call[d], call[d])
<1>1. d \in Calls /\ call[d] \in CallObject
  BY LiveInCalls DEF IInv, TypeOK
<1> QED
  BY <1>1 DEF IInv, Settled

(* A callback that changes the contents of one object.                     *)
LEMMA OneCall ==
  ASSUME IInv, NEW u \in UAs, NEW c \in Live(u), NEW q,
         Settled(call[c], q),
         calls' = calls, call' = [call EXCEPT ![c] = q]
  PROVE  Shaped
<1>1. c \in InUse /\ c \in Calls
  BY LiveFacts
<1>2. call \in [Calls -> CallObject] /\ q \in CallObject
  BY DEF IInv, TypeOK, Settled
<1>3. call' \in [Calls -> CallObject]
  BY <1>2
<1>4. \A d \in Free : call'[d] = call[d]
  BY <1>1, <1>2 DEF Free
<1>5. \A d \in InUse : Settled(call[d], call'[d])
  BY <1>1, <1>2, SettledSelf
<1> QED
  BY <1>3, <1>4, <1>5 DEF Shaped, Inner

(* A callback that ends a call: the object is freed, one on hold resumed.  *)
LEMMA CloseShape ==
  ASSUME IInv, NEW u \in UAs, NEW c \in Live(u), CloseCall(u, c)
  PROVE  Shaped
<1> DEFINE s == Unlink(calls[u], c)
           k == [call EXCEPT ![c] = Zeroed]
<1>1. /\ c \in Calls /\ c \in InUse /\ acc[u].mnat \in MnatKinds
      /\ calls[u] \in Seq(Calls) /\ IsInjective(calls[u])
  BY LiveFacts
<1>2. s \in Seq(Calls) /\ Range(s) = Live(u) \ {c}
  BY <1>1, UnlinkFacts DEF Live
<1>3. /\ k \in [Calls -> CallObject]
      /\ k[c] = Zeroed
      /\ \A d \in Calls \ {c} : k[d] = call[d]
  BY <1>1, ZeroedType DEF IInv, TypeOK
<1>4. calls' = [calls EXCEPT ![u] = s] /\ call' = resume_call(acc[u].mnat, s, k)
  BY DEF CloseCall
<1> HIDE DEF s, k
<1>5. /\ call' \in [Calls -> CallObject]
      /\ \A d \in Calls : Keeps(k[d], call'[d])
      /\ \A d \in Calls \ Range(s) : call'[d] = k[d]
  BY <1>1, <1>2, <1>3, <1>4, ResumeKeeps
<1>6. call'[c] = Zeroed
  BY <1>1, <1>2, <1>3, <1>5
<1>7. \A d \in Free : call'[d] = call[d]
  BY <1>1, <1>2, <1>3, <1>5 DEF Free, InUse
<1>8. \A d \in InUse \ {c} : Settled(call[d], call'[d])
  BY <1>3, <1>5, SettledSelf, KeepsSettled DEF IInv
<1>9. Leave(u, c)
  BY <1>4, <1>5, <1>6, <1>7, <1>8 DEF Leave, s
<1> QED
  BY <1>1, <1>9 DEF Shaped

LEMMA DestructorShape ==
  ASSUME IInv, NEW u \in UAs, NEW c \in Live(u), call_destructor(u, c)
  PROVE  Shaped
<1>1. c \in Calls /\ c \in InUse
  BY LiveFacts
<1>2. /\ call' \in [Calls -> CallObject]
      /\ call'[c] = Zeroed
      /\ \A d \in Calls \ {c} : call'[d] = call[d]
  BY <1>1, ZeroedType DEF IInv, TypeOK, call_destructor
<1>3. Leave(u, c)
  BY <1>1, <1>2, SettledSelf DEF Leave, call_destructor, Free
<1> QED
  BY <1>1, <1>3 DEF Shaped

(* What CALL_EVENT_INCOMING makes of a call that is still ringing.         *)
LEMMA IncomingOutcome ==
  ASSUME NEW u \in UAs, NEW c \in Calls, NEW s, NEW r \in CallObject,
         acc[u].mnat \in MnatKinds,
         Sound(r), r.state = "INCOMING",
         IncomingEvent(u, c, s, r)
  PROVE  \/ /\ calls' = [calls EXCEPT ![u] = Unlink(s, c)]
            /\ call' = [call EXCEPT ![c] = Zeroed]
         \/ /\ calls' = [calls EXCEPT ![u] = s]
            /\ \E q \in CallObject :
                 Settled(r, q) /\ call' = [call EXCEPT ![c] = q]
<1> DEFINE announced == [r EXCEPT !.seen = "incoming"]
           early == [r EXCEPT !.tmr = FALSE]
           started == call_stream_start(acc[u].mnat, early)
<1>1. announced \in CallObject /\ Settled(r, announced)
  BY DEF CallObject, Sound, Settled
<1>2. early \in CallObject /\ Settled(r, early)
  BY DEF CallObject, Sound, Settled
<1>3. started \in CallObject /\ Settled(r, started)
  <2>1. Keeps(early, started)
    BY <1>2, StreamStartKeeps
  <2> QED
    BY <1>2, <2>1 DEF Keeps, Settled, Sound
<1>4. ASSUME NEW q \in AnswerCall(acc[u].mnat, r)
      PROVE  q \in CallObject /\ Settled(r, q)
  BY AnswerFacts DEF Sound, Settled
<1> HIDE DEF announced, started, early
<1>5. \/ /\ calls' = [calls EXCEPT ![u] = Unlink(s, c)]
         /\ call' = [call EXCEPT ![c] = Zeroed]
      \/ /\ calls' = [calls EXCEPT ![u] = s]
         /\ \/ call' = [call EXCEPT ![c] = announced]
            \/ call' = [call EXCEPT ![c] = early]
            \/ call' = [call EXCEPT ![c] = started]
            \/ \E q \in AnswerCall(acc[u].mnat, r) :
                 call' = [call EXCEPT ![c] = q]
  BY DEF IncomingEvent, announced, early, started
<1> QED
  BY <1>1, <1>2, <1>3, <1>4, <1>5

LEMMA NewCallFacts ==
  ASSUME NEW u \in UAs, FreeLines(u) # {}
  PROVE  /\ NewCall(u) \in CallObject /\ Sound(NewCall(u))
         /\ NewCall(u).line = assign_linenum(u)
         /\ ~NewCall(u).tmr /\ NewCall(u).seen = "none"
<1>1. assign_linenum(u) \in Nat
  BY AssignLinenum, CallAssumption DEF FreeLines
<1> QED
  BY <1>1, ZeroedType DEF NewCall, Zeroed, CallObject, Sound

LEMMA ConnectShape ==
  ASSUME IInv, NEW u \in UAs, ua_connect(u)
  PROVE  Shaped
<1> DEFINE r == call_connect(u)
<1>1. PICK c \in Free :
        /\ calls' = [calls EXCEPT ![u] = Append(@, c)]
        /\ call' = [call EXCEPT ![c] = r]
  BY DEF ua_connect
<1>2. FreeLines(u) # {}
  BY DEF ua_connect
<1>3. /\ r \in CallObject /\ Sound(r) /\ r.line = assign_linenum(u)
      /\ r.state = "OUTGOING"
  BY <1>2, NewCallFacts DEF call_connect, CallObject, CallState, Session, Sound
<1> HIDE DEF r
<1>4. c \in Calls
  BY DEF Free
<1>5. Enter(u, c, r)
  BY <1>1, <1>2, <1>3 DEF Enter
<1> QED
  BY <1>3, <1>4, <1>5 DEF Shaped

LEMMA AnswerShape ==
  ASSUME IInv, NEW u \in UAs, NEW c \in Live(u), ua_answer(u, c)
  PROVE  Shaped
<1>1. PICK q \in AnswerCall(acc[u].mnat, call[c]) :
        call' = [call EXCEPT ![c] = q]
  BY DEF ua_answer
<1>2. Settled(call[c], q)
  BY LiveFacts, AnswerFacts DEF ua_answer, Settled, Sound
<1> QED
  BY <1>1, <1>2, OneCall DEF ua_answer

LEMMA HoldShape ==
  ASSUME IInv, NEW u \in UAs, NEW c \in Live(u), NEW hold \in BOOLEAN,
         call_hold(u, c, hold)
  PROVE  Shaped
<1>1. Settled(call[c], HoldCall(acc[u].mnat, call[c], hold))
  BY LiveFacts, HoldKeeps, KeepsSettled
<1> QED
  BY <1>1, OneCall DEF call_hold

LEMMA ReorderShape ==
  ASSUME IInv, NEW u \in UAs, NEW c \in Live(u), call_set_current(u, c)
  PROVE  Shaped
<1>1. c \in Calls
  BY LiveFacts
<1> QED
  BY <1>1 DEF Shaped, Reorder, call_set_current

LEMMA TransferShape ==
  ASSUME IInv, NEW u \in UAs, NEW c \in Live(u), call_transfer(u, c)
  PROVE  Shaped
<1>1. PICK b \in BOOLEAN : call' = [call EXCEPT ![c].sub = b]
  BY DEF call_transfer
<1>2. Settled(call[c], [call[c] EXCEPT !.sub = b])
  BY LiveFacts DEF Settled, Sound, CallObject
<1>3. call' = [call EXCEPT ![c] = [call[c] EXCEPT !.sub = b]]
  BY <1>1
<1> QED
  BY <1>2, <1>3, OneCall DEF call_transfer

(* ua_hold_answer(): the previous call of the list may change, and the     *)
(* current one.                                                            *)
LEMMA HoldAnswerShape ==
  ASSUME IInv, NEW u \in UAs, ua_hold_answer(u)
  PROVE  Shaped
<1> DEFINE s == calls[u]
           n == Len(s)
           m == acc[u].mnat
           k == IF n < 2 THEN call
                ELSE [call EXCEPT ![s[n-1]] = HoldCall(m, @, TRUE)]
<1>1. s \in Seq(Calls) /\ n \in Nat /\ n > 0
  BY DEF IInv, TypeOK, ua_hold_answer
<1>2. s[n] \in Live(u) /\ (n > 1 => s[n-1] \in Live(u))
  BY <1>1 DEF Live, Range
<1>3. m \in MnatKinds
  BY <1>2, LiveFacts
<1>4. /\ k \in [Calls -> CallObject]
      /\ \A d \in Free : k[d] = call[d]
      /\ \A d \in InUse : Settled(call[d], k[d])
  <2>1. CASE n < 2
    BY <2>1, SettledSelf DEF IInv, TypeOK
  <2>2. CASE ~(n < 2)
    <3> DEFINE p == s[n-1]
    <3>1. p \in Live(u)
      BY <1>1, <1>2, <2>2
    <3>2. Settled(call[p], HoldCall(m, call[p], TRUE)) /\ p \in InUse /\ p \in Calls
      BY <1>3, <3>1, LiveFacts, HoldKeeps, KeepsSettled
    <3>3. k = [call EXCEPT ![p] = HoldCall(m, call[p], TRUE)]
      BY <2>2
    <3> HIDE DEF p, k
    <3> QED
      BY <3>2, <3>3, SettledSelf DEF IInv, TypeOK, Settled, Free
  <2> QED
    BY <2>1, <2>2
<1>5. /\ calls' = calls
      /\ \/ call' = k
         \/ /\ k[s[n]].state = "INCOMING"
            /\ \E q \in AnswerCall(m, k[s[n]]) : call' = [k EXCEPT ![s[n]] = q]
  BY DEF ua_hold_answer
<1> HIDE DEF k
<1>6. CASE call' = k
  BY <1>4, <1>5, <1>6 DEF Shaped, Inner
<1>7. ASSUME k[s[n]].state = "INCOMING",
             NEW q \in AnswerCall(m, k[s[n]]), call' = [k EXCEPT ![s[n]] = q]
      PROVE  Shaped
  <2> DEFINE c == s[n]
  <2>1. c \in InUse /\ c \in Calls
    BY <1>2, LiveFacts
  <2>2. k[c] \in CallObject /\ Sound(k[c]) /\ Settled(call[c], k[c])
    BY <1>4, <2>1 DEF Settled
  <2>3. Settled(call[c], q)
    <3>1. /\ q \in CallObject
          /\ q.state = k[c].state /\ q.line = k[c].line /\ q.tmr = k[c].tmr
          /\ q.seen = k[c].seen
          /\ q.sess = k[c].sess \/ q.sess = "answered"
      BY <1>3, <2>2, AnswerFacts
    <3> QED
      BY <1>7, <2>2, <3>1 DEF Settled, Sound
  <2>4. call' \in [Calls -> CallObject] /\ call'[c] = q
    BY <1>4, <1>7, <2>1, <2>3 DEF Settled
  <2>5. \A d \in Calls \ {c} : call'[d] = k[d]
    BY <1>4, <1>7
  <2> HIDE DEF c
  <2>6. \A d \in Free : call'[d] = call[d]
    BY <1>4, <2>1, <2>5 DEF Free
  <2>7. \A d \in InUse : Settled(call[d], call'[d])
    BY <1>4, <2>3, <2>4, <2>5, SettledSelf
  <2> QED
    BY <1>5, <2>4, <2>6, <2>7 DEF Shaped, Inner
<1> QED
  BY <1>5, <1>6, <1>7

(* uag_reset_transp() modifies the media of every call.                    *)
LEMMA ResetShape ==
  ASSUME IInv, uag_reset_transp
  PROVE  Shaped
<1> DEFINE owner(c) == CHOOSE u \in UAs : c \in Live(u)
<1>1. \A d \in Calls :
        call'[d] = IF \E u \in UAs : d \in Live(u)
                   THEN call_modify(acc[owner(d)].mnat, call[d])
                   ELSE call[d]
  BY DEF uag_reset_transp
<1>2. DOMAIN call' = Calls /\ calls' = calls
  BY DEF uag_reset_transp
<1>3. ASSUME NEW d \in InUse
      PROVE  d \in Calls /\ Settled(call[d], call'[d])
  <2>1. PICK u \in UAs : d \in Live(u)
    BY DEF InUse
  <2>2. owner(d) \in UAs /\ d \in Live(owner(d))
    BY <2>1
  <2> HIDE DEF owner
  <2>3. /\ d \in Calls /\ call[d] \in CallObject /\ Sound(call[d])
        /\ acc[owner(d)].mnat \in MnatKinds
    BY <2>2, LiveFacts
  <2>4. Keeps(call[d], update_media(acc[owner(d)].mnat, call[d]))
    BY <2>3, UpdateMediaKeeps
  <2>5. call'[d] = update_media(acc[owner(d)].mnat, call[d])
    BY <1>1, <2>1, <2>3 DEF call_modify
  <2> QED
    BY <2>3, <2>4, <2>5, KeepsSettled
<1>4. \A d \in Free : call'[d] = call[d] /\ call'[d] \in CallObject
  BY <1>1 DEF Free, InUse, IInv, TypeOK
<1>5. \A d \in Calls : call'[d] \in CallObject
  BY <1>3, <1>4 DEF Settled, Free
<1>6. call' = [d \in Calls |-> call'[d]]
  BY <1>2 DEF uag_reset_transp
<1>7. call' \in [Calls -> CallObject]
  BY <1>5, <1>6
<1> QED
  BY <1>2, <1>3, <1>4, <1>7 DEF Shaped, Inner

(* The callbacks of the SIP session that may leave the call alive.         *)
LEMMA ProgressShape ==
  ASSUME IInv, NEW u \in UAs, NEW c \in Live(u),
         NEW scode \in Provisional, NEW sdp \in BOOLEAN,
         sipsess_progr_handler(u, c, scode, sdp)
  PROVE  Shaped
<1> DEFINE m == acc[u].mnat
           r == [call_stream_stop(call[c]) EXCEPT
                   !.state = CASE scode = 180 -> "RINGING"
                               [] scode = 183 -> "EARLY"
                               [] OTHER       -> @,
                   !.rsdp = @ \/ sdp,
                   !.seen = IF sdp THEN "progress" ELSE "ringing"]
           p == call_stream_start(m, r)
           q == IF sdp THEN update_media(m, p) ELSE r
<1>1. /\ call[c] \in CallObject /\ Sound(call[c]) /\ m \in MnatKinds
      /\ call[c].sess = "calling"
  BY LiveFacts DEF sipsess_progr_handler
<1>2. r \in CallObject /\ Settled(call[c], r)
  <2> DEFINE st == CASE scode = 180 -> "RINGING"
                     [] scode = 183 -> "EARLY"
                     [] OTHER       -> call[c].state
  <2>1. st \in {"RINGING", "EARLY", call[c].state}
    OBVIOUS
  <2>2. r = [call[c] EXCEPT !.media = FALSE, !.tmr = FALSE, !.state = st,
                            !.rsdp = @ \/ sdp,
                            !.seen = IF sdp THEN "progress" ELSE "ringing"]
    BY DEF call_stream_stop
  <2> HIDE DEF st, r
  <2>3. /\ r \in CallObject
        /\ r.state = st /\ r.sess = "calling" /\ r.tmr = FALSE
        /\ r.line = call[c].line /\ r.seen \in {"progress", "ringing"}
    BY <1>1, <2>1, <2>2 DEF CallObject, CallState
  <2> QED
    BY <1>1, <2>1, <2>3 DEF Sound, Settled
<1>6. calls' = calls /\ call' = [call EXCEPT ![c] = q]
  BY DEF sipsess_progr_handler
<1> HIDE DEF r
<1>3. Keeps(r, p)
  BY <1>1, <1>2, StreamStartKeeps
<1>4. Keeps(p, update_media(m, p))
  BY <1>1, <1>3, UpdateMediaKeeps DEF Keeps
<1>5. Settled(call[c], q)
  BY <1>2, <1>3, <1>4 DEF Keeps, Settled, Sound
<1> HIDE DEF p, q
<1> QED
  BY <1>5, <1>6, OneCall

LEMMA EstabShape ==
  ASSUME IInv, NEW u \in UAs, NEW c \in Live(u), sipsess_estab_handler(u, c)
  PROVE  Shaped
<1> DEFINE m == acc[u].mnat
           q == IF call[c].sess = "answered" /\ call[c].rsdp THEN call[c]
                ELSE update_media(m, [call[c] EXCEPT !.rsdp = TRUE])
           p == call_stream_start(m, q)
           e == [p EXCEPT !.state = "ESTABLISHED", !.sess = "estab",
                          !.tmr = FALSE, !.seen = "established"]
<1>1. call[c] \in CallObject /\ Sound(call[c]) /\ m \in MnatKinds
  BY LiveFacts
<1>2. Keeps(call[c], q)
  <2> DEFINE r == [call[c] EXCEPT !.rsdp = TRUE]
  <2>1. r \in CallObject /\ Keeps(call[c], r)
    BY <1>1 DEF Keeps, CallObject
  <2>2. Keeps(r, update_media(m, r))
    BY <1>1, <2>1, UpdateMediaKeeps
  <2> QED
    BY <1>1, <2>1, <2>2 DEF Keeps
<1> HIDE DEF q
<1>3. Keeps(q, p)
  BY <1>1, <1>2, StreamStartKeeps DEF Keeps
<1> HIDE DEF p
<1>4. Settled(call[c], e)
  <2>1. p \in CallObject /\ p.line = call[c].line
    BY <1>2, <1>3 DEF Keeps
  <2>2. /\ e \in CallObject
        /\ e.state = "ESTABLISHED" /\ e.sess = "estab" /\ e.tmr = FALSE
        /\ e.seen = "established" /\ e.line = p.line
    BY <2>1 DEF CallObject, CallState, Session
  <2> HIDE DEF e
  <2> QED
    BY <2>1, <2>2 DEF Settled, Sound
<1>5. calls' = calls /\ (call' = call \/ call' = [call EXCEPT ![c] = e])
  BY DEF sipsess_estab_handler, q, p
<1> HIDE DEF e
<1>6. CASE call' = call
  BY <1>5, <1>6, SettledSelf DEF Shaped, Inner, IInv, TypeOK
<1>7. CASE call' = [call EXCEPT ![c] = e]
  BY <1>4, <1>5, <1>7, OneCall
<1> QED
  BY <1>5, <1>6, <1>7

LEMMA OfferShape ==
  ASSUME IInv, NEW u \in UAs, NEW c \in Live(u), sipsess_offer_handler(u, c)
  PROVE  Shaped
<1> DEFINE r == [call[c] EXCEPT !.rsdp = TRUE]
           q == update_media(acc[u].mnat, r)
<1>1. /\ call[c] \in CallObject /\ Sound(call[c])
      /\ acc[u].mnat \in MnatKinds
  BY LiveFacts
<1>2. r \in CallObject /\ Keeps(call[c], r)
  BY <1>1 DEF Keeps, CallObject
<1>3. Keeps(r, q)
  BY <1>1, <1>2, UpdateMediaKeeps
<1>4. Settled(call[c], q)
  BY <1>1, <1>2, <1>3, KeepsSettled DEF Keeps
<1>5. calls' = calls /\ call' = [call EXCEPT ![c] = q]
  BY DEF sipsess_offer_handler
<1> HIDE DEF q
<1> QED
  BY <1>4, <1>5, OneCall

LEMMA MnatConnShape ==
  ASSUME IInv, NEW u \in UAs, NEW c \in Live(u), stream_mnatconn_handler(u, c)
  PROVE  Shaped
<1> DEFINE r == [call[c] EXCEPT !.conn = "yes"]
           q == call_stream_start(acc[u].mnat, r)
<1>1. /\ call[c] \in CallObject /\ Sound(call[c])
      /\ acc[u].mnat \in MnatKinds
  BY LiveFacts
<1>2. r \in CallObject /\ Keeps(call[c], r)
  BY <1>1 DEF Keeps, CallObject
<1>3. Keeps(r, q)
  BY <1>1, <1>2, StreamStartKeeps
<1>4. Settled(call[c], q)
  BY <1>1, <1>2, <1>3, KeepsSettled DEF Keeps
<1>5. calls' = calls /\ call' = [call EXCEPT ![c] = q]
  BY DEF stream_mnatconn_handler
<1> HIDE DEF q
<1> QED
  BY <1>4, <1>5, OneCall

(* The end of gathering or of the ICE checks.                              *)
LEMMA MnatShape ==
  ASSUME IInv, NEW u \in UAs, NEW c \in Live(u), mnat_handler(u, c)
  PROVE  Shaped
<1> DEFINE r == [call[c] EXCEPT !.wait = FALSE]
<1>1. /\ c \in Calls /\ c \in InUse
      /\ call[c] \in CallObject /\ Sound(call[c])
      /\ acc[u].mnat \in MnatKinds
      /\ calls[u] \in Seq(Calls)
  BY LiveFacts
<1>2. /\ r \in CallObject /\ Settled(call[c], r) /\ r.state = call[c].state
      /\ r.tmr = call[c].tmr /\ r.seen = call[c].seen
  BY <1>1 DEF Settled, Sound, CallObject
<1> HIDE DEF r
<1>3. \/ CloseCall(u, c)
      \/ /\ calls' = calls
         /\ call' = [call EXCEPT ![c] = update_media(acc[u].mnat, call[c])]
      \/ /\ r.state = "OUTGOING" /\ calls' = calls
         /\ \E x \in {"none", "calling"} :
              call' = [call EXCEPT ![c] = [r EXCEPT !.sess = x]]
      \/ r.state = "INCOMING" /\ IncomingEvent(u, c, calls[u], r)
      \/ calls' = calls /\ call' = [call EXCEPT ![c] = r]
  BY DEF mnat_handler, call_modify, r
<1>4. CASE CloseCall(u, c)
  BY <1>4, CloseShape
<1>5. CASE /\ calls' = calls
           /\ call' = [call EXCEPT ![c] = update_media(acc[u].mnat, call[c])]
  <2>1. Settled(call[c], update_media(acc[u].mnat, call[c]))
    BY <1>1, UpdateMediaKeeps, KeepsSettled
  <2> QED
    BY <1>5, <2>1, OneCall
<1>6. ASSUME r.state = "OUTGOING", calls' = calls,
             NEW x \in {"none", "calling"},
             call' = [call EXCEPT ![c] = [r EXCEPT !.sess = x]]
      PROVE  Shaped
  <2>1. Settled(call[c], [r EXCEPT !.sess = x])
    BY <1>2, <1>6 DEF Settled, Sound, CallObject, Session
  <2> QED
    BY <1>6, <2>1, OneCall
<1>7. CASE r.state = "INCOMING" /\ IncomingEvent(u, c, calls[u], r)
  <2>1. \/ /\ calls' = [calls EXCEPT ![u] = Unlink(calls[u], c)]
           /\ call' = [call EXCEPT ![c] = Zeroed]
        \/ /\ calls' = [calls EXCEPT ![u] = calls[u]]
           /\ \E q \in CallObject :
                Settled(r, q) /\ call' = [call EXCEPT ![c] = q]
    BY <1>1, <1>2, <1>7, IncomingOutcome DEF Settled
  <2>2. CASE /\ calls' = [calls EXCEPT ![u] = Unlink(calls[u], c)]
             /\ call' = [call EXCEPT ![c] = Zeroed]
    BY <2>2, DestructorShape DEF call_destructor
  <2>3. ASSUME calls' = [calls EXCEPT ![u] = calls[u]],
               NEW q \in CallObject,
               Settled(r, q), call' = [call EXCEPT ![c] = q]
        PROVE  Shaped
    <3>1. calls' = calls
      BY <2>3 DEF IInv, TypeOK
    <3>2. Settled(call[c], q)
      BY <1>2, <2>3 DEF Settled
    <3> QED
      BY <2>3, <3>1, <3>2, OneCall
  <2> QED
    BY <2>1, <2>2, <2>3
<1>8. CASE calls' = calls /\ call' = [call EXCEPT ![c] = r]
  BY <1>2, <1>8, OneCall
<1> QED
  BY <1>3, <1>4, <1>5, <1>6, <1>7, <1>8

(* A new INVITE: 488 after the object was made, or a call that enters.     *)
LEMMA ConnShape ==
  ASSUME IInv, NEW u \in UAs, NEW offer \in BOOLEAN,
         sipsess_conn_handler(u, offer)
  PROVE  Shaped
<1>1. PICK c \in Free :
        \/ /\ offer
           /\ call' = resume_call(acc[u].mnat, calls[u], call)
           /\ UNCHANGED calls
        \/ LET s == Append(calls[u], c)
               r == call_accept(u, offer)
           IN IF acc[u].mnat = "none" THEN IncomingEvent(u, c, s, r)
              ELSE /\ calls' = [calls EXCEPT ![u] = s]
                   /\ call' = [call EXCEPT ![c] = r]
  BY DEF sipsess_conn_handler
<1> DEFINE s == Append(calls[u], c)
           r == call_accept(u, offer)
<1>2. /\ FreeLines(u) # {} /\ c \in Calls
      /\ MaxCalls > 0 => uag_call_count + 1 <= MaxCalls
  BY DEF sipsess_conn_handler, Free
<1>3. acc[u].mnat \in MnatKinds /\ calls[u] \in Seq(Calls) /\ IsInjective(calls[u])
  BY DEF IInv, TypeOK, Account
<1>4. /\ r \in CallObject /\ Sound(r) /\ r.state = "INCOMING"
      /\ r.line = assign_linenum(u)
  BY <1>2, NewCallFacts, CallAssumption
     DEF call_accept, CallObject, CallState, Session, Sound
<1>5. ASSUME NEW q \in CallObject, Sound(q), q.line = r.line,
             calls' = [calls EXCEPT ![u] = s], call' = [call EXCEPT ![c] = q]
      PROVE  Shaped
  <2> HIDE DEF r
  <2>1. Enter(u, c, q)
    BY <1>2, <1>4, <1>5 DEF Enter
  <2> QED
    BY <1>2, <2>1 DEF Shaped
<1>6. CASE call' = resume_call(acc[u].mnat, calls[u], call) /\ UNCHANGED calls
  <2>1. call \in [Calls -> CallObject]
    BY DEF IInv, TypeOK
  <2>2. /\ call' \in [Calls -> CallObject]
        /\ \A d \in Calls : Keeps(call[d], call'[d])
        /\ \A d \in Calls \ Range(calls[u]) : call'[d] = call[d]
    BY <1>3, <1>6, <2>1, ResumeKeeps
  <2>3. \A d \in Free : call'[d] = call[d]
    BY <2>2 DEF Free, InUse, Live
  <2>4. \A d \in InUse : Settled(call[d], call'[d])
    BY <2>2, SettledSelf, KeepsSettled DEF IInv
  <2> QED
    BY <1>6, <2>2, <2>3, <2>4 DEF Shaped, Inner
<1>7. CASE IncomingEvent(u, c, s, r)
  <2> HIDE DEF r, s
  <2>1. \/ /\ calls' = [calls EXCEPT ![u] = Unlink(s, c)]
           /\ call' = [call EXCEPT ![c] = Zeroed]
        \/ /\ calls' = [calls EXCEPT ![u] = s]
           /\ \E q \in CallObject :
                Settled(r, q) /\ call' = [call EXCEPT ![c] = q]
    BY <1>2, <1>3, <1>4, <1>7, IncomingOutcome
  <2>2. CASE /\ calls' = [calls EXCEPT ![u] = Unlink(s, c)]
             /\ call' = [call EXCEPT ![c] = Zeroed]
    <3>1. c \notin Range(calls[u])
      BY DEF Free, InUse, Live
    <3>2. Unlink(s, c) = calls[u]
      BY <1>2, <1>3, <3>1, AppendFacts DEF s
    <3>3. calls' = calls /\ call' = call
      BY <2>2, <3>2 DEF IInv, TypeOK
    <3> QED
      BY <3>3, SettledSelf DEF Shaped, Inner, IInv, TypeOK
  <2>3. ASSUME calls' = [calls EXCEPT ![u] = s], NEW q \in CallObject,
               Settled(r, q), call' = [call EXCEPT ![c] = q]
        PROVE  Shaped
    BY <1>5, <2>3 DEF Settled
  <2> QED
    BY <2>1, <2>2, <2>3
<1>8. CASE calls' = [calls EXCEPT ![u] = s] /\ call' = [call EXCEPT ![c] = r]
  BY <1>4, <1>5, <1>8
<1> QED
  BY <1>1, <1>6, <1>7, <1>8

LEMMA NextShaped ==
  ASSUME IInv, Next
  PROVE  Shaped /\ UNCHANGED acc
<1>1. ASSUME NEW u \in UAs, NEW c \in Live(u), Api(u, c)
      PROVE  Shaped
  <2>1. CASE ua_hangup(u, c)
    BY <2>1, CloseShape DEF ua_hangup
  <2> QED
    BY <1>1, <2>1, AnswerShape, HoldShape, ReorderShape, TransferShape DEF Api
<1>2. ASSUME NEW u \in UAs, NEW c \in Live(u), Callback(u, c)
      PROVE  Shaped
  <2>1. CASE sipsess_close_handler(u, c)
    BY <2>1, CloseShape DEF sipsess_close_handler
  <2>2. CASE sipsub_notify_handler(u, c)
    BY <2>2, CloseShape, DestructorShape DEF sipsub_notify_handler
  <2>3. CASE sipsub_close_handler(u, c)
    <3>1. CASE call_destructor(u, c)
      BY <3>1, DestructorShape
    <3>2. CASE call' = [call EXCEPT ![c].sub = FALSE] /\ UNCHANGED calls
      <4>1. Settled(call[c], [call[c] EXCEPT !.sub = FALSE])
        BY LiveFacts DEF Settled, Sound, CallObject
      <4> QED
        BY <3>2, <4>1, OneCall
    <3> QED
      BY <2>3, <3>1, <3>2 DEF sipsub_close_handler
  <2>4. CASE invite_timeout(u, c)
    BY <2>4, CloseShape DEF invite_timeout
  <2>5. CASE audio_error_handler(u, c)
    BY <2>5, CloseShape DEF audio_error_handler
  <2>6. CASE stream_error_handler(u, c)
    BY <2>6, CloseShape DEF stream_error_handler
  <2> QED
    BY <1>2, <2>1, <2>2, <2>3, <2>4, <2>5, <2>6, ProgressShape, EstabShape,
       OfferShape, MnatShape, MnatConnShape DEF Callback
<1> QED
  BY <1>1, <1>2, ConnectShape, HoldAnswerShape, ConnShape, ResetShape DEF Next

-----------------------------------------------------------------------------

LEMMA InitInvariant == Init => IInv
<1> SUFFICES ASSUME Init PROVE IInv
  OBVIOUS
<1>1. calls \in [UAs -> Seq(Calls)] /\ \A u \in UAs : IsInjective(calls[u])
  BY DEF Init, IsInjective
<1>2. (\A u \in UAs : Live(u) = {}) /\ InUse = {} /\ Incoming = {}
  BY DEF Init, Live, Range, InUse, Incoming
<1>3. TypeOK
  BY <1>1, <1>2, ZeroedType DEF Init, TypeOK, Free
<1>4. IncomingWithinMax
  BY <1>2, FS_EmptySet, CallAssumption DEF IncomingWithinMax, Incoming
<1> QED
  BY <1>2, <1>3, <1>4 DEF IInv, LineNumbersUnique

LEMMA NextInvariant == IInv /\ [Next]_vars => IInv'
<1>1. ASSUME IInv, Next PROVE IInv'
  BY <1>1, NextShaped, ShapedPreserves
<1>2. ASSUME IInv, UNCHANGED vars PROVE IInv'
  <2>1. Inner
    BY <1>2, SettledSelf DEF Inner, vars, IInv, TypeOK
  <2> QED
    BY <1>2, <2>1, InnerPreserves DEF vars
<1> QED
  BY <1>1, <1>2

(* The inductive invariant holds in every reachable state, for every       *)
(* number of user agents, call objects, lines and calls allowed.           *)
THEOREM Invariant == Spec => []IInv
BY InitInvariant, NextInvariant, PTL DEF Spec

(* Every variable keeps its type; in particular no call object is ever in  *)
(* two lists or twice in one, and a freed one keeps nothing of the call it *)
(* was (list handling of call_alloc(), call_destructor() and               *)
(* call_set_current()).                                                    *)
THEOREM TypeCorrect == Spec => []TypeOK
<1>1. IInv => TypeOK
  BY DEF IInv
<1> QED
  BY <1>1, Invariant, PTL

(* Two calls of a user agent never share a line number, however calls      *)
(* entered and left the list (assign_linenum() of call.c).                 *)
THEOREM LinesAreUnique == Spec => []LineNumbersUnique
<1>1. IInv => LineNumbersUnique
  BY DEF IInv
<1> QED
  BY <1>1, Invariant, PTL

(* State, session and last event of a call agree on whether it is          *)
(* connected (sipsess_estab_handler() and the others of call.c).           *)
THEOREM ConnectedAgrees == Spec => []ConnectedAgreement
<1>1. IInv => ConnectedAgreement
  BY DEF IInv, ConnectedAgreement, Sound
<1> QED
  BY <1>1, Invariant, PTL

(* The local timeout never ends a connected call (tmr_inv of call.c).      *)
THEOREM TimerNeverConnected == Spec => []TimerOnlyUnanswered
<1>1. IInv => TimerOnlyUnanswered
  BY DEF IInv, TimerOnlyUnanswered, Sound
<1> QED
  BY <1>1, Invariant, PTL

(* The calls that ring never exceed call.max_calls, whatever the user      *)
(* dials meanwhile (sipsess_conn_handler() of ept.c).                      *)
THEOREM IncomingLimited == Spec => []IncomingWithinMax
<1>1. IInv => IncomingWithinMax
  BY DEF IInv
<1> QED
  BY <1>1, Invariant, PTL
=============================================================================

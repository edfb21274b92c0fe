--------------------------- MODULE BrightnessProofs ---------------------------
(***************************************************************************)
(* Proofs about the brightness key daemon, for any set of devices, size of  *)
(* a record and bounds.  The argument for handle_fd: what a device has sent *)
(* and still owes consists of whole records but for the part that is in buf *)
(* (DevOK, BufInv), and its descriptor is in blocking mode exactly while    *)
(* there is such a part.  The argument for open_events: the counter of its  *)
(* loop is the distance to the last device found (Counted), by induction    *)
(* over the device numbers.                                                *)
(***************************************************************************)
EXTENDS Brightness, WellFoundedInduction, TLAPS

-----------------------------------------------------------------------------
(* Induction over the natural numbers, with a set for the hypothesis.      *)

\* A non-empty set of natural numbers has a least element.
LEMMA SmallestNat ==
    ASSUME NEW T, T \subseteq Nat, T # {}
    PROVE  \E x \in T : \A y \in T : x =< y
<1> DEFINE R == {ss \in Nat \X Nat : ss[1] < ss[2]}
<1>1. IsWellFoundedOn(OpToRel(<, Nat), Nat)
    BY NatLessThanWellFounded
<1>2. OpToRel(<, Nat) = R
    BY Zenon DEF OpToRel
<1>3. PICK x \in T : \A y \in T : ~(<<y, x>> \in R)
    BY <1>1, <1>2, WFMin, ZenonT(40)
<1>4. ASSUME NEW y \in T
      PROVE  x =< y
    <2>1. x \in Nat /\ y \in Nat /\ <<y, x>> \notin R
        BY <1>3
    <2> QED
        BY <2>1
<1> QED
    BY <1>4

\* Induction, with the set of the numbers that have the property.
LEMMA Induction ==
    ASSUME NEW S, 0 \in S, \A n \in Nat : n \in S => n + 1 \in S
    PROVE  Nat \subseteq S
<1> SUFFICES ASSUME Nat \ S # {}
             PROVE  FALSE
    OBVIOUS
<1>1. PICK x \in Nat \ S : \A y \in Nat \ S : x =< y
    BY SmallestNat
<1>2. x # 0 /\ x - 1 \in Nat
    BY <1>1
<1>3. x - 1 \in S
    BY <1>1, <1>2
<1> QED
    BY <1>1, <1>2, <1>3

-----------------------------------------------------------------------------
(* The scan of open_events.                                                *)

\* The loop has been left at number i.
Left(devs, i) ==
  \/ \E j \in devs \cap Denied : j =< i
  \/ \E s \in 0 .. i : s + MaxGap - 1 =< i /\ (s .. s + MaxGap - 1) \cap devs = {}

\* What is known of the counter of open_events after number i.
Counted(devs, i, n) ==
  /\ n \in 0 .. MaxGap
  /\ n = MaxGap <=> Left(devs, i)
  /\ n # MaxGap => /\ -1 =< i - n
                   /\ i - n = -1 \/ i - n \in devs
                   /\ (i - n + 1 .. i) \cap devs = {}

\* The largest device number is one of the numbers.
LEMMA MaxIdType ==
    ASSUME Ids # {}
    PROVE  MaxId \in Ids /\ \A j \in Ids : j =< MaxId
BY BrightnessAssumption DEF MaxId

\* One turn of the loop.
Turn(devs, i, n) ==
  IF n = MaxGap \/ i \in devs \cap Denied THEN MaxGap ELSE IF i \in devs THEN 0 ELSE n + 1

\* The definition of Fails is sound: there is a function that satisfies it.
LEMMA FailsDef ==
    ASSUME NEW devs \in SUBSET Ids, Ids # {}
    PROVE  /\ Fails(devs)[-1] = 0
           /\ \A i \in 0 .. MaxId : Fails(devs)[i] = Turn(devs, i, Fails(devs)[i - 1])
<1>0. MaxId \in Nat
    BY MaxIdType, BrightnessAssumption
<1> DEFINE P(g, n) == g = [i \in -1 .. n |-> IF i = -1 THEN 0 ELSE Turn(devs, i, g[i - 1])]
           f == CHOOSE g : P(g, MaxId)
           S == {n \in Nat : \E g : P(g, n - 1)}
<1>1. Fails(devs) = f
    BY DEF Fails, Turn
<1>2. 0 \in S
    <2>1. P([i \in -1 .. -1 |-> 0], 0 - 1)
        OBVIOUS
    <2> QED
        BY <2>1
<1>3. ASSUME NEW n \in Nat, n \in S
      PROVE  n + 1 \in S
    <2>1. PICK g : P(g, n - 1)
        BY <1>3
    <2> DEFINE h == [i \in -1 .. n |-> IF i = n THEN Turn(devs, n, g[n - 1]) ELSE g[i]]
    <2>2. P(h, n)
        <3>1. ASSUME NEW i \in -1 .. n
              PROVE  h[i] = IF i = -1 THEN 0 ELSE Turn(devs, i, h[i - 1])
            <4>1. CASE i = n
                <5>1. h[i - 1] = g[n - 1] /\ i # -1
                    BY <4>1
                <5> QED
                    BY <4>1, <5>1
            <4>2. CASE i # n /\ i # -1
                <5>1. i \in -1 .. n - 1 /\ h[i - 1] = g[i - 1] /\ h[i] = g[i]
                    BY <4>2
                <5>2. g[i] = Turn(devs, i, g[i - 1])
                    BY <2>1, <5>1, <4>2
                <5> QED
                    BY <4>2, <5>1, <5>2
            <4>3. CASE i # n /\ i = -1
                <5>1. i \in -1 .. n - 1 /\ h[i] = g[i]
                    BY <4>3
                <5>2. g[i] = 0
                    BY <2>1, <5>1, <4>3
                <5> QED
                    BY <4>3, <5>1, <5>2
            <4> QED
                BY <4>1, <4>2, <4>3
        <3> HIDE DEF h
        <3>2. h = [i \in -1 .. n |-> h[i]]
            BY DEF h
        <3> QED
            BY <3>1, <3>2
    <2>3. n + 1 \in Nat /\ (n + 1) - 1 = n
        OBVIOUS
    <2> HIDE DEF h, P
    <2> QED
        BY <2>2, <2>3
<1>4. MaxId + 1 \in S
    <2>1. MaxId + 1 \in Nat
        BY <1>0
    <2> HIDE DEF S
    <2>2. Nat \subseteq S
        BY <1>2, <1>3, Induction
    <2> QED
        BY <2>1, <2>2
<1>5. \E g : P(g, MaxId)
    <2>1. \E g : P(g, (MaxId + 1) - 1)
        BY <1>4
    <2>2. (MaxId + 1) - 1 = MaxId
        BY <1>0
    <2> QED
        BY <2>1, <2>2
<1>6. P(f, MaxId)
    <2> HIDE DEF P
    <2> QED
        BY <1>5
<1> HIDE DEF f
<1> QED
    BY <1>0, <1>1, <1>6

\* A turn of the loop keeps what is known of the counter.
LEMMA TurnCounts ==
    ASSUME NEW devs \in SUBSET Nat, NEW i \in Nat, NEW n \in Nat, Counted(devs, i - 1, n)
    PROVE  Counted(devs, i, Turn(devs, i, n))
<1>0. MaxGap \in Nat \ {0}
    BY BrightnessAssumption
<1>1. CASE n = MaxGap
    BY <1>0, <1>1 DEF Counted, Turn, Left
<1>2. CASE n # MaxGap /\ i \in devs \cap Denied
    BY <1>0, <1>2 DEF Counted, Turn, Left
<1>3. CASE n # MaxGap /\ i \in devs /\ i \notin Denied
    <2>1. ~Left(devs, i)
        BY <1>0, <1>3 DEF Counted, Left
    <2> QED
        BY <1>0, <1>3, <2>1 DEF Counted, Turn
<1>4. CASE n # MaxGap /\ i \notin devs
    <2>1. (i - (n + 1) + 1 .. i) \cap devs = {}
        BY <1>0, <1>4 DEF Counted
    <2>2. CASE n + 1 = MaxGap
        <3>1. Left(devs, i)
            BY <1>0, <1>4, <2>1, <2>2 DEF Counted, Left
        <3> QED
            BY <1>0, <1>4, <2>2, <3>1 DEF Counted, Turn
    <2>3. CASE n + 1 # MaxGap
        <3>1. ~\E j \in devs \cap Denied : j =< i
            BY <1>0, <1>4 DEF Counted, Left
        <3>2. ASSUME NEW s \in 0 .. i, s + MaxGap - 1 =< i, (s .. s + MaxGap - 1) \cap devs = {}
              PROVE  FALSE
            <4>1. ~(s \in 0 .. i - 1 /\ s + MaxGap - 1 =< i - 1)
                BY <1>0, <1>4, <3>2 DEF Counted, Left
            <4>2. s + MaxGap - 1 = i
                BY <1>0, <3>2, <4>1
            <4>3. i - 1 - n \in s .. s + MaxGap - 1 /\ i - 1 - n # -1
                BY <1>0, <2>3, <1>4, <4>2 DEF Counted
            <4> QED
                BY <1>4, <3>2, <4>3 DEF Counted
        <3>3. ~Left(devs, i)
            BY <3>1, <3>2 DEF Left
        <3> QED
            BY <1>0, <1>4, <2>1, <2>3, <3>3 DEF Counted, Turn
    <2> QED
        BY <2>2, <2>3
<1> QED
    BY <1>1, <1>2, <1>3, <1>4

\* What the counter of open_events says, for any set of devices.
LEMMA FailsCounts ==
    ASSUME NEW devs \in SUBSET Ids, NEW i \in Ids
    PROVE  Fails(devs)[i] = MaxGap <=> Left(devs, i)
<1> DEFINE S == {n \in Nat : n - 1 =< MaxId => Counted(devs, n - 1, Fails(devs)[n - 1])}
<1>0. /\ Ids # {} /\ MaxId \in Nat /\ i \in Nat /\ i =< MaxId /\ devs \in SUBSET Nat
      /\ MaxGap \in Nat \ {0}
    BY MaxIdType, BrightnessAssumption
<1>1. 0 \in S
    <2>1. Fails(devs)[-1] = 0
        BY <1>0, FailsDef
    <2>2. Counted(devs, -1, 0)
        BY <1>0 DEF Counted, Left
    <2> QED
        BY <2>1, <2>2
<1>2. ASSUME NEW n \in Nat, n \in S
      PROVE  n + 1 \in S
    <2> SUFFICES ASSUME n =< MaxId
                 PROVE  Counted(devs, n, Fails(devs)[n])
        OBVIOUS
    <2>1. Counted(devs, n - 1, Fails(devs)[n - 1])
        BY <1>0, <1>2
    <2>2. Fails(devs)[n - 1] \in Nat
        BY <1>0, <2>1 DEF Counted
    <2>3. Fails(devs)[n] = Turn(devs, n, Fails(devs)[n - 1])
        BY <1>0, FailsDef
    <2> QED
        BY <1>0, <2>1, <2>2, <2>3, TurnCounts
<1>3. i + 1 \in S
    <2> HIDE DEF S
    <2> QED
        BY <1>0, <1>1, <1>2, Induction
<1>4. Counted(devs, i, Fails(devs)[i])
    <2>1. (i + 1) - 1 = i
        BY <1>0
    <2>2. (i + 1) - 1 =< MaxId => Counted(devs, (i + 1) - 1, Fails(devs)[(i + 1) - 1])
        BY <1>3
    <2> QED
        BY <1>0, <2>1, <2>2
<1> QED
    BY <1>4 DEF Counted

\* The scan in terms of the gaps alone.
LEMMA ScanLemma ==
    ASSUME NEW devs \in SUBSET Ids
    PROVE  open_events(devs) =
             {i \in devs : /\ All \/ i \in VideoBus
                           /\ \A j \in devs \cap Denied : i < j
                           /\ ~\E s \in 0 .. i : /\ s + MaxGap =< i
                                                 /\ (s .. s + MaxGap - 1) \cap devs = {}}
<1> DEFINE Found(i) == /\ \A j \in devs \cap Denied : i < j
                       /\ ~\E s \in 0 .. i : /\ s + MaxGap =< i
                                             /\ (s .. s + MaxGap - 1) \cap devs = {}
<1>1. ASSUME NEW i \in devs
      PROVE  Fails(devs)[i] # MaxGap <=> Found(i)
    <2>1. i \in Nat /\ devs \subseteq Nat /\ MaxGap \in Nat \ {0}
        BY BrightnessAssumption
    <2>2. ~Left(devs, i) <=> Found(i)
        BY <2>1 DEF Left
    <2> QED
        BY <2>2, FailsCounts
<1> HIDE DEF Found
<1>2. open_events(devs) = {i \in devs : (All \/ i \in VideoBus) /\ Found(i)}
    BY <1>1 DEF open_events
<1> QED
    BY <1>2 DEF Found

-----------------------------------------------------------------------------
(* Types, and the descriptor handle_fd works on.                           *)

Busy == {"read", "message", "level"}

FdInv == (pc \in Busy => fd \in listening) /\ -faults =< done

TypeInv == TypeOK /\ FdInv

\* The negative of a natural number.
LEMMA NegNat ==
    \A n \in Nat : -n =< 0
OBVIOUS

\* The step computed from range and number of steps is at least one.
LEMMA StepType ==
    _step \in Nat \ {0}
<1> DEFINE q == (Max - Min) \div Steps
<1>1. q \in Int
    BY BrightnessAssumption
<1> HIDE DEF q
<1>2. (IF q < 1 THEN 1 ELSE q) \in Nat \ {0}
    BY <1>1
<1> QED
    BY <1>2 DEF _step, q

\* The value handle_message writes.
LEMMA NewvalMoves ==
    ASSUME val \in Nat
    PROVE  /\ newval \in Min .. Max
           /\ key = "up" /\ val < Max => newval > val
           /\ key # "up" /\ val > Min => newval < val
<1>1. Min \in Nat /\ Max \in Nat /\ Min < Max
    BY BrightnessAssumption
<1> QED
    BY <1>1, StepType DEF newval

\* Bytes that were read are bytes.
LEMMA SeqTail ==
    ASSUME NEW S, NEW s \in Seq(S), NEW n \in Nat, n =< Len(s)
    PROVE  /\ SubSeq(s, n + 1, Len(s)) \in Seq(S)
           /\ Len(SubSeq(s, n + 1, Len(s))) = Len(s) - n
           /\ \A i \in 1 .. Len(s) - n : SubSeq(s, n + 1, Len(s))[i] = s[i + n]
OBVIOUS

\* What the first n entries of a sequence are.
LEMMA SeqHead ==
    ASSUME NEW S, NEW s \in Seq(S), NEW n \in Nat, n =< Len(s)
    PROVE  /\ SubSeq(s, 1, n) \in Seq(S)
           /\ Len(SubSeq(s, 1, n)) = n
           /\ \A i \in 1 .. n : SubSeq(s, 1, n)[i] = s[i]
OBVIOUS

\* What concatenation returns, entry by entry.
LEMMA Concat ==
    ASSUME NEW S, NEW s \in Seq(S), NEW t \in Seq(S)
    PROVE  /\ s \o t \in Seq(S)
           /\ Len(s \o t) = Len(s) + Len(t)
           /\ \A i \in 1 .. Len(s) : (s \o t)[i] = s[i]
           /\ \A i \in 1 .. Len(t) : (s \o t)[Len(s) + i] = t[i]
OBVIOUS

\* The record of key k.
Record(k) == [i \in 1 .. Size |-> [key |-> k, pos |-> i]]

\* A record of a key, byte by byte.
LEMMA RecordType ==
    ASSUME NEW k \in Keys
    PROVE  /\ Record(k) \in Seq(Byte)
           /\ Len(Record(k)) = Size
           /\ \A i \in 1 .. Size : Record(k)[i] = [key |-> k, pos |-> i]
<1>1. Size \in Nat
    BY BrightnessAssumption
<1>2. \A i \in 1 .. Size : [key |-> k, pos |-> i] \in Byte
    BY DEF Byte
<1> QED
    BY <1>1, <1>2 DEF Record

\* Going on with the next record: types.
LEMMA NextRecordType ==
    ASSUME TypeInv, NextRecord, pc \in Busy
    PROVE  /\ pc' = "read" /\ done' = 0 /\ key' \in Keys /\ val' \in Nat
           /\ buf' \in [1 .. Size -> Byte \cup {None}] /\ blocking' \in [Ids -> BOOLEAN]
BY DEF TypeInv, TypeOK, FdInv, NextRecord, Keys

\* Returning to epoll_wait: types.
LEMMA ReturnType ==
    ASSUME Return
    PROVE  /\ pc' = "epoll" /\ fd' = None /\ done' = 0 /\ key' \in Keys /\ val' \in Nat
           /\ buf' \in [1 .. Size -> Byte \cup {None}]
BY DEF Return, Keys

\* The types hold initially ...
LEMMA TypeInit == Init => TypeInv
<1> SUFFICES ASSUME Init
             PROVE  TypeInv
    OBVIOUS
<1>1. listening \subseteq Ids /\ plugged \subseteq Ids
    BY DEF Init, open_events
<1>2. stream \in [Ids -> Seq(Byte)] /\ due \in [Ids -> Seq(Byte)]
    BY DEF Init
<1>3. buf \in [1 .. Size -> Byte \cup {None}] /\ blocking \in [Ids -> BOOLEAN]
    BY DEF Init
<1>4. done \in -MaxFaults .. Size - 1 /\ records \in 0 .. MaxRecords /\ faults \in 0 .. MaxFaults
    BY BrightnessAssumption DEF Init
<1>5. level \in Nat /\ val \in Nat /\ key \in Keys
    BY BrightnessAssumption DEF Init, Keys
<1>6. pc \in {"epoll", "exit"}
    BY DEF Init
<1>7. fd \in Ids \cup {None} /\ interrupted \subseteq Ids /\ wrong \subseteq Ids
    BY DEF Init
<1>8. FdInv
    BY <1>6 DEF FdInv, Busy, Init
<1> QED
    BY <1>1, <1>2, <1>3, <1>4, <1>5, <1>6, <1>7, <1>8 DEF TypeInv, TypeOK

\* ... and are kept by every step.
LEMMA TypeStep ==
    ASSUME TypeInv, [Next]_vars
    PROVE  TypeInv'
<1> USE DEF TypeInv
<1>0. /\ MaxFaults \in Nat /\ MaxRecords \in Nat /\ Size \in Nat \ {0, 1} /\ None \notin Ids
      /\ faults \in 0 .. MaxFaults /\ done \in -MaxFaults .. Size - 1
    BY BrightnessAssumption DEF TypeOK
<1>1. ASSUME NEW d \in Ids, Wait(d)
      PROVE  TypeInv'
    <2>1. done' \in -MaxFaults .. Size - 1 /\ -faults =< 0
        BY <1>0, <1>1 DEF Wait
    <2>2. buf' \in [1 .. Size -> Byte \cup {None}]
        BY <1>1 DEF Wait
    <2> QED
        BY <1>1, <2>1, <2>2 DEF Wait, TypeOK, FdInv, device, history
<1>2. ASSUME NEW n \in 1 .. Size + MaxFaults, Read(n)
      PROVE  TypeInv'
    <2>1. fd \in Ids /\ stream[fd] \in Seq(Byte) /\ n \in Nat /\ n =< Len(stream[fd])
        BY <1>0, <1>2 DEF Read, TypeOK
    <2>2. stream' \in [Ids -> Seq(Byte)]
        BY <1>2, <2>1, SeqTail DEF Read, TypeOK
    <2>3. \A i \in 1 .. Size : i - done \in 1 .. n => stream[fd][i - done] \in Byte
        BY <1>0, <2>1
    <2>4. buf' \in [1 .. Size -> Byte \cup {None}]
        BY <1>2, <2>3 DEF Read, TypeOK
    <2>5. done' \in -MaxFaults .. Size - 1 /\ -faults =< done'
        BY <1>0, <1>2 DEF Read, FdInv
    <2>6. blocking' \in [Ids -> BOOLEAN] /\ pc' \in Busy
        BY <1>2 DEF Read, TypeOK, Busy
    <2> QED
        BY <1>2, <2>2, <2>4, <2>5, <2>6 DEF Read, TypeOK, FdInv, history, Busy
<1>3. CASE ReadAgain
    <2>1. TypeOK'
        BY <1>0, <1>3, ReturnType DEF ReadAgain, TypeOK, device, history
    <2> QED
        BY <1>0, <1>3, <2>1, ReturnType DEF ReadAgain, FdInv, Busy
<1>4. CASE ReadGone
    <2>1. TypeOK'
        BY <1>0, <1>4, ReturnType DEF ReadGone, TypeOK, history
    <2> QED
        BY <1>0, <1>4, <2>1, ReturnType DEF ReadGone, FdInv, Busy
<1>5. ASSUME pc = "message", Noted
      PROVE  wrong' \subseteq Ids
    BY <1>5 DEF Noted, FdInv, TypeOK, Busy
<1>6. CASE Ignore
    <2>1. pc \in Busy /\ wrong' \subseteq Ids
        BY <1>5, <1>6 DEF Ignore, Busy
    <2>2. faults' \in 0 .. MaxFaults
        BY <1>0, <1>6 DEF Ignore, Fault
    <2>3. done' \in -MaxFaults .. Size - 1 /\ -faults' =< done'
        <3>1. done' = 0
            BY <1>6 DEF Ignore, NextRecord
        <3>2. 0 \in -MaxFaults .. Size - 1
            BY <1>0
        <3>3. faults' \in Nat
            BY <1>0, <2>2
        <3>4. -faults' =< 0
            BY <3>3, NegNat
        <3> QED
            BY <3>1, <3>2, <3>4
    <2> QED
        BY <1>6, <2>1, <2>2, <2>3, NextRecordType DEF Ignore, TypeOK, FdInv, Busy
<1>7. CASE GetLevel
    <2>1. wrong' \subseteq Ids /\ key' \in Keys /\ pc \in Busy
        BY <1>5, <1>7 DEF GetLevel, Busy, Keys
    <2> QED
        BY <1>7, <2>1 DEF GetLevel, TypeOK, FdInv, Busy, device
<1>8. CASE PutLevel
    <2>1. pc \in Busy
        BY <1>8 DEF PutLevel, Busy
    <2>2. faults' \in 0 .. MaxFaults
        BY <1>0, <1>8 DEF PutLevel, Fault
    <2>3. done' \in -MaxFaults .. Size - 1 /\ -faults' =< done'
        <3>1. done' = 0
            BY <1>8 DEF PutLevel, NextRecord
        <3>2. 0 \in -MaxFaults .. Size - 1
            BY <1>0
        <3>3. faults' \in Nat
            BY <1>0, <2>2
        <3>4. -faults' =< 0
            BY <3>3, NegNat
        <3> QED
            BY <3>1, <3>2, <3>4
    <2>4. newval \in Nat
        BY NewvalMoves, BrightnessAssumption DEF TypeOK
    <2>5. level' \in Nat
        BY <1>8, <2>4 DEF PutLevel, TypeOK
    <2> QED
        BY <1>8, <2>1, <2>2, <2>3, <2>5, NextRecordType DEF PutLevel, TypeOK, FdInv, Busy, history
<1>9. CASE ReadInterrupted
    <2>1. fd \in Ids
        BY <1>9 DEF ReadInterrupted, TypeOK
    <2>2. faults' \in 0 .. MaxFaults /\ done' \in -MaxFaults .. Size - 1 /\ -faults' =< done'
        BY <1>0, <1>9 DEF ReadInterrupted, Fault, FdInv
    <2> QED
        BY <1>9, <2>1, <2>2 DEF ReadInterrupted, TypeOK, FdInv
<1>10. ASSUME NEW d \in Ids, Complete(d)
       PROVE  TypeInv'
    <2>1. stream' \in [Ids -> Seq(Byte)] /\ due' \in [Ids -> Seq(Byte)]
        BY <1>10 DEF Complete, TypeOK
    <2> QED
        BY <1>10, <2>1 DEF Complete, TypeOK, FdInv, reader, history
<1>11. ASSUME NEW d \in Ids, Unplug(d)
       PROVE  TypeInv'
    <2>1. stream' \in [Ids -> Seq(Byte)] /\ due' \in [Ids -> Seq(Byte)] /\ plugged' \subseteq Ids
        BY <1>11 DEF Unplug, TypeOK
    <2>2. faults' \in 0 .. MaxFaults /\ -faults' =< done
        BY <1>0, <1>11 DEF Unplug, Fault, FdInv
    <2> QED
        BY <1>11, <2>1, <2>2 DEF Unplug, TypeOK, FdInv, reader, history
<1>12. ASSUME NEW d \in Ids, NEW n \in 1 .. Size, Produce(d, n)
       PROVE  TypeInv'
    <2>1. PICK k \in Keys : /\ stream' = [stream EXCEPT ![d] = @ \o SubSeq(Record(k), 1, n)]
                            /\ due' = [due EXCEPT ![d] = SubSeq(Record(k), n + 1, Size)]
        BY <1>12 DEF Produce, Record
    <2>2. SubSeq(Record(k), 1, n) \in Seq(Byte) /\ SubSeq(Record(k), n + 1, Size) \in Seq(Byte)
        BY <1>0, SeqHead, SeqTail, RecordType
    <2>3. stream' \in [Ids -> Seq(Byte)] /\ due' \in [Ids -> Seq(Byte)]
        BY <2>1, <2>2, SMTT(30) DEF TypeOK
    <2>4. records' \in 0 .. MaxRecords
        BY <1>0, <1>12 DEF Produce, TypeOK
    <2> QED
        BY <1>12, <2>3, <2>4 DEF Produce, TypeOK, FdInv, reader, history
<1>13. CASE OtherWrites
    <2>1. level' \in Nat
        BY <1>13, BrightnessAssumption DEF OtherWrites
    <2>2. faults' \in 0 .. MaxFaults /\ -faults' =< done
        BY <1>0, <1>13 DEF OtherWrites, Fault, FdInv
    <2> QED
        BY <1>13, <2>1, <2>2 DEF OtherWrites, TypeOK, FdInv, reader, history, device
<1>14. CASE UNCHANGED vars
    BY <1>14 DEF vars, device, reader, history, TypeOK, FdInv
<1> QED
    BY <1>1, <1>2, <1>3, <1>4, <1>6, <1>7, <1>8, <1>9, <1>10, <1>11, <1>12, <1>13, <1>14
       DEF Next, Program

\* The program stays within its types: in particular `done', which an
\* interrupted read of handle_fd makes smaller, is never more than a record and
\* never less than the interrupts account for.
THEOREM Types == Spec => []TypeOK
<1>1. TypeInv /\ [Next]_vars => TypeInv'
    BY TypeStep
<1>2. TypeInv => TypeOK
    BY DEF TypeInv
<1> QED
    BY TypeInit, <1>1, <1>2, PTL DEF Spec

\* A brightness key moves the value by at least one towards its end of the range
\* and into the limits, whatever limits, number of steps and value handle_message
\* finds, and whatever other programs wrote to the file.
THEOREM KeyMoves == Spec => KeyMovesLevel
<1> DEFINE Moves == pc = "level" /\ pc' = "read" /\ faults' = faults =>
                      IF key = "up" THEN val < Max => level' > val /\ level' \in Min .. Max
                                    ELSE val > Min => level' < val /\ level' \in Min .. Max
<1>1. ASSUME TypeInv, [Next]_vars
      PROVE  [Moves]_vars
    <2> SUFFICES ASSUME pc = "level", pc' = "read", faults' = faults
                 PROVE  Moves
        OBVIOUS
    <2>1. PutLevel
        BY <1>1 DEF Next, Program, Wait, Read, ReadAgain, ReadGone, Ignore, GetLevel, ReadInterrupted,
                    Complete, Unplug, Produce, OtherWrites, vars, reader
    <2>2. val \in Nat /\ faults \in Nat /\ Min \in Nat /\ Max \in Nat
        BY <1>1, BrightnessAssumption DEF TypeInv, TypeOK
    <2>3. level' = IF newval = val THEN level ELSE newval
        BY <2>1, <2>2 DEF PutLevel, Fault
    <2>4. newval \in Min .. Max
        BY <2>2, NewvalMoves
    <2>5. CASE key = "up" /\ val < Max
        <3>1. newval > val
            BY <2>2, <2>5, NewvalMoves
        <3>2. newval # val
            BY <2>2, <2>4, <3>1
        <3> QED
            BY <2>3, <2>4, <2>5, <3>1, <3>2
    <2>6. CASE key # "up" /\ val > Min
        <3>1. newval < val
            BY <2>2, <2>6, NewvalMoves
        <3>2. newval # val
            BY <2>2, <2>4, <3>1
        <3> QED
            BY <2>3, <2>4, <2>6, <3>1, <3>2
    <2> QED
        BY <2>5, <2>6
<1>2. TypeInv /\ [Next]_vars => TypeInv' /\ [Moves]_vars
    BY <1>1, TypeStep
<1> QED
    BY TypeInit, <1>2, PTL DEF Spec, KeyMovesLevel

-----------------------------------------------------------------------------
(* Records in the streams of the devices.                                  *)

\* The bytes a device has sent or owes, from the next to be read on.
Coming(d) == stream[d] \o due[d]

\* s consists of records, the first of which may lack its beginning: from every
\* byte on the record goes on to its end, where the next one begins.
Runs(s) ==
  \A i \in 1 .. Len(s) :
    /\ i + (Size - s[i].pos) =< Len(s)
    /\ \A j \in i .. i + (Size - s[i].pos) : s[j] = [key |-> s[i].key, pos |-> s[i].pos + (j - i)]
    /\ i + (Size - s[i].pos) < Len(s) => s[i + (Size - s[i].pos) + 1].pos = 1

\* The fields of a byte of a stream.
LEMMA ByteType ==
    ASSUME NEW s \in Seq(Byte), NEW i \in 1 .. Len(s)
    PROVE  s[i] \in Byte /\ s[i].pos \in 1 .. Size /\ s[i].key \in Keys
<1>1. s[i] \in Byte
    OBVIOUS
<1> QED
    BY <1>1 DEF Byte

\* An empty stream consists of whole records.
LEMMA RunsEmpty == Runs(<<>>)
BY DEF Runs

\* A sequence of records remains one when a record is added to it, ...
LEMMA RunsAppend ==
    ASSUME NEW s \in Seq(Byte), Runs(s), NEW k \in Keys
    PROVE  Runs(s \o Record(k))
<1> DEFINE t == s \o Record(k)
<1>0. Size \in Nat \ {0, 1}
    BY BrightnessAssumption
<1>1. /\ t \in Seq(Byte) /\ Len(t) = Len(s) + Size
      /\ \A i \in 1 .. Len(s) : t[i] = s[i]
      /\ \A i \in 1 .. Size : t[Len(s) + i] = [key |-> k, pos |-> i]
    <2> DEFINE r == Record(k)
    <2>1. r \in Seq(Byte)
        BY RecordType
    <2>2. Len(r) = Size /\ \A i \in 1 .. Size : r[i] = [key |-> k, pos |-> i]
        BY RecordType
    <2>3. t = s \o r
        OBVIOUS
    <2> HIDE DEF t, r
    <2>4. /\ t \in Seq(Byte) /\ Len(t) = Len(s) + Len(r)
          /\ \A i \in 1 .. Len(s) : t[i] = s[i]
          /\ \A i \in 1 .. Len(r) : t[Len(s) + i] = r[i]
        BY <2>1, <2>3, Concat
    <2> QED
        BY <2>2, <2>4
<1> HIDE DEF t
<1>2. Len(s) \in Nat
    OBVIOUS
<1>3. ASSUME NEW i \in 1 .. Len(t)
      PROVE  /\ i + (Size - t[i].pos) =< Len(t)
             /\ \A j \in i .. i + (Size - t[i].pos) :
                   t[j] = [key |-> t[i].key, pos |-> t[i].pos + (j - i)]
             /\ i + (Size - t[i].pos) < Len(t) => t[i + (Size - t[i].pos) + 1].pos = 1
    <2>1. CASE i =< Len(s)
        <3>1. i \in 1 .. Len(s) /\ t[i] = s[i] /\ s[i].pos \in 1 .. Size
            BY <1>1, <1>2, <2>1, ByteType
        <3> DEFINE e == i + (Size - s[i].pos)
        <3>2. e \in Nat /\ e \in i .. Len(s)
            BY <1>0, <1>2, <3>1 DEF Runs
        <3>3. \A j \in i .. e : s[j] = [key |-> s[i].key, pos |-> s[i].pos + (j - i)]
            BY <3>1 DEF Runs
        <3>4. e < Len(s) => s[e + 1].pos = 1
            BY <3>1 DEF Runs
        <3> HIDE DEF e
        <3>5. \A j \in i .. e : t[j] = s[j]
            BY <1>1, <1>2, <3>1, <3>2
        <3>6. t[e + 1].pos = 1
            <4>1. CASE e < Len(s)
                BY <1>1, <1>2, <3>2, <3>4, <4>1
            <4>2. CASE e = Len(s)
                <5>1. t[Len(s) + 1] = [key |-> k, pos |-> 1]
                    BY <1>0, <1>1
                <5> QED
                    BY <4>2, <5>1
            <4> QED
                BY <1>2, <3>2, <4>1, <4>2
        <3>7. t[i].pos = s[i].pos /\ t[i].key = s[i].key /\ i + (Size - t[i].pos) = e
            BY <3>1 DEF e
        <3>8. e =< Len(t)
            BY <1>0, <1>1, <1>2, <3>2
        <3> QED
            BY <3>3, <3>5, <3>6, <3>7, <3>8
    <2>2. CASE i > Len(s)
        <3>1. PICK p \in 1 .. Size : i = Len(s) + p
            <4>1. i - Len(s) \in 1 .. Size /\ i = Len(s) + (i - Len(s))
                BY <1>0, <1>1, <1>2, <2>2
            <4> QED
                BY <4>1
        <3>2. t[i] = [key |-> k, pos |-> p]
            BY <1>1, <3>1
        <3>3. t[i].pos = p /\ t[i].key = k
            BY <3>2
        <3>4. i + (Size - p) = Len(t)
            BY <1>0, <1>1, <1>2, <3>1
        <3>5. ASSUME NEW j \in i .. Len(t)
              PROVE  t[j] = [key |-> k, pos |-> p + (j - i)]
            <4>1. p + (j - i) \in 1 .. Size /\ j = Len(s) + (p + (j - i))
                BY <1>0, <1>1, <1>2, <3>1
            <4> QED
                BY <1>1, <4>1
        <3>6. i + (Size - t[i].pos) = Len(t) /\ Len(t) =< Len(t) /\ ~(Len(t) < Len(t))
            BY <1>0, <1>1, <1>2, <3>3, <3>4
        <3>7. \A j \in i .. Len(t) : t[j] = [key |-> t[i].key, pos |-> t[i].pos + (j - i)]
            BY <3>3, <3>5
        <3> QED
            BY <3>6, <3>7
    <2> QED
        BY <1>1, <1>2, <2>1, <2>2
<1> QED
    BY <1>3 DEF Runs, t

\* ... and when its first bytes are taken away.
LEMMA RunsDrop ==
    ASSUME NEW s \in Seq(Byte), Runs(s), NEW n \in Nat, n =< Len(s)
    PROVE  Runs(SubSeq(s, n + 1, Len(s)))
<1> DEFINE t == SubSeq(s, n + 1, Len(s))
<1>0. Size \in Nat \ {0, 1} /\ Len(s) \in Nat
    BY BrightnessAssumption
<1>1. Len(t) = Len(s) - n /\ \A i \in 1 .. Len(s) - n : t[i] = s[i + n]
    BY SeqTail
<1> HIDE DEF t
<1>2. ASSUME NEW i \in 1 .. Len(t)
      PROVE  /\ i + (Size - t[i].pos) =< Len(t)
             /\ \A j \in i .. i + (Size - t[i].pos) :
                   t[j] = [key |-> t[i].key, pos |-> t[i].pos + (j - i)]
             /\ i + (Size - t[i].pos) < Len(t) => t[i + (Size - t[i].pos) + 1].pos = 1
    <2>1. i + n \in 1 .. Len(s) /\ t[i] = s[i + n] /\ s[i + n].pos \in 1 .. Size
        BY <1>0, <1>1, ByteType
    <2> DEFINE m == i + n
               e == Size - s[m].pos
    <2>2. e \in Nat /\ m \in Nat /\ m + e =< Len(s)
        BY <1>0, <2>1 DEF Runs
    <2>3. \A j \in m .. m + e : s[j] = [key |-> s[m].key, pos |-> s[m].pos + (j - m)]
        BY <2>1 DEF Runs
    <2>4. m + e < Len(s) => s[m + e + 1].pos = 1
        BY <2>1 DEF Runs
    <2>5. t[i].pos = s[m].pos /\ t[i].key = s[m].key /\ Size - t[i].pos = e /\ s[m].pos \in Nat
        BY <1>0, <2>1
    <2>6. m = i + n
        OBVIOUS
    <2> HIDE DEF e, m
    <2>7. i + e =< Len(t)
        BY <1>0, <1>1, <2>2, <2>6
    <2>8. ASSUME NEW j \in i .. i + e
          PROVE  t[j] = [key |-> s[m].key, pos |-> s[m].pos + (j - i)]
        <3>1. j + n \in m .. m + e /\ (j + n) - m = j - i /\ j \in 1 .. Len(s) - n
            BY <1>0, <1>1, <2>2, <2>6, <2>7
        <3>2. t[j] = s[j + n]
            BY <1>1, <3>1
        <3> QED
            BY <2>3, <3>1, <3>2
    <2>9. ASSUME i + e < Len(t)
          PROVE  t[i + e + 1].pos = 1
        <3>1. m + e < Len(s) /\ i + e + 1 \in 1 .. Len(s) - n /\ (i + e + 1) + n = m + e + 1
            BY <1>0, <1>1, <2>2, <2>6, <2>9
        <3> QED
            BY <1>1, <2>4, <3>1
    <2> QED
        BY <2>5, <2>7, <2>8, <2>9
<1> QED
    BY <1>2 DEF Runs, t

\* Sequences with the same entries are the same.
LEMMA SeqEqual ==
    ASSUME NEW S, NEW s \in Seq(S), NEW t \in Seq(S), Len(s) = Len(t),
           \A i \in 1 .. Len(s) : s[i] = t[i]
    PROVE  s = t
OBVIOUS

\* Concatenation with nothing.
LEMMA ConcatEmpty ==
    ASSUME NEW S, NEW s \in Seq(S)
    PROVE  s \o <<>> = s
OBVIOUS

\* Taking bytes from the front of a sequence that goes on.
LEMMA DropConcat ==
    ASSUME NEW S, NEW s \in Seq(S), NEW t \in Seq(S), NEW n \in Nat, n =< Len(s)
    PROVE  SubSeq(s, n + 1, Len(s)) \o t = SubSeq(s \o t, n + 1, Len(s \o t))
<1> DEFINE u == SubSeq(s, n + 1, Len(s))
           v == s \o t
           w == SubSeq(v, n + 1, Len(v))
<1>0. Len(s) \in Nat /\ Len(t) \in Nat
    OBVIOUS
<1>1. u \in Seq(S) /\ Len(u) = Len(s) - n /\ \A i \in 1 .. Len(s) - n : u[i] = s[i + n]
    BY SeqTail
<1>2. /\ v \in Seq(S) /\ Len(v) = Len(s) + Len(t)
      /\ \A i \in 1 .. Len(s) : v[i] = s[i]
      /\ \A i \in 1 .. Len(t) : v[Len(s) + i] = t[i]
    BY Concat
<1> HIDE DEF u, v
<1>3. w \in Seq(S) /\ Len(w) = Len(v) - n /\ \A i \in 1 .. Len(v) - n : w[i] = v[i + n]
    <2>1. n =< Len(v)
        BY <1>0, <1>2
    <2> QED
        BY <1>2, <2>1, SeqTail
<1>u. u \in Seq(S)
    BY <1>1
<1> DEFINE x == u \o t
<1>4. /\ x \in Seq(S) /\ Len(x) = Len(u) + Len(t)
      /\ \A i \in 1 .. Len(u) : x[i] = u[i]
      /\ \A i \in 1 .. Len(t) : x[Len(u) + i] = t[i]
    BY <1>u, Concat
<1> HIDE DEF w, x
<1>5. ASSUME NEW i \in 1 .. Len(x)
      PROVE  x[i] = w[i]
    <2>1. CASE i =< Len(u)
        BY <1>0, <1>1, <1>2, <1>3, <1>4, <2>1
    <2>2. CASE i > Len(u)
        <3>1. i - Len(u) \in 1 .. Len(t) /\ i = Len(u) + (i - Len(u))
            BY <1>0, <1>1, <1>4, <2>2
        <3>2. x[i] = t[i - Len(u)]
            BY <1>4, <3>1
        <3>3. i + n = Len(s) + (i - Len(u)) /\ i \in 1 .. Len(v) - n
            BY <1>0, <1>1, <1>2, <1>4, <2>2
        <3> QED
            BY <1>2, <1>3, <3>1, <3>2, <3>3
    <2> QED
        BY <1>0, <1>1, <1>4, <2>1, <2>2
<1>6. Len(x) = Len(w)
    BY <1>0, <1>1, <1>2, <1>3, <1>4
<1>7. x = w
    BY <1>3, <1>4, <1>5, <1>6, SeqEqual
<1> QED
    BY <1>7 DEF x, w, u, v

\* A record that is sent in two parts is the whole record.
LEMMA CutConcat ==
    ASSUME NEW S, NEW s \in Seq(S), NEW t \in Seq(S), NEW n \in Nat, n =< Len(t)
    PROVE  (s \o SubSeq(t, 1, n)) \o SubSeq(t, n + 1, Len(t)) = s \o t
<1> DEFINE a == SubSeq(t, 1, n)
           b == SubSeq(t, n + 1, Len(t))
           v == s \o a
           w == v \o b
           x == s \o t
<1>0. Len(s) \in Nat /\ Len(t) \in Nat
    OBVIOUS
<1>1. a \in Seq(S) /\ Len(a) = n /\ \A i \in 1 .. n : a[i] = t[i]
    BY SeqHead
<1>2. b \in Seq(S) /\ Len(b) = Len(t) - n /\ \A i \in 1 .. Len(t) - n : b[i] = t[i + n]
    BY SeqTail
<1> HIDE DEF a, b
<1>ab. a \in Seq(S) /\ b \in Seq(S)
    BY <1>1, <1>2
<1>3. /\ v \in Seq(S) /\ Len(v) = Len(s) + Len(a)
      /\ \A i \in 1 .. Len(s) : v[i] = s[i]
      /\ \A i \in 1 .. Len(a) : v[Len(s) + i] = a[i]
    BY <1>ab, Concat
<1> HIDE DEF v
<1>v. v \in Seq(S)
    BY <1>3
<1>4. /\ w \in Seq(S) /\ Len(w) = Len(v) + Len(b)
      /\ \A i \in 1 .. Len(v) : w[i] = v[i]
      /\ \A i \in 1 .. Len(b) : w[Len(v) + i] = b[i]
    BY <1>ab, <1>v, Concat
<1>5. /\ x \in Seq(S) /\ Len(x) = Len(s) + Len(t)
      /\ \A i \in 1 .. Len(s) : x[i] = s[i]
      /\ \A i \in 1 .. Len(t) : x[Len(s) + i] = t[i]
    BY Concat
<1> HIDE DEF w, x
<1>6. ASSUME NEW i \in 1 .. Len(w)
      PROVE  w[i] = x[i]
    <2>1. CASE i =< Len(s)
        BY <1>0, <1>1, <1>3, <1>4, <1>5, <2>1
    <2>2. CASE i > Len(s) /\ i =< Len(v)
        <3>1. i - Len(s) \in 1 .. Len(a) /\ i = Len(s) + (i - Len(s)) /\ i \in 1 .. Len(v)
            BY <1>0, <1>1, <1>3, <2>2
        <3>2. w[i] = a[i - Len(s)]
            BY <1>3, <1>4, <3>1
        <3>3. i - Len(s) \in 1 .. Len(t)
            BY <1>0, <1>1, <3>1
        <3> QED
            BY <1>1, <1>5, <3>1, <3>2, <3>3
    <2>3. CASE i > Len(v)
        <3>1. i - Len(v) \in 1 .. Len(b) /\ i = Len(v) + (i - Len(v))
            BY <1>0, <1>1, <1>2, <1>3, <1>4, <2>3
        <3>2. w[i] = b[i - Len(v)]
            BY <1>4, <3>1
        <3>3. (i - Len(v)) + n \in 1 .. Len(t) /\ i = Len(s) + ((i - Len(v)) + n)
            BY <1>0, <1>1, <1>2, <1>3, <3>1
        <3>4. x[i] = t[(i - Len(v)) + n]
            BY <1>5, <3>3
        <3> QED
            BY <1>2, <3>1, <3>2, <3>4
    <2> QED
        BY <1>0, <1>1, <1>3, <1>4, <2>1, <2>2, <2>3
<1>7. Len(w) = Len(x)
    BY <1>0, <1>1, <1>2, <1>3, <1>4, <1>5
<1>8. w = x
    BY <1>4, <1>5, <1>6, <1>7, SeqEqual
<1> QED
    BY <1>8 DEF w, x, v, a, b

-----------------------------------------------------------------------------
(* The invariant of handle_fd.                                             *)

\* Bytes of the record that have been read from d.
Offset(d) == IF pc = "read" /\ d = fd THEN done ELSE 0

\* d's descriptor is in blocking mode exactly while a record from it is incomplete.
Partial(d) == pc \in Busy /\ d = fd /\ done > 0

DevOK(d) ==
  /\ Runs(Coming(d))
  /\ Coming(d) # <<>> => Coming(d)[1].pos = Offset(d) + 1
  /\ blocking[d] = Partial(d)

\* The record in buf is what precedes the bytes to come.
BufInv ==
  pc \in Busy /\ fd \notin interrupted =>
    /\ done >= 0
    /\ pc = "read" /\ done > 0 =>
         /\ \A i \in 1 .. done : buf[i] = [key |-> buf[1].key, pos |-> i]
         /\ fd \in plugged => Coming(fd) # <<>> /\ Coming(fd)[1].key = buf[1].key
    /\ pc = "message" => \E k \in Keys : Whole(k)

DevInv == \A d \in listening \ interrupted : DevOK(d)

Inv == TypeInv /\ DevInv /\ BufInv /\ RecordsWhole

\* What a device has sent and will send are bytes.
LEMMA ComingType ==
    ASSUME TypeOK, NEW d \in Ids
    PROVE  Coming(d) \in Seq(Byte) /\ stream[d] \in Seq(Byte) /\ due[d] \in Seq(Byte)
BY DEF TypeOK, Coming

\* A device no byte of which moves.
LEMMA DevSame ==
    ASSUME NEW d, DevOK(d), stream'[d] = stream[d], due'[d] = due[d], blocking'[d] = blocking[d],
           Offset(d)' = Offset(d), Partial(d)' = Partial(d)
    PROVE  DevOK(d)'
<1>1. Coming(d)' = Coming(d)
    BY DEF Coming
<1> QED
    BY <1>1 DEF DevOK

\* The invariant holds initially ...
LEMMA InvInit == Init => Inv
<1> SUFFICES ASSUME Init
             PROVE  Inv
    OBVIOUS
<1>1. TypeInv
    BY TypeInit
<1>2. pc \in {"epoll", "exit"} /\ pc \notin Busy
    BY DEF Init, Busy
<1>3. ASSUME NEW d \in listening
      PROVE  DevOK(d)
    <2>1. d \in Ids
        BY <1>1 DEF TypeInv, TypeOK
    <2>2. stream[d] = <<>> /\ due[d] = <<>> /\ blocking[d] = FALSE
        BY <2>1 DEF Init
    <2>3. Coming(d) = <<>>
        BY <2>2 DEF Coming
    <2> QED
        BY <1>2, <2>2, <2>3, RunsEmpty DEF DevOK, Partial
<1> QED
    BY <1>1, <1>2, <1>3 DEF Inv, DevInv, BufInv, RecordsWhole, Init

\* read() of n bytes, when no read of this device was interrupted.
LEMMA ReadStep ==
    ASSUME Inv, NEW n \in 1 .. Size + MaxFaults, Read(n), fd \notin interrupted
    PROVE  DevOK(fd)' /\ BufInv'
<1>0. /\ Size \in Nat \ {0, 1} /\ n \in Nat \ {0} /\ pc = "read" /\ fd \in plugged
      /\ pc \in Busy /\ fd' = fd
    BY BrightnessAssumption DEF Read, Busy
<1>1. fd \in listening /\ fd \in Ids /\ TypeOK
    BY <1>0 DEF Inv, TypeInv, FdInv, TypeOK
<1>2. DevOK(fd)
    BY <1>1 DEF Inv, DevInv
<1>3. done \in Nat /\ done =< Size - 1
    BY <1>0, <1>1 DEF Inv, BufInv, TypeOK
<1>4. n =< Len(stream[fd]) /\ n =< Size - done
    BY DEF Read
<1> DEFINE s == Coming(fd)
           k == s[1].key
<1>5. s \in Seq(Byte) /\ stream[fd] \in Seq(Byte) /\ due[fd] \in Seq(Byte)
    BY <1>1, ComingType
<1>6. /\ Len(s) = Len(stream[fd]) + Len(due[fd])
      /\ \A i \in 1 .. Len(stream[fd]) : s[i] = stream[fd][i]
    <2> DEFINE a == stream[fd]
               b == due[fd]
    <2>1. a \in Seq(Byte) /\ b \in Seq(Byte)
        BY <1>5
    <2>2. s = a \o b
        BY DEF Coming
    <2> HIDE DEF a, b, s
    <2>3. /\ Len(s) = Len(a) + Len(b)
          /\ \A i \in 1 .. Len(a) : s[i] = a[i]
        BY <2>1, <2>2, Concat
    <2> QED
        BY <2>3 DEF a, b
<1>l. Len(stream[fd]) \in Nat /\ Len(due[fd]) \in Nat /\ Len(s) \in Nat
    BY <1>5
<1>7. Coming(fd)' = SubSeq(s, n + 1, Len(s))
    <2>1. stream'[fd] = SubSeq(stream[fd], n + 1, Len(stream[fd])) /\ due' = due
        BY <1>1 DEF Read, TypeOK
    <2>2. n \in Nat
        BY <1>0
    <2>3. SubSeq(stream[fd], n + 1, Len(stream[fd])) \o due[fd]
             = SubSeq(stream[fd] \o due[fd], n + 1, Len(stream[fd] \o due[fd]))
        BY <1>4, <1>5, <2>2, DropConcat
    <2> QED
        BY <1>0, <2>1, <2>3 DEF Coming
<1>8. s # <<>> /\ 1 \in 1 .. Len(s) /\ n \in 1 .. Len(s)
    <2> HIDE DEF s
    <2>1. 1 \in 1 .. Len(s) /\ n \in 1 .. Len(s)
        <3>1. \A m, a, b, c \in Nat : m # 0 /\ m =< a /\ c = a + b => 1 \in 1 .. c /\ m \in 1 .. c
            OBVIOUS
        <3>2. Len(s) = Len(stream[fd]) + Len(due[fd])
            BY <1>6
        <3> QED
            BY <1>0, <1>l, <1>4, <3>1, <3>2
    <2>2. ASSUME s = <<>>
          PROVE  FALSE
        <3>1. Len(s) = 0
            BY <2>2
        <3> QED
            BY <2>1, <3>1
    <2> QED
        BY <2>1, <2>2
<1>9. Runs(s) /\ s[1].pos = done + 1 /\ k \in Keys
    BY <1>0, <1>2, <1>5, <1>8, ByteType DEF DevOK, Offset
<1> HIDE DEF s
<1>10. /\ Size - done =< Len(s)
       /\ \A j \in 1 .. Size - done : s[j] = [key |-> k, pos |-> done + j]
       /\ Size - done < Len(s) => s[Size - done + 1].pos = 1
    <2>1. 1 + (Size - (done + 1)) = Size - done
        BY <1>0, <1>3
    <2>2. /\ Size - done =< Len(s)
          /\ \A j \in 1 .. Size - done : s[j] = [key |-> k, pos |-> (done + 1) + (j - 1)]
          /\ Size - done < Len(s) => s[Size - done + 1].pos = 1
        BY <1>8, <1>9, <2>1 DEF Runs
    <2>3. \A j \in 1 .. Size - done : (done + 1) + (j - 1) = done + j
        BY <1>0, <1>3
    <2> QED
        BY <2>2, <2>3
<1>11. \A i \in 1 .. done + n : i \in 1 .. Size => buf'[i] = [key |-> k, pos |-> i]
    <2> SUFFICES ASSUME NEW i \in 1 .. done + n, i \in 1 .. Size
                 PROVE  buf'[i] = [key |-> k, pos |-> i]
        OBVIOUS
    <2>1. CASE i > done
        <3>1. i - done \in 1 .. n /\ i - done \in 1 .. Size - done /\ done + (i - done) = i
            BY <1>0, <1>3, <1>4, <2>1
        <3>2. buf'[i] = stream[fd][i - done]
            BY <3>1 DEF Read
        <3>3. stream[fd][i - done] = s[i - done]
            <4>1. i - done \in 1 .. Len(stream[fd])
                BY <1>l, <1>0, <1>4, <3>1
            <4> QED
                BY <1>6, <4>1
        <3> QED
            BY <1>10, <3>1, <3>2, <3>3
    <2>2. CASE i =< done
        <3>1. i - done \notin 1 .. n /\ i \in 1 .. done /\ done > 0
            BY <1>0, <1>3, <2>2
        <3>2. buf'[i] = buf[i]
            BY <3>1 DEF Read
        <3>3. buf[i] = [key |-> buf[1].key, pos |-> i] /\ s # <<>> /\ s[1].key = buf[1].key
            BY <1>0, <3>1 DEF Inv, BufInv, s
        <3> QED
            BY <3>2, <3>3
    <2> QED
        BY <1>0, <1>3, <2>1, <2>2
<1>12. Runs(SubSeq(s, n + 1, Len(s)))
    BY <1>0, <1>5, <1>8, <1>9, RunsDrop
<1>13. /\ Len(SubSeq(s, n + 1, Len(s))) = Len(s) - n
       /\ \A i \in 1 .. Len(s) - n : SubSeq(s, n + 1, Len(s))[i] = s[i + n]
    BY <1>0, <1>5, <1>8, SeqTail
<1> DEFINE t == SubSeq(s, n + 1, Len(s))
<1>14. t # <<>> => 1 \in 1 .. Len(s) - n /\ t[1] = s[n + 1]
    <2>1. t # <<>> => Len(t) # 0
        BY <1>5
    <2> QED
        BY <1>5, <1>8, <1>13, <2>1
<1> HIDE DEF t
<1>15. Coming(fd)' = t /\ Runs(t)
    BY <1>7, <1>12 DEF t
<1>16. CASE n + done = Size
    <2>1. pc' = "message" /\ done' = done /\ blocking' = blocking /\ interrupted' = interrupted
        BY <1>16 DEF Read, history
    <2>2. \A i \in 1 .. Size : buf'[i] = [key |-> k, pos |-> i]
        BY <1>0, <1>3, <1>11, <1>16
    <2>3. (\E kk \in Keys : Whole(kk))'
        BY <1>9, <2>2 DEF Whole
    <2>4. t # <<>> => t[1].pos = 1
        <3>1. n = Size - done
            BY <1>0, <1>3, <1>16
        <3> QED
            BY <1>0, <1>3, <1>5, <1>10, <1>14, <3>1
    <2>5. Partial(fd)' = Partial(fd)
        BY <1>0, <2>1 DEF Partial, Busy
    <2>6. Offset(fd)' = 0
        BY <2>1 DEF Offset
    <2>7. DevOK(fd)'
        BY <1>2, <1>15, <2>1, <2>4, <2>5, <2>6, <1>0 DEF DevOK
    <2> QED
        BY <1>0, <1>3, <2>1, <2>3, <2>7 DEF BufInv
<1>17. CASE n + done # Size
    <2>1. pc' = "read" /\ done' = done + n /\ interrupted' = interrupted /\ plugged' = plugged
        BY <1>0, <1>17 DEF Read, history
    <2>2. blocking'[fd] = TRUE
        BY <1>1, <1>17 DEF Read, TypeOK
    <2>3. done + n \in Nat /\ done + n > 0 /\ done + n < Size /\ n + 1 \in 1 .. Size - done
        BY <1>0, <1>3, <1>4, <1>17
    <2>4. t # <<>>
        <3>1. Len(t) > 0
            BY <1>0, <1>3, <1>5, <1>8, <1>10, <1>13, <2>3 DEF t
        <3> QED
            BY <3>1
    <2>5. t[1] = [key |-> k, pos |-> done + (n + 1)]
        BY <1>10, <1>14, <2>3, <2>4
    <2>6. Partial(fd)' = TRUE
        BY <1>0, <2>1, <2>3 DEF Partial, Busy
    <2>7. Offset(fd)' = done + n
        BY <1>0, <2>1 DEF Offset
    <2>8. t[1].pos = (done + n) + 1 /\ t[1].key = k
        BY <1>0, <1>3, <2>5
    <2>9. DevOK(fd)'
        BY <1>0, <1>15, <2>2, <2>6, <2>7, <2>8, ZenonT(40) DEF DevOK
    <2>10. \A i \in 1 .. done + n : buf'[i] = [key |-> k, pos |-> i]
        <3>1. \A i \in 1 .. done + n : i \in 1 .. Size
            BY <1>0, <1>3, <2>3
        <3> QED
            BY <1>11, <3>1
    <2>11. buf'[1].key = k
        <3>1. 1 \in 1 .. done + n
            BY <2>3
        <3>2. buf'[1] = [key |-> k, pos |-> 1]
            BY <2>10, <3>1
        <3> QED
            BY <3>2
    <2>12. /\ \A i \in 1 .. done' : buf'[i] = [key |-> buf'[1].key, pos |-> i]
           /\ Coming(fd)' # <<>> /\ Coming(fd)'[1].key = buf'[1].key
        BY <1>15, <2>1, <2>4, <2>8, <2>10, <2>11
    <2> QED
        BY <1>0, <2>1, <2>3, <2>9, <2>12 DEF BufInv, Coming
<1> QED
    BY <1>16, <1>17

\* The devices other than the one whose bytes move.
LEMMA OthersSame ==
    ASSUME Inv, TypeInv', listening' \subseteq listening, interrupted \subseteq interrupted',
           NEW e \in Ids \cup {None},
           \A d \in listening \ interrupted :
             d # e => /\ stream'[d] = stream[d] /\ due'[d] = due[d] /\ blocking'[d] = blocking[d]
                      /\ Offset(d)' = Offset(d) /\ Partial(d)' = Partial(d),
           e \in listening' \ interrupted' => DevOK(e)'
    PROVE  DevInv'
<1> SUFFICES ASSUME NEW d \in listening' \ interrupted'
             PROVE  DevOK(d)'
    BY DEF DevInv
<1>1. d \in listening \ interrupted
    OBVIOUS
<1>2. CASE d = e
    BY <1>2
<1>3. CASE d # e
    BY <1>1, <1>3, DevSame DEF Inv, DevInv
<1> QED
    BY <1>2, <1>3

\* The next record: `done' and the mode of the descriptor begin anew.
LEMMA NextRecordStep ==
    ASSUME Inv, TypeInv', NextRecord, pc \in {"message", "level"},
           UNCHANGED <<plugged, listening, stream, due, fd, interrupted>>
    PROVE  DevInv' /\ BufInv'
<1>1. fd \in listening /\ fd \in Ids /\ pc \in Busy /\ pc # "read" /\ TypeOK
    BY DEF Inv, TypeInv, FdInv, TypeOK, Busy
<1>2. /\ pc' = "read" /\ done' = 0 /\ fd' = fd /\ stream' = stream /\ due' = due
      /\ listening' = listening /\ interrupted' = interrupted
    BY DEF NextRecord
<1>3. ASSUME NEW d
      PROVE  Offset(d)' = 0 /\ Offset(d) = 0 /\ Partial(d)' = FALSE
    BY <1>1, <1>2 DEF Offset, Partial
<1>4. ASSUME NEW d \in listening \ interrupted, d # fd
      PROVE  blocking'[d] = blocking[d] /\ Partial(d) = FALSE
    <2>1. Partial(d) = FALSE
        BY <1>4 DEF Partial
    <2>2. blocking'[d] = blocking[d]
        BY <1>1, <1>4 DEF NextRecord, TypeOK
    <2> QED
        BY <2>1, <2>2
<1>5. ASSUME fd \in listening' \ interrupted'
      PROVE  DevOK(fd)'
    <2>1. DevOK(fd) /\ done >= 0 /\ done \in Int
        BY <1>1, <1>2, <1>5 DEF Inv, DevInv, BufInv, TypeOK
    <2>2. blocking'[fd] = FALSE
        <3>1. CASE done = 0
            <4>1. Partial(fd) = FALSE
                BY <3>1 DEF Partial
            <4>2. blocking[fd] = FALSE /\ blocking' = blocking
                BY <2>1, <3>1, <4>1 DEF DevOK, NextRecord
            <4> QED
                BY <4>2
        <3>2. CASE done # 0
            BY <1>1, <3>2 DEF NextRecord, TypeOK
        <3> QED
            BY <3>1, <3>2
    <2>3. Coming(fd)' = Coming(fd)
        BY <1>2 DEF Coming
    <2>4. Runs(Coming(fd)) /\ (Coming(fd) # <<>> => Coming(fd)[1].pos = Offset(fd) + 1)
        BY <2>1 DEF DevOK
    <2>5. Offset(fd)' = Offset(fd) /\ Partial(fd)' = FALSE
        BY <1>3
    <2> QED
        BY <1>2, <2>2, <2>3, <2>4, <2>5 DEF DevOK
<1>6. DevInv'
    BY <1>1, <1>2, <1>3, <1>4, <1>5, OthersSame
<1> QED
    BY <1>2, <1>6 DEF BufInv

\* A record is sent, in full or its beginning.
LEMMA ProduceStep ==
    ASSUME Inv, TypeInv', NEW d \in Ids, NEW n \in 1 .. Size, Produce(d, n)
    PROVE  DevInv' /\ BufInv'
<1>0. Size \in Nat \ {0, 1} /\ n \in Nat /\ n =< Size /\ TypeOK
    BY BrightnessAssumption DEF Inv, TypeInv
<1>1. PICK k \in Keys : /\ stream' = [stream EXCEPT ![d] = @ \o SubSeq(Record(k), 1, n)]
                        /\ due' = [due EXCEPT ![d] = SubSeq(Record(k), n + 1, Size)]
    BY DEF Produce, Record
<1>2. /\ pc' = pc /\ fd' = fd /\ done' = done /\ buf' = buf /\ blocking' = blocking
      /\ listening' = listening /\ plugged' = plugged /\ interrupted' = interrupted
      /\ d \in plugged /\ due[d] = <<>>
    BY DEF Produce, reader, history
<1>3. ASSUME NEW e
      PROVE  Offset(e)' = Offset(e) /\ Partial(e)' = Partial(e)
    BY <1>2 DEF Offset, Partial
<1>4. stream[d] \in Seq(Byte) /\ Coming(d) = stream[d]
    BY <1>0, <1>2, ComingType, ConcatEmpty DEF Coming
<1>5. Coming(d)' = Coming(d) \o Record(k)
    <2> DEFINE r == Record(k)
    <2>1. r \in Seq(Byte) /\ Len(r) = Size
        BY RecordType
    <2>2. stream'[d] = stream[d] \o SubSeq(r, 1, n) /\ due'[d] = SubSeq(r, n + 1, Size)
        BY <1>0, <1>1 DEF TypeOK
    <2> HIDE DEF r
    <2>3. (stream[d] \o SubSeq(r, 1, n)) \o SubSeq(r, n + 1, Len(r)) = stream[d] \o r
        BY <1>0, <1>4, <2>1, CutConcat, ZenonT(40)
    <2>4. stream'[d] \o due'[d] = Coming(d) \o r
        BY <1>4, <2>1, <2>2, <2>3
    <2>5. Coming(d)' = stream'[d] \o due'[d]
        BY DEF Coming
    <2> QED
        BY <2>4, <2>5 DEF r
<1> DEFINE s == Coming(d)
           t == s \o Record(k)
<1>6. s \in Seq(Byte)
    BY <1>4
<1>7. Len(t) = Len(s) + Size /\ (\A i \in 1 .. Len(s) : t[i] = s[i]) /\ t[Len(s) + 1].pos = 1
    <2> DEFINE r == Record(k)
    <2>1. r \in Seq(Byte)
        BY RecordType
    <2>2. Len(r) = Size /\ r[1].pos = 1
        <3>1. 1 \in 1 .. Size
            BY <1>0
        <3>2. r[1] = [key |-> k, pos |-> 1] /\ Len(r) = Size
            BY <3>1, RecordType
        <3> QED
            BY <3>2
    <2>3. t = s \o r
        OBVIOUS
    <2> HIDE DEF s, t, r
    <2>4. /\ Len(t) = Len(s) + Len(r)
          /\ \A i \in 1 .. Len(s) : t[i] = s[i]
          /\ \A i \in 1 .. Len(r) : t[Len(s) + i] = r[i]
        BY <1>6, <2>1, <2>3, Concat
    <2>5. 1 \in 1 .. Len(r)
        BY <1>0, <2>2
    <2> QED
        BY <2>2, <2>4, <2>5
<1>8. t # <<>> /\ (s # <<>> => t[1] = s[1]) /\ (s = <<>> => t[1].pos = 1)
    <2> HIDE DEF s, t
    <2>1. Len(s) \in Nat /\ (s # <<>> => Len(s) # 0) /\ (s = <<>> => Len(s) = 0)
        BY <1>6
    <2>2. Len(t) # 0
        BY <1>0, <1>7, <2>1
    <2>3. t # <<>>
        <3>1. ASSUME t = <<>>
              PROVE  Len(t) = 0
            BY <3>1
        <3> QED
            BY <2>2, <3>1
    <2>4. ASSUME s # <<>>
          PROVE  t[1] = s[1]
        BY <1>7, <2>1, <2>4
    <2>5. ASSUME s = <<>>
          PROVE  t[1].pos = 1
        <3>1. Len(s) + 1 = 1
            BY <2>1, <2>5
        <3> QED
            BY <1>7, <3>1
    <2> QED
        BY <2>3, <2>4, <2>5
<1>9. ASSUME d \in listening' \ interrupted'
      PROVE  DevOK(d)'
    <2>1. DevOK(d)
        BY <1>2, <1>9 DEF Inv, DevInv
    <2>2. Runs(t)
        BY <1>6, <2>1, RunsAppend DEF DevOK
    <2>3. s = <<>> => Offset(d) = 0
        <3> SUFFICES ASSUME s = <<>>, pc = "read", d = fd
                     PROVE  done = 0
            BY DEF Offset
        <3>1. done >= 0 /\ ~(done > 0) /\ done \in Int
            BY <1>0, <1>2, <1>9 DEF Inv, BufInv, Busy, TypeOK
        <3> QED
            BY <3>1
    <2>4. t[1].pos = Offset(d) + 1
        <3>1. CASE s = <<>>
            BY <1>8, <2>3, <3>1
        <3>2. CASE s # <<>>
            BY <1>8, <2>1, <3>2 DEF DevOK
        <3> QED
            BY <3>1, <3>2
    <2> HIDE DEF s, t
    <2>5. Coming(d)' = t
        BY <1>5 DEF s, t
    <2>6. blocking'[d] = Partial(d)'
        BY <1>2, <1>3, <2>1 DEF DevOK
    <2> QED
        BY <1>3, <2>2, <2>4, <2>5, <2>6 DEF DevOK
<1>10. \A e \in Ids : e # d => stream'[e] = stream[e] /\ due'[e] = due[e]
    BY <1>0, <1>1 DEF TypeOK
<1>11. listening \subseteq Ids
    BY <1>0 DEF TypeOK
<1>12. DevInv'
    BY <1>2, <1>3, <1>9, <1>10, <1>11, OthersSame
<1>13. BufInv'
    <2>1. ASSUME pc \in Busy, fd \notin interrupted, pc = "read", done > 0, fd \in plugged
          PROVE  Coming(fd)' # <<>> /\ Coming(fd)'[1].key = buf[1].key
        <3>1. Coming(fd) # <<>> /\ Coming(fd)[1].key = buf[1].key
            BY <2>1 DEF Inv, BufInv
        <3>2. CASE fd = d
            BY <1>2, <1>5, <1>8, <3>1, <3>2
        <3>3. CASE fd # d
            <4>1. fd \in Ids
                BY <1>0, <2>1 DEF TypeOK
            <4>2. Coming(fd)' = Coming(fd)
                BY <1>2, <1>10, <3>3, <4>1 DEF Coming
            <4> QED
                BY <3>1, <4>2
        <3> QED
            BY <3>2, <3>3
    <2> QED
        BY <1>2, <2>1 DEF Inv, BufInv, Whole, Coming
<1> QED
    BY <1>12, <1>13

\* ... is kept by every step ...
LEMMA InvStep ==
    ASSUME Inv, [Next]_vars
    PROVE  Inv'
<1>0. TypeInv' /\ TypeOK /\ listening \subseteq Ids /\ None \notin Ids
    BY TypeStep, BrightnessAssumption DEF Inv, TypeInv, TypeOK
<1>1. ASSUME NEW d \in Ids, Wait(d)
      PROVE  Inv'
    <2>1. /\ pc = "epoll" /\ pc' = "read" /\ done' = 0 /\ stream' = stream /\ due' = due
          /\ blocking' = blocking /\ listening' = listening /\ interrupted' = interrupted
          /\ wrong' = wrong
        BY <1>1 DEF Wait, device, history
    <2>2. ASSUME NEW e
          PROVE  Offset(e)' = Offset(e) /\ Partial(e)' = Partial(e)
        BY <2>1 DEF Offset, Partial, Busy
    <2>3. DevInv'
        BY <1>0, <2>1, <2>2, OthersSame
    <2> QED
        BY <1>0, <2>1, <2>3 DEF Inv, BufInv, RecordsWhole
<1>2. ASSUME NEW n \in 1 .. Size + MaxFaults, Read(n)
      PROVE  Inv'
    <2>1. /\ pc = "read" /\ pc' \in {"read", "message"} /\ due' = due /\ fd' = fd /\ fd \in Ids
          /\ listening' = listening /\ interrupted' = interrupted /\ wrong' = wrong
        BY <1>0, <1>2 DEF Read, history, TypeOK
    <2>2. ASSUME NEW e \in listening \ interrupted, e # fd
          PROVE  /\ stream'[e] = stream[e] /\ blocking'[e] = blocking[e]
                 /\ Offset(e)' = Offset(e) /\ Partial(e)' = Partial(e)
        BY <1>0, <1>2, <2>1, <2>2 DEF Read, TypeOK, Offset, Partial
    <2>3. DevInv'
        BY <1>0, <1>2, <2>1, <2>2, ReadStep, OthersSame
    <2>4. BufInv'
        <3>1. CASE fd \in interrupted
            BY <2>1, <3>1 DEF BufInv
        <3>2. CASE fd \notin interrupted
            BY <1>2, <3>2, ReadStep
        <3> QED
            BY <3>1, <3>2
    <2> QED
        BY <1>0, <2>1, <2>3, <2>4 DEF Inv, RecordsWhole
<1>3. CASE ReadAgain
    <2>1. /\ pc = "read" /\ pc' = "epoll" /\ done' = 0 /\ stream' = stream /\ due' = due
          /\ blocking' = blocking /\ listening' = listening /\ interrupted' = interrupted
          /\ wrong' = wrong /\ ~blocking[fd]
        BY <1>3 DEF ReadAgain, Return, device, history
    <2>2. ASSUME NEW e
          PROVE  Offset(e)' = 0 /\ Partial(e)' = FALSE
        BY <2>1 DEF Offset, Partial, Busy
    <2>3. ASSUME NEW e \in listening \ interrupted
          PROVE  Offset(e) = 0 /\ Partial(e) = FALSE
        <3>1. CASE e # fd
            BY <3>1 DEF Offset, Partial
        <3>2. CASE e = fd
            <4>1. pc \in Busy /\ done >= 0 /\ done \in Int
                BY <1>0, <2>1, <2>3, <3>2 DEF Inv, BufInv, Busy, TypeOK
            <4>2. ~Partial(e)
                BY <2>1, <2>3, <3>2 DEF Inv, DevInv, DevOK
            <4>3. done = 0
                BY <3>2, <4>1, <4>2 DEF Partial
            <4> QED
                BY <2>1, <3>2, <4>3 DEF Offset, Partial
        <3> QED
            BY <3>1, <3>2
    <2>4. DevInv'
        BY <1>0, <2>1, <2>2, <2>3, OthersSame
    <2> QED
        BY <1>0, <2>1, <2>4 DEF Inv, BufInv, RecordsWhole, Busy
<1>4. CASE ReadGone
    <2>1. /\ pc = "read" /\ pc' = "epoll" /\ stream' = stream /\ due' = due
          /\ blocking' = blocking /\ listening' = listening \ {fd} /\ interrupted' = interrupted
          /\ wrong' = wrong
        BY <1>4 DEF ReadGone, Return, history
    <2>2. ASSUME NEW e, e # fd
          PROVE  Offset(e)' = Offset(e) /\ Partial(e)' = Partial(e)
        BY <2>1, <2>2 DEF Offset, Partial, Busy
    <2>3. fd \in Ids \cup {None}
        BY <1>0 DEF TypeOK
    <2>4. DevInv'
        BY <1>0, <2>1, <2>2, <2>3, OthersSame
    <2> QED
        BY <1>0, <2>1, <2>4 DEF Inv, BufInv, RecordsWhole, Busy
<1>5. ASSUME pc = "message", Noted, interrupted' = interrupted
      PROVE  RecordsWhole'
    <2>1. fd \notin interrupted => \E k \in Keys : Whole(k)
        BY <1>5 DEF Inv, BufInv, Busy
    <2> QED
        BY <1>5, <2>1 DEF Noted, Inv, RecordsWhole
<1>6. CASE Ignore
    <2>1. DevInv' /\ BufInv'
        BY <1>0, <1>6, NextRecordStep DEF Ignore
    <2>2. RecordsWhole'
        BY <1>5, <1>6 DEF Ignore
    <2> QED
        BY <1>0, <2>1, <2>2 DEF Inv
<1>7. CASE GetLevel
    <2>1. /\ pc = "message" /\ pc' = "level" /\ done' = done /\ fd' = fd /\ stream' = stream
          /\ due' = due /\ blocking' = blocking /\ listening' = listening /\ interrupted' = interrupted
        BY <1>7 DEF GetLevel, device
    <2>2. ASSUME NEW e
          PROVE  Offset(e)' = Offset(e) /\ Partial(e)' = Partial(e)
        BY <2>1 DEF Offset, Partial, Busy
    <2>3. DevInv'
        BY <1>0, <2>1, <2>2, OthersSame
    <2>4. RecordsWhole'
        BY <1>5, <1>7 DEF GetLevel
    <2> QED
        BY <1>0, <2>1, <2>3, <2>4 DEF Inv, BufInv, Busy
<1>8. CASE PutLevel
    <2>1. DevInv' /\ BufInv'
        BY <1>0, <1>8, NextRecordStep DEF PutLevel, history
    <2> QED
        BY <1>0, <1>8, <2>1 DEF Inv, PutLevel, history, RecordsWhole
<1>9. CASE ReadInterrupted
    <2>1. /\ pc' = pc /\ fd' = fd /\ stream' = stream /\ due' = due /\ fd \in Ids
          /\ listening' = listening /\ interrupted' = interrupted \cup {fd} /\ wrong' = wrong
        BY <1>0, <1>9 DEF ReadInterrupted, TypeOK
    <2>2. ASSUME NEW e \in listening \ interrupted, e # fd
          PROVE  blocking'[e] = blocking[e] /\ Offset(e)' = Offset(e) /\ Partial(e)' = Partial(e)
        BY <1>0, <1>9, <2>1, <2>2 DEF ReadInterrupted, Offset, Partial, TypeOK
    <2>3. DevInv'
        BY <1>0, <2>1, <2>2, OthersSame
    <2> QED
        BY <1>0, <2>1, <2>3 DEF Inv, BufInv, RecordsWhole
<1>10. ASSUME NEW d \in Ids, Complete(d)
       PROVE  Inv'
    <2>1. /\ pc' = pc /\ fd' = fd /\ done' = done /\ buf' = buf /\ blocking' = blocking
          /\ listening' = listening /\ plugged' = plugged /\ interrupted' = interrupted
          /\ wrong' = wrong
        BY <1>10 DEF Complete, reader, history
    <2>2. ASSUME NEW e \in Ids
          PROVE  Coming(e)' = Coming(e)
        <3>1. CASE e = d
            <4>1. stream'[d] = stream[d] \o due[d] /\ due'[d] = <<>>
                BY <1>0, <1>10 DEF Complete, TypeOK
            <4>2. Coming(d) \in Seq(Byte)
                BY <1>0, ComingType
            <4>3. Coming(d) \o <<>> = Coming(d)
                BY <4>2, ConcatEmpty
            <4> QED
                BY <3>1, <4>1, <4>3 DEF Coming
        <3>2. CASE e # d
            BY <1>0, <1>10, <3>2 DEF Complete, TypeOK, Coming
        <3> QED
            BY <3>1, <3>2
    <2>3. ASSUME NEW e \in listening \ interrupted
          PROVE  DevOK(e)'
        <3>1. DevOK(e) /\ Coming(e)' = Coming(e)
            BY <1>0, <2>2 DEF Inv, DevInv
        <3>2. Offset(e)' = Offset(e) /\ Partial(e)' = Partial(e)
            BY <2>1 DEF Offset, Partial
        <3> QED
            BY <2>1, <3>1, <3>2 DEF DevOK
    <2>4. DevInv'
        BY <2>1, <2>3 DEF DevInv
    <2>5. pc \in Busy => Coming(fd)' = Coming(fd)
        BY <1>0, <2>1, <2>2 DEF Inv, TypeInv, FdInv, Coming
    <2>6. BufInv'
        BY <2>1, <2>5 DEF Inv, BufInv, Whole
    <2> QED
        BY <1>0, <2>1, <2>4, <2>6 DEF Inv, RecordsWhole
<1>11. ASSUME NEW d \in Ids, Unplug(d)
       PROVE  Inv'
    <2>1. /\ pc' = pc /\ fd' = fd /\ done' = done /\ buf' = buf /\ blocking' = blocking
          /\ listening' = listening /\ plugged' = plugged \ {d} /\ interrupted' = interrupted
          /\ wrong' = wrong
        BY <1>11 DEF Unplug, reader, history
    <2>2. /\ stream'[d] = <<>> /\ due'[d] = <<>>
          /\ \A e \in Ids : e # d => stream'[e] = stream[e] /\ due'[e] = due[e]
        BY <1>0, <1>11 DEF Unplug, TypeOK
    <2>3. ASSUME NEW e
          PROVE  Offset(e)' = Offset(e) /\ Partial(e)' = Partial(e)
        BY <2>1 DEF Offset, Partial
    <2>4. ASSUME d \in listening' \ interrupted'
          PROVE  DevOK(d)'
        <3>1. Coming(d)' = <<>>
            BY <2>2 DEF Coming
        <3>2. blocking'[d] = Partial(d)'
            BY <2>1, <2>3, <2>4 DEF Inv, DevInv, DevOK
        <3> QED
            BY <3>1, <3>2, RunsEmpty DEF DevOK
    <2>5. DevInv'
        BY <1>0, <2>1, <2>2, <2>3, <2>4, OthersSame
    <2>6. pc \in Busy /\ fd # d => Coming(fd)' = Coming(fd)
        BY <1>0, <2>1, <2>2 DEF Inv, TypeInv, FdInv, Coming
    <2>7. BufInv'
        BY <2>1, <2>6 DEF Inv, BufInv, Whole
    <2> QED
        BY <1>0, <2>1, <2>5, <2>7 DEF Inv, RecordsWhole
<1>12. ASSUME NEW d \in Ids, NEW n \in 1 .. Size, Produce(d, n)
       PROVE  Inv'
    BY <1>0, <1>12, ProduceStep DEF Inv, RecordsWhole, Produce, history
<1>13. ASSUME UNCHANGED <<device, reader, history>>
       PROVE  Inv'
    <2>1. /\ pc' = pc /\ fd' = fd /\ done' = done /\ buf' = buf /\ blocking' = blocking
          /\ listening' = listening /\ plugged' = plugged /\ interrupted' = interrupted
          /\ wrong' = wrong /\ stream' = stream /\ due' = due
        BY <1>13 DEF device, reader, history
    <2>2. ASSUME NEW e
          PROVE  Offset(e)' = Offset(e) /\ Partial(e)' = Partial(e)
        BY <2>1 DEF Offset, Partial
    <2>3. DevInv'
        BY <1>0, <2>1, <2>2, OthersSame
    <2> QED
        BY <1>0, <2>1, <2>3 DEF Inv, BufInv, RecordsWhole, Whole, Coming
<1>14. CASE OtherWrites
    BY <1>13, <1>14 DEF OtherWrites
<1>15. CASE UNCHANGED vars
    BY <1>13, <1>15 DEF vars
<1> QED
    BY <1>1, <1>2, <1>3, <1>4, <1>6, <1>7, <1>8, <1>9, <1>10, <1>11, <1>12, <1>14, <1>15
       DEF Next, Program

\* ... and therefore always holds.
LEMMA Invariance == Spec => []Inv
<1>1. Inv /\ [Next]_vars => Inv'
    BY InvStep
<1> QED
    BY InvInit, <1>1, PTL DEF Spec

\* However read() cuts up what the devices send, handle_message sees each record
\* as it was sent, for records of any size and any number of devices; only an
\* interrupted read, the -1 of which handle_fd adds to `done', breaks it.
THEOREM Records == Spec => []RecordsWhole
<1>1. Inv => RecordsWhole
    BY DEF Inv
<1> QED
    BY Invariance, <1>1, PTL

\* Whenever the daemon waits for all devices, none of its descriptors is left in
\* blocking mode and every device is at the beginning of a record.
THEOREM Ready == Spec => []ReadyForAll
<1>1. ASSUME Inv
      PROVE  ReadyForAll
    <2> SUFFICES ASSUME pc = "epoll", NEW d \in listening \ interrupted
                 PROVE  ~blocking[d] /\ (Coming(d) # <<>> => Coming(d)[1].pos = 1)
        BY DEF ReadyForAll, Coming
    <2>1. DevOK(d)
        BY <1>1 DEF Inv, DevInv
    <2>2. Offset(d) = 0 /\ Partial(d) = FALSE
        BY DEF Offset, Partial, Busy
    <2> QED
        BY <2>1, <2>2 DEF DevOK
<1>2. Inv => ReadyForAll
    BY <1>1
<1> QED
    BY Invariance, <1>2, PTL

-----------------------------------------------------------------------------
(* The devices found.                                                      *)

ScanInv == ScanBridgesGaps /\ (faults = 0 => listening \subseteq plugged)

\* open_events finds every device before the first one that cannot be opened and
\* the first MaxGap missing numbers in a row, for any set of devices.
THEOREM Scan == Spec => []ScanBridgesGaps
<1>1. ASSUME Init
      PROVE  ScanInv
    <2>1. plugged \in SUBSET Ids /\ listening = open_events(plugged)
        BY <1>1 DEF Init
    <2>2. open_events(plugged) \subseteq plugged
        BY DEF open_events
    <2> QED
        BY <2>1, <2>2, ScanLemma DEF ScanInv, ScanBridgesGaps
<1>2. ASSUME TypeInv, ScanInv, [Next]_vars
      PROVE  ScanInv'
    <2>0. faults \in Nat /\ records \in Nat
        BY <1>2, BrightnessAssumption DEF TypeInv, TypeOK
    <2>1. CASE faults' = 0
        <3>0. ~Fault
            BY <2>0, <2>1 DEF Fault
        <3>1. faults = 0 /\ plugged' = plugged
            BY <1>2, <2>1, <3>0 DEF Next, Program, Wait, Read, ReadAgain, ReadGone, Ignore, GetLevel, PutLevel,
                    ReadInterrupted, Complete, Unplug, Produce, OtherWrites, vars, device
        <3>2. ~ReadGone
            BY <1>2, <3>1 DEF ReadGone, ScanInv, TypeInv, FdInv, Busy
        <3>3. listening' = listening
            BY <1>2, <3>2 DEF Next, Program, Wait, Read, ReadAgain, Ignore, GetLevel, PutLevel,
                    ReadInterrupted, Complete, Unplug, Produce, OtherWrites, vars, device
        <3>4. records' = 0 => records = 0
            <4>1. ASSUME NEW d \in Ids, NEW n \in 1 .. Size, Produce(d, n)
                  PROVE  records' # 0
                BY <2>0, <4>1 DEF Produce
            <4> QED
                BY <1>2, <4>1 DEF Next, Program, Wait, Read, ReadAgain, ReadGone, Ignore, GetLevel,
                    PutLevel, ReadInterrupted, Complete, Unplug, OtherWrites, vars
        <3> QED
            BY <1>2, <2>1, <3>1, <3>3, <3>4 DEF ScanInv, ScanBridgesGaps
    <2>2. CASE faults' # 0
        BY <2>2 DEF ScanInv, ScanBridgesGaps
    <2> QED
        BY <2>1, <2>2
<1>3. Init => TypeInv /\ ScanInv
    BY <1>1, TypeInit
<1>4. TypeInv /\ ScanInv /\ [Next]_vars => (TypeInv /\ ScanInv)'
    BY <1>2, TypeStep
<1>5. ScanInv => ScanBridgesGaps
    BY DEF ScanInv
<1> QED
    BY <1>3, <1>4, <1>5, PTL DEF Spec
=============================================================================

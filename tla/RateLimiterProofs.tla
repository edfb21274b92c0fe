-------------------------- MODULE RateLimiterProofs --------------------------
(***************************************************************************)
(* allow() of kmsgwatch.go keeps the first promise of its comment and, of   *)
(* messages within one window, the second, for every length of the ring, of *)
(* the window and of the duplicate check, and for any number of messages.   *)
(* The argument: the ring holds the last Slots accepted messages, the i-th  *)
(* at index (i - 1) % Slots (RingInv); the messages are in the order of     *)
(* time (OrderInv).                                                         *)
(***************************************************************************)
EXTENDS RateLimiter, FiniteSetTheorems, TLAPS

-----------------------------------------------------------------------------
(* The index of the ring.                                                  *)

\* The quotient and the remainder of a division by the length of the ring.
LEMMA Division ==
    ASSUME NEW n \in Nat \ {0}, NEW a \in Nat
    PROVE  /\ a \div n \in Int
           /\ a % n \in 0 .. n - 1
           /\ a = n * (a \div n) + (a % n)
OBVIOUS

\* A product with a positive factor that lies strictly between -n and n is 0.
LEMMA SmallProduct ==
    ASSUME NEW n \in Nat \ {0}, NEW k \in Int, -n < n * k, n * k < n
    PROVE  k = 0
<1>1. CASE k >= 1
    <2>1. n * (k - 1) >= 0
        BY <1>1
    <2>2. n * k = n * (k - 1) + n
        OBVIOUS
    <2> QED
        BY <2>1, <2>2
<1>2. CASE k =< -1
    <2>1. n * (-k - 1) >= 0
        BY <1>2
    <2>2. n * k = -(n * (-k - 1)) - n
        OBVIOUS
    <2> QED
        BY <2>1, <2>2
<1> QED
    BY <1>1, <1>2

\* Two numbers less than a ring apart have the same index only if they are equal.
LEMMA ModDistinct ==
    ASSUME NEW n \in Nat \ {0}, NEW a \in Nat, NEW b \in Nat,
           a - b < n, b - a < n, a % n = b % n
    PROVE  a = b
<1> DEFINE qa == a \div n
           qb == b \div n
<1>1. qa \in Int /\ a = n * qa + (a % n) /\ a % n \in Int
    BY Division
<1>2. qb \in Int /\ b = n * qb + (b % n)
    BY Division
<1> HIDE DEF qa, qb
<1>3. a - b = n * (qa - qb)
    BY <1>1, <1>2
<1>4. qa - qb = 0
    BY <1>1, <1>2, <1>3, SmallProduct
<1> QED
    BY <1>1, <1>2, <1>3, <1>4

\* A whole ring further on the index is the same.
LEMMA ModPeriod ==
    ASSUME NEW n \in Nat \ {0}, NEW a \in Nat
    PROVE  (a + n) % n = a % n
<1> DEFINE b == a + n
           q == a \div n
           p == b \div n
           r == a % n
           t == b % n
<1>1. q \in Int /\ a = n * q + r /\ r \in 0 .. n - 1
    BY Division
<1>2. p \in Int /\ a + n = n * p + t /\ t \in 0 .. n - 1
    <2>1. b \in Nat /\ b = a + n
        OBVIOUS
    <2> HIDE DEF b
    <2> QED
        BY <2>1, Division
<1> HIDE DEF p, q, r, t
<1>3. t - r = n * (q + 1 - p)
    BY <1>1, <1>2
<1>4. q + 1 - p = 0
    BY <1>1, <1>2, <1>3, SmallProduct
<1>5. t = r
    BY <1>1, <1>2, <1>3, <1>4
<1> QED
    BY <1>5 DEF r, t

-----------------------------------------------------------------------------
(* The inductive invariant.                                                *)

\* The messages were accepted in the order of time, none in the future.
OrderInv ==
  /\ now > Window
  /\ \A i \in 1 .. Len(sent) : sent[i].at =< now
  /\ \A i, j \in 1 .. Len(sent) : i =< j => sent[i].at =< sent[j].at

\* The ring holds the last Slots messages; slots never used are empty.
RingInv ==
  /\ count = Len(sent)
  /\ \A i \in 1 .. Len(sent) : i > Len(sent) - Slots => history[(i - 1) % Slots] = sent[i]
  /\ \A s \in 0 .. Slots - 1 : s >= count => history[s].at = 0

IInv == TypeOK /\ OrderInv /\ RingInv

\* Every accepted message has its time.
LEMMA EntryType ==
    ASSUME TypeOK
    PROVE  \A i \in 1 .. Len(sent) : sent[i] \in Entry /\ sent[i].at \in Nat
<1>1. \A i \in 1 .. Len(sent) : sent[i] \in Entry
    BY DEF TypeOK
<1>2. \A e \in Entry : e.at \in Nat
    BY DEF Entry
<1> QED
    BY <1>1, <1>2

\* The index of the next message is an index of the ring.
LEMMA NextSlot ==
    ASSUME TypeOK
    PROVE  count % Slots \in 0 .. Slots - 1
BY Division, RateLimiterAssumption DEF TypeOK

\* The slot the limit is compared with: never used, or the message Slots before
\* the next one.
LEMMA OldestSlot ==
    ASSUME IInv
    PROVE  /\ count < Slots => history[count % Slots].at = 0
           /\ count >= Slots => /\ count - Slots + 1 \in 1 .. Len(sent)
                                /\ history[count % Slots] = sent[count - Slots + 1]
<1>1. Slots \in Nat \ {0} /\ count \in Nat /\ count = Len(sent)
    BY RateLimiterAssumption DEF IInv, TypeOK, RingInv
<1>2. ASSUME count < Slots
      PROVE  history[count % Slots].at = 0
    <2>1. count % Slots = count
        BY <1>1, <1>2
    <2> QED
        BY <1>1, <1>2, <2>1 DEF IInv, RingInv
<1>3. ASSUME count >= Slots
      PROVE  /\ count - Slots + 1 \in 1 .. Len(sent)
             /\ history[count % Slots] = sent[count - Slots + 1]
    <2> DEFINE a == count - Slots
    <2>1. a \in Nat /\ a + Slots = count /\ a + 1 \in 1 .. Len(sent) /\ a + 1 > Len(sent) - Slots
        BY <1>1, <1>3
    <2> HIDE DEF a
    <2>2. count % Slots = a % Slots
        BY <1>1, <2>1, ModPeriod
    <2>3. history[((a + 1) - 1) % Slots] = sent[a + 1]
        BY <2>1 DEF IInv, RingInv
    <2>4. (a + 1) - 1 = a
        BY <2>1
    <2> QED
        BY <2>1, <2>2, <2>3, <2>4 DEF a
<1> QED
    BY <1>2, <1>3

\* Every step of allow() and of the clock keeps the types.
LEMMA TypeStep ==
    ASSUME TypeOK, [Next]_vars
    PROVE  TypeOK'
<1>1. ASSUME NEW m \in Msgs, DropLimited(m)
      PROVE  TypeOK'
    BY <1>1 DEF DropLimited, TypeOK
<1>2. ASSUME NEW m \in Msgs, DropDuplicate(m)
      PROVE  TypeOK'
    BY <1>2 DEF DropDuplicate, TypeOK
<1>3. ASSUME NEW m \in Msgs, Accept(m)
      PROVE  TypeOK'
    <2>1. [msg |-> m, at |-> now] \in Entry
        BY DEF TypeOK, Entry
    <2>2. history' \in [0 .. Slots - 1 -> Entry] /\ sent' \in Seq(Entry)
        BY <1>3, <2>1, NextSlot DEF Accept, TypeOK
    <2> QED
        BY <1>3, <2>2 DEF Accept, TypeOK
<1>4. ASSUME Tick
      PROVE  TypeOK'
    BY <1>4, RateLimiterAssumption DEF Tick, TypeOK
<1>5. CASE UNCHANGED vars
    BY <1>5 DEF vars, TypeOK
<1> QED
    BY <1>1, <1>2, <1>3, <1>4, <1>5 DEF Next

\* Accepting a message appends it to those sent before.
LEMMA SentStep ==
    ASSUME IInv, NEW m \in Msgs, Accept(m)
    PROVE  /\ Len(sent') = Len(sent) + 1
           /\ \A i \in 1 .. Len(sent) : sent'[i] = sent[i]
           /\ sent'[Len(sent) + 1] = [msg |-> m, at |-> now]
<1>1. sent \in Seq(Entry) /\ sent' = Append(sent, [msg |-> m, at |-> now])
    BY DEF Accept, IInv, TypeOK
<1>2. [msg |-> m, at |-> now] \in Entry
    BY DEF IInv, TypeOK, Entry
<1> QED
    BY <1>1, <1>2

\* Accepting a message overwrites the oldest slot and no other of the last ones.
LEMMA RingAccept ==
    ASSUME IInv, NEW m \in Msgs, Accept(m)
    PROVE  OrderInv' /\ RingInv'
<1>0. Slots \in Nat \ {0} /\ count \in Nat /\ count = Len(sent) /\ now \in Nat
    BY RateLimiterAssumption DEF IInv, TypeOK, RingInv
<1>1. /\ Len(sent') = count + 1
      /\ \A i \in 1 .. count : sent'[i] = sent[i]
      /\ sent'[count + 1] = [msg |-> m, at |-> now]
    BY <1>0, SentStep
<1>2. /\ count' = count + 1 /\ now' = now
      /\ history' = [history EXCEPT ![count % Slots] = [msg |-> m, at |-> now]]
      /\ history \in [0 .. Slots - 1 -> Entry]
    BY DEF Accept, IInv, TypeOK
<1>3. OrderInv'
    <2>0. \A i \in 1 .. count : sent[i].at \in Nat
        BY <1>0, EntryType DEF IInv
    <2>1. \A i \in 1 .. count + 1 : sent'[i].at =< now
        BY <1>0, <1>1 DEF IInv, OrderInv
    <2>2. \A i, j \in 1 .. count + 1 : i =< j => sent'[i].at =< sent'[j].at
        BY <1>0, <1>1, <2>0 DEF IInv, OrderInv
    <2> QED
        BY <1>0, <1>1, <1>2, <2>1, <2>2 DEF IInv, OrderInv
<1>4. ASSUME NEW i \in 1 .. Len(sent'), i > Len(sent') - Slots
      PROVE  history'[(i - 1) % Slots] = sent'[i]
    <2>1. i - 1 \in Nat /\ i \in Nat /\ i =< count + 1 /\ i - 1 > count - Slots
        BY <1>0, <1>1, <1>4
    <2>2. (i - 1) % Slots \in 0 .. Slots - 1
        BY <1>0, <2>1, Division
    <2>3. CASE i = count + 1
        <3>1. (i - 1) % Slots = count % Slots
            BY <1>0, <2>3
        <3> QED
            BY <1>1, <1>2, <2>2, <2>3, <3>1
    <2>4. CASE i # count + 1
        <3>1. i \in 1 .. count /\ i > count - Slots
            BY <1>0, <2>1, <2>4
        <3>2. (i - 1) % Slots # count % Slots
            <4> DEFINE b == i - 1
            <4>1. b \in Nat /\ b # count /\ count - b < Slots /\ b - count < Slots
                BY <1>0, <2>1, <2>4
            <4> HIDE DEF b
            <4>2. b % Slots # count % Slots
                BY <1>0, <4>1, ModDistinct
            <4> QED
                BY <4>2 DEF b
        <3>3. history'[(i - 1) % Slots] = history[(i - 1) % Slots]
            BY <1>2, <2>2, <3>2
        <3> QED
            BY <1>0, <1>1, <3>1, <3>3 DEF IInv, RingInv
    <2> QED
        BY <2>3, <2>4
<1>5. ASSUME NEW s \in 0 .. Slots - 1, s >= count'
      PROVE  history'[s].at = 0
    <2>1. s > count /\ count < Slots
        BY <1>0, <1>2, <1>5
    <2>2. count % Slots = count
        BY <1>0, <2>1
    <2>3. history'[s] = history[s]
        BY <1>0, <1>2, <2>1, <2>2
    <2> QED
        BY <1>0, <2>1, <2>3 DEF IInv, RingInv
<1> QED
    BY <1>0, <1>1, <1>2, <1>3, <1>4, <1>5 DEF RingInv

\* The invariant is kept by every step ...
LEMMA InvStep ==
    ASSUME IInv, [Next]_vars
    PROVE  IInv'
<1>1. TypeOK'
    BY TypeStep DEF IInv
<1>2. ASSUME NEW m \in Msgs, Accept(m)
      PROVE  OrderInv' /\ RingInv'
    BY <1>2, RingAccept
<1>3. ASSUME UNCHANGED <<history, count, sent>>, now' \in Nat, now' >= now
      PROVE  OrderInv' /\ RingInv'
    <2>1. now \in Nat /\ \A i \in 1 .. Len(sent) : sent[i].at \in Nat
        BY EntryType DEF IInv, TypeOK
    <2> QED
        BY <1>3, <2>1, RateLimiterAssumption DEF IInv, OrderInv, RingInv
<1>4. now \in Nat
    BY DEF IInv, TypeOK
<1>5. ASSUME NEW m \in Msgs, DropLimited(m) \/ DropDuplicate(m)
      PROVE  OrderInv' /\ RingInv'
    BY <1>3, <1>4, <1>5 DEF DropLimited, DropDuplicate
<1>6. ASSUME Tick
      PROVE  OrderInv' /\ RingInv'
    BY <1>3, <1>4, <1>6, RateLimiterAssumption DEF Tick
<1>7. ASSUME UNCHANGED vars
      PROVE  OrderInv' /\ RingInv'
    BY <1>3, <1>4, <1>7 DEF vars
<1> QED
    BY <1>1, <1>2, <1>5, <1>6, <1>7 DEF Next, IInv

\* ... and holds initially.
LEMMA InvInit == Init => IInv
<1> SUFFICES ASSUME Init PROVE IInv
    OBVIOUS
<1>1. TypeOK
    BY RateLimiterAssumption DEF Init, TypeOK, Entry
<1>2. OrderInv /\ RingInv
    BY RateLimiterAssumption DEF Init, OrderInv, RingInv
<1> QED
    BY <1>1, <1>2 DEF IInv

\* The ring of allow() is what its index arithmetic takes it for: well typed, in
\* the order of time, the last Slots accepted messages.
THEOREM RingCorrect == Spec => []IInv
<1> QED
    BY InvInit, InvStep, PTL DEF Spec

-----------------------------------------------------------------------------
(* The promises of the comment.                                            *)

\* No more than Slots messages in any window, kept by every step.
LEMMA WindowStep ==
    ASSUME IInv, AtMostSlotsPerWindow, [Next]_vars
    PROVE  AtMostSlotsPerWindow'
<1>0. /\ Slots \in Nat \ {0} /\ Window \in Nat \ {0}
      /\ count \in Nat /\ count = Len(sent) /\ now \in Nat
    BY RateLimiterAssumption DEF IInv, TypeOK, RingInv
<1>1. ASSUME NEW m \in Msgs, Accept(m), NEW i \in 1 .. Len(sent') - Slots
      PROVE  sent'[i + Slots].at - sent'[i].at >= Window
    <2>1. /\ Len(sent') = count + 1
          /\ \A k \in 1 .. count : sent'[k] = sent[k]
          /\ sent'[count + 1] = [msg |-> m, at |-> now]
        BY <1>0, <1>1, SentStep
    <2>2. i \in 1 .. count + 1 - Slots /\ i \in 1 .. count
        BY <1>0, <1>1, <2>1
    <2>3. CASE i = count + 1 - Slots
        <3>1. count >= Slots /\ count - Slots + 1 = i /\ i + Slots = count + 1
            BY <1>0, <2>2, <2>3
        <3>2. history[count % Slots] = sent[i]
            BY <3>1, OldestSlot
        <3>3. ~(sent[i].at > now - Window)
            BY <1>1, <3>2 DEF Accept, LimitReached
        <3>4. sent[i].at \in Nat
            BY <1>0, <2>2, EntryType DEF IInv
        <3>5. sent'[i + Slots].at = now /\ sent'[i] = sent[i]
            BY <2>1, <2>2, <3>1
        <3> QED
            BY <1>0, <3>3, <3>4, <3>5
    <2>4. CASE i # count + 1 - Slots
        <3>1. i \in 1 .. Len(sent) - Slots /\ i + Slots \in 1 .. count
            BY <1>0, <2>2, <2>4
        <3>2. sent[i + Slots].at - sent[i].at >= Window
            BY <3>1 DEF AtMostSlotsPerWindow
        <3> QED
            BY <2>1, <2>2, <3>1, <3>2
    <2> QED
        BY <2>3, <2>4
<1>2. ASSUME UNCHANGED sent
      PROVE  AtMostSlotsPerWindow'
    BY <1>2 DEF AtMostSlotsPerWindow
<1>3. ASSUME NEW m \in Msgs, Accept(m)
      PROVE  AtMostSlotsPerWindow'
    BY <1>1, <1>3 DEF AtMostSlotsPerWindow
<1> QED
    BY <1>2, <1>3 DEF Next, DropLimited, DropDuplicate, Tick, vars

\* "no more than 100 messages in any 900-second window": for every length of
\* ring and window.
THEOREM WindowCorrect == Spec => []AtMostSlotsPerWindow
<1>1. Init => AtMostSlotsPerWindow
    <2> SUFFICES ASSUME Init PROVE AtMostSlotsPerWindow
        OBVIOUS
    <2>1. Len(sent) = 0 /\ Slots \in Nat \ {0}
        BY RateLimiterAssumption DEF Init
    <2> QED
        BY <2>1 DEF AtMostSlotsPerWindow
<1> QED
    BY <1>1, RingCorrect, WindowStep, PTL DEF Spec

\* Messages of the window that ends now.
Recent == {i \in 1 .. Len(sent) : sent[i].at > now - Window}

\* When the oldest slot lies in the window all the messages of the ring do.
LEMMA FullWindow ==
    ASSUME IInv, LimitReached
    PROVE  Cardinality(Recent) >= Slots
<1>0. /\ Slots \in Nat \ {0} /\ Window \in Nat \ {0}
      /\ count \in Nat /\ count = Len(sent) /\ now \in Nat /\ now > Window
    BY RateLimiterAssumption DEF IInv, TypeOK, RingInv, OrderInv
<1>1. count >= Slots
    <2> SUFFICES ASSUME count < Slots PROVE FALSE
        BY <1>0
    <2>1. history[count % Slots].at = 0
        BY OldestSlot
    <2> QED
        BY <1>0, <2>1 DEF LimitReached
<1> DEFINE a == count - Slots + 1
<1>2. a \in 1 .. count /\ sent[a].at > now - Window
    BY <1>0, <1>1, OldestSlot DEF LimitReached
<1>3. ASSUME NEW i \in a .. count
      PROVE  i \in Recent
    <2>1. i \in 1 .. Len(sent) /\ a \in 1 .. Len(sent) /\ a =< i
        BY <1>0, <1>2
    <2>2. sent[a].at =< sent[i].at
        BY <2>1 DEF IInv, OrderInv
    <2>3. sent[a].at \in Nat /\ sent[i].at \in Nat
        BY <2>1, EntryType DEF IInv
    <2> QED
        BY <1>0, <1>2, <2>1, <2>2, <2>3 DEF Recent
<1>4. a .. count \in SUBSET Recent
    BY <1>3
<1>5. IsFiniteSet(Recent)
    <2>1. IsFiniteSet(1 .. count)
        BY <1>0, FS_Interval
    <2>2. Recent \in SUBSET (1 .. count)
        BY <1>0 DEF Recent
    <2> QED
        BY <2>1, <2>2, FS_Subset
<1>6. Cardinality(a .. count) = Slots
    <2>1. a \in Int /\ count \in Int /\ ~(a > count) /\ count - a + 1 = Slots
        BY <1>0, <1>1, <1>2
    <2> HIDE DEF a
    <2> QED
        BY <2>1, FS_Interval
<1>7. Cardinality(a .. count) =< Cardinality(Recent)
    BY <1>4, <1>5, FS_Subset
<1> QED
    BY <1>6, <1>7

\* The limit refuses nothing it need not refuse: Slots messages of the window that
\* ends now were accepted.
THEOREM RefusalCorrect == Spec => []RefusedOnlyWhenFull
<1>1. Init => RefusedOnlyWhenFull
    BY DEF Init, RefusedOnlyWhenFull
<1>2. ASSUME IInv, RefusedOnlyWhenFull, [Next]_vars
      PROVE  RefusedOnlyWhenFull'
    <2>1. ASSUME NEW m \in Msgs, DropLimited(m)
          PROVE  RefusedOnlyWhenFull'
        BY <1>2, <2>1, FullWindow DEF DropLimited, RefusedOnlyWhenFull, Recent
    <2>2. ASSUME NEW m \in Msgs, DropDuplicate(m) \/ Accept(m)
          PROVE  RefusedOnlyWhenFull'
        BY <2>2 DEF DropDuplicate, Accept, RefusedOnlyWhenFull
    <2>3. CASE Tick
        BY <2>3 DEF Tick, RefusedOnlyWhenFull
    <2>4. CASE UNCHANGED vars
        BY <1>2, <2>4 DEF vars, RefusedOnlyWhenFull
    <2> QED
        BY <1>2, <2>1, <2>2, <2>3, <2>4 DEF Next
<1> QED
    BY <1>1, <1>2, RingCorrect, PTL DEF Spec

-----------------------------------------------------------------------------
(* Duplicates.                                                             *)

\* A set of at most one element.
LEMMA AtMostOne ==
    ASSUME NEW S, IsFiniteSet(S)
    PROVE  Cardinality(S) < 2 <=> \A x, y \in S : x = y
<1>1. Cardinality(S) \in Nat
    BY FS_CardinalityType
<1>2. ASSUME Cardinality(S) < 2, NEW x \in S, NEW y \in S
      PROVE  x = y
    <2>1. Cardinality(S) = 0 \/ Cardinality(S) = 1
        BY <1>1, <1>2
    <2>2. CASE Cardinality(S) = 0
        BY <1>2, <2>2, FS_EmptySet
    <2>3. CASE Cardinality(S) = 1
        <3>1. PICK z : S = {z}
            BY <2>3, FS_Singleton
        <3> QED
            BY <1>2, <3>1
    <2> QED
        BY <2>1, <2>2, <2>3
<1>3. ASSUME \A x, y \in S : x = y
      PROVE  Cardinality(S) < 2
    <2>1. CASE S = {}
        BY <2>1, FS_EmptySet
    <2>2. CASE S # {}
        <3>1. PICK x \in S : TRUE
            BY <2>2
        <3>2. S = {x}
            BY <1>3, <3>1
        <3> QED
            BY <3>2, FS_Singleton
    <2> QED
        BY <2>1, <2>2
<1> QED
    BY <1>2, <1>3

\* Where the duplicate check finds one of the last Looks - 1 messages.
LEMMA LookedSlot ==
    ASSUME IInv, NEW i \in 1 .. Len(sent), i > Len(sent) + 1 - Looks
    PROVE  (i - 1) % Slots \in Looked /\ history[(i - 1) % Slots] = sent[i]
<1>0. /\ Slots \in Nat \ {0} /\ Looks \in Nat /\ Looks =< Slots
      /\ count \in Nat /\ count = Len(sent)
    BY RateLimiterAssumption DEF IInv, TypeOK, RingInv
<1> DEFINE b == i - 1
           k == count - b
<1>1. b \in Nat /\ k \in 0 .. Looks - 1 /\ count + Slots - k = b + Slots
    BY <1>0
<1>2. (b + Slots) % Slots = b % Slots
    BY <1>0, <1>1, ModPeriod
<1>3. b % Slots = (count + Slots - k) % Slots
    BY <1>1, <1>2
<1>4. b % Slots \in Looked
    BY <1>1, <1>3 DEF Looked
<1>5. history[(i - 1) % Slots] = sent[i]
    BY <1>0 DEF IInv, RingInv
<1> QED
    BY <1>4, <1>5

\* The messages that count as repetitions of the j-th.
Same(j) ==
  {i \in 1 .. j : /\ i > j - Looks
                  /\ sent[i].msg = sent[j].msg
                  /\ sent[i].at >= sent[j].at - Window}

\* The message that is accepted repeats at most one of those before it.
LEMMA AcceptedTwice ==
    ASSUME IInv, NEW m \in Msgs, Accept(m)
    PROVE  Cardinality(Same(Len(sent))') =< 2
<1>0. /\ Slots \in Nat \ {0} /\ Looks \in 1 .. Slots /\ Window \in Nat
      /\ count \in Nat /\ count = Len(sent) /\ now \in Nat
    BY RateLimiterAssumption DEF IInv, TypeOK, RingInv
<1>1. /\ Len(sent') = count + 1
      /\ \A i \in 1 .. count : sent'[i] = sent[i]
      /\ sent'[count + 1] = [msg |-> m, at |-> now]
    BY <1>0, SentStep
<1> DEFINE S == {i \in 1 .. count + 1 : /\ i > count + 1 - Looks
                                        /\ sent'[i].msg = sent'[count + 1].msg
                                        /\ sent'[i].at >= sent'[count + 1].at - Window}
           O == {i \in 1 .. count : /\ i > count + 1 - Looks
                                    /\ sent[i].msg = m
                                    /\ sent[i].at >= now - Window}
           T == {s \in Looked : history[s].at >= now - Window /\ history[s].msg = m}
<1>2. S \subseteq O \cup {count + 1}
    BY <1>0, <1>1
<1>3. ASSUME NEW i \in O
      PROVE  (i - 1) % Slots \in T
    <2>1. (i - 1) % Slots \in Looked /\ history[(i - 1) % Slots] = sent[i]
        BY <1>0, LookedSlot
    <2>2. sent[i].at \in Nat
        BY <1>0, EntryType DEF IInv
    <2> QED
        BY <1>0, <2>1, <2>2
<1>4. IsFiniteSet(T) /\ Cardinality(T) < 2
    <2>1. Cardinality(T) < 2
        BY DEF Accept, Repeats
    <2>2. Looked \in SUBSET (0 .. Slots - 1)
        <3> SUFFICES ASSUME NEW k \in 0 .. Looks - 1
                     PROVE  (count + Slots - k) % Slots \in 0 .. Slots - 1
            BY DEF Looked
        <3>1. count + Slots - k \in Nat
            BY <1>0
        <3> QED
            BY <1>0, <3>1, Division
    <2>3. IsFiniteSet(0 .. Slots - 1)
        BY <1>0, FS_Interval
    <2>4. T \in SUBSET (0 .. Slots - 1)
        BY <2>2
    <2> QED
        BY <2>1, <2>3, <2>4, FS_Subset
<1>5. ASSUME NEW i \in O, NEW j \in O
      PROVE  i = j
    <2> DEFINE a == i - 1
               b == j - 1
    <2>1. a % Slots = b % Slots
        BY <1>3, <1>4, AtMostOne
    <2>2. a \in Nat /\ b \in Nat /\ a - b < Slots /\ b - a < Slots
        BY <1>0
    <2>3. a = b
        <3> HIDE DEF a, b
        <3> QED
            BY <1>0, <2>1, <2>2, ModDistinct
    <2> QED
        BY <2>3
<1>6. IsFiniteSet(O) /\ Cardinality(O) \in Nat /\ Cardinality(O) < 2
    <2>1. IsFiniteSet(1 .. count)
        BY <1>0, FS_Interval
    <2>2. IsFiniteSet(O)
        BY <2>1, FS_Subset
    <2> HIDE DEF O
    <2> QED
        BY <1>5, <2>2, AtMostOne, FS_CardinalityType
<1>7. Cardinality(S) =< 2
    <2> HIDE DEF O, S
    <2>1. /\ IsFiniteSet(O \cup {count + 1})
          /\ Cardinality(O \cup {count + 1}) =< 2
          /\ Cardinality(O \cup {count + 1}) \in Nat
        <3>1. /\ IsFiniteSet(O \cup {count + 1})
              /\ Cardinality(O \cup {count + 1}) =
                   IF count + 1 \in O THEN Cardinality(O) ELSE Cardinality(O) + 1
            BY <1>6, FS_AddElement
        <3> QED
            BY <1>6, <3>1
    <2>2. IsFiniteSet(S) /\ Cardinality(S) =< Cardinality(O \cup {count + 1})
        BY <1>2, <2>1, FS_Subset
    <2>3. Cardinality(S) \in Nat
        BY <2>2, FS_CardinalityType
    <2> QED
        BY <2>1, <2>2, <2>3
<1>8. Same(Len(sent))' = S
    BY <1>0, <1>1 DEF Same
<1> QED
    BY <1>7, <1>8

\* No message is posted three times among Looks messages in a row of which none is
\* more than Window older than the last, for every length of the ring and number
\* of messages looked at, although the check starts at the slot that is about to
\* be overwritten.  The promise without the window is not a theorem.
THEOREM DuplicatesCorrect == Spec => []AtMostTwoInTheWindow
<1>1. Init => AtMostTwoInTheWindow
    <2> SUFFICES ASSUME Init PROVE AtMostTwoInTheWindow
        OBVIOUS
    <2>1. Len(sent) = 0
        BY DEF Init
    <2> QED
        BY <2>1 DEF AtMostTwoInTheWindow
<1>2. ASSUME IInv, AtMostTwoInTheWindow, [Next]_vars
      PROVE  AtMostTwoInTheWindow'
    <2>1. ASSUME NEW m \in Msgs, Accept(m), NEW j \in 1 .. Len(sent')
          PROVE  Cardinality(Same(j)') =< 2
        <3>0. count = Len(sent) /\ Len(sent) \in Nat
            BY <1>2 DEF IInv, RingInv, TypeOK
        <3>1. /\ Len(sent') = Len(sent) + 1
              /\ \A i \in 1 .. Len(sent) : sent'[i] = sent[i]
            BY <1>2, <2>1, SentStep
        <3>2. CASE j = Len(sent')
            BY <1>2, <2>1, <3>2, AcceptedTwice DEF Same
        <3>3. CASE j # Len(sent')
            <4>1. j \in 1 .. Len(sent) /\ \A i \in 1 .. j : i \in 1 .. Len(sent)
                BY <2>1, <3>0, <3>1, <3>3
            <4>2. Same(j)' = Same(j)
                BY <3>1, <4>1 DEF Same
            <4>3. Cardinality(Same(j)) =< 2
                BY <1>2, <4>1 DEF AtMostTwoInTheWindow, Same
            <4> QED
                BY <4>2, <4>3
        <3> QED
            BY <3>2, <3>3
    <2>2. ASSUME NEW m \in Msgs, Accept(m)
          PROVE  AtMostTwoInTheWindow'
        BY <2>1, <2>2 DEF AtMostTwoInTheWindow, Same
    <2>3. ASSUME UNCHANGED sent
          PROVE  AtMostTwoInTheWindow'
        BY <1>2, <2>3 DEF AtMostTwoInTheWindow
    <2> QED
        BY <1>2, <2>2, <2>3 DEF Next, DropLimited, DropDuplicate, Tick, vars
<1> QED
    BY <1>1, <1>2, RingCorrect, PTL DEF Spec
=============================================================================

--------------------------- MODULE IMUBufferProofs ---------------------------
(* Theorems about the IMU window buffer, for every set of streams, every   *)
(* bound and every set of stamps.                                          *)
EXTENDS IMUBuffer, SequenceTheorems, WellFoundedInduction, TLAPS

(* A nonempty set of naturals has a least member, and Min names it.        *)
LEMMA MinNat ==
  ASSUME NEW S \in SUBSET Nat, S # {}
  PROVE  Min(S) \in S /\ \A k \in S : Min(S) <= k
<1> DEFINE LT == {r \in Nat \X Nat : r[1] < r[2]}
<1>1. IsWellFoundedOn(LT, Nat)
  BY NatLessThanWellFounded DEF OpToRel
<1> HIDE DEF LT
<1>2. PICK m \in S : \A k \in S : ~(<<k, m>> \in LT)
  BY <1>1, WFMin
<1>3. ASSUME NEW k \in S
      PROVE  m <= k
  <2>1. k \in Nat /\ m \in Nat
    OBVIOUS
  <2>2. CASE k < m
    <3>1. <<k, m>> \in LT
      BY <2>1, <2>2 DEF LT
    <3>2. QED
      BY <1>2, <3>1
  <2>3. QED
    BY <2>1, <2>2
<1>4. QED
  BY <1>3 DEF Min

-----------------------------------------------------------------------------
(* What the deque operators return.                                        *)

LEMMA FirstAfterSplits ==
  ASSUME TypeOK, Sorted, NEW s \in Stream, NEW t \in Int
  PROVE  /\ FirstAfter(s, t) \in head[s] .. Len(log[s]) + 1
         /\ \A i \in head[s] .. Len(log[s]) :
              i < FirstAfter(s, t) <=> log[s][i] <= t
<1> DEFINE S == {i \in head[s] .. Len(log[s]) + 1 :
                   i <= Len(log[s]) => log[s][i] > t}
<1>1. /\ log[s] \in Seq(Int) /\ Len(log[s]) \in Nat
      /\ head[s] \in Nat \ {0} /\ head[s] <= Len(log[s]) + 1
  <2>1. log[s] \in Seq(Stamp) /\ head[s] \in Nat \ {0} /\ head[s] <= Len(log[s]) + 1
    BY DEF TypeOK
  <2>2. log[s] \in Seq(Int)
    BY <2>1, BufferAssumption, SeqMonotonic
  <2>3. QED
    BY <2>1, <2>2
<1>2. S \in SUBSET Nat /\ Len(log[s]) + 1 \in S
  BY <1>1
<1>3. FirstAfter(s, t) \in S /\ \A k \in S : FirstAfter(s, t) <= k
  BY <1>2, MinNat DEF FirstAfter
<1>4. ASSUME NEW i \in head[s] .. Len(log[s])
      PROVE  i < FirstAfter(s, t) <=> log[s][i] <= t
  <2>1. log[s][i] \in Int /\ i \in DOMAIN log[s]
    BY <1>1
  <2>2. CASE i < FirstAfter(s, t)
    <3>1. i \notin S
      BY <1>1, <1>3, <2>2
    <3>2. QED
      BY <1>1, <2>1, <2>2, <3>1
  <2>3. CASE FirstAfter(s, t) <= i
    <3>1. log[s][FirstAfter(s, t)] > t /\ FirstAfter(s, t) \in DOMAIN log[s]
      BY <1>1, <1>3, <2>3, SMTT(30)
    <3>2. log[s][FirstAfter(s, t)] <= log[s][i] /\ log[s][FirstAfter(s, t)] \in Int
      BY <1>1, <2>1, <2>3, <3>1 DEF Sorted
    <3>3. QED
      BY <1>1, <1>3, <2>1, <2>3, <3>1, <3>2
  <2>4. QED
    BY <1>1, <1>3, <2>2, <2>3
<1>5. QED
  BY <1>3, <1>4

LEMMA TrimmedHeadBounds ==
  ASSUME NEW s \in Stream, NEW newLog \in Seq(Int), NEW t \in Int,
         head[s] \in Nat \ {0}, head[s] <= Len(newLog) + 1
  PROVE  /\ TrimmedHead(s, newLog, t) \in head[s] .. Len(newLog) + 1
         /\ \A i \in head[s] .. Len(newLog) :
              i < TrimmedHead(s, newLog, t) => newLog[i] < t - MaxBuffer
<1> DEFINE S == {i \in head[s] .. Len(newLog) + 1 :
                   i <= Len(newLog) => newLog[i] >= t - MaxBuffer}
<1>1. S \in SUBSET Nat /\ Len(newLog) + 1 \in S
  OBVIOUS
<1>2. /\ TrimmedHead(s, newLog, t) \in S
      /\ \A k \in S : TrimmedHead(s, newLog, t) <= k
  BY <1>1, MinNat DEF TrimmedHead
<1>3. ASSUME NEW i \in head[s] .. Len(newLog),
             i < TrimmedHead(s, newLog, t)
      PROVE  newLog[i] < t - MaxBuffer
  BY <1>2, <1>3, BufferAssumption
<1>4. QED
  BY <1>2, <1>3

(* Reclassifying samples keeps one fate per sample.                        *)
LEMMA DroppedType ==
  ASSUME NEW s \in Stream, NEW f \in Seq(Fate), NEW newHead \in Int,
         NEW reason \in Fate
  PROVE  /\ Dropped(s, f, newHead, reason) \in Seq(Fate)
         /\ Len(Dropped(s, f, newHead, reason)) = Len(f)
         /\ \A i \in 1 .. Len(f) :
              Dropped(s, f, newHead, reason)[i] =
                IF i \in head[s] .. newHead - 1 /\ f[i] = "held"
                THEN reason ELSE f[i]
<1> DEFINE e(i) == IF i \in head[s] .. newHead - 1 /\ f[i] = "held"
                   THEN reason ELSE f[i]
<1>1. Dropped(s, f, newHead, reason) = [i \in 1 .. Len(f) |-> e(i)]
  BY DEF Dropped
<1>2. \A i \in 1 .. Len(f) : e(i) \in Fate
  OBVIOUS
<1> HIDE DEF e
<1>3. [i \in 1 .. Len(f) |-> e(i)] \in [1 .. Len(f) -> Fate]
  BY <1>2
<1>4. [i \in 1 .. Len(f) |-> e(i)] \in Seq(Fate)
  BY <1>3, SeqDef, Len(f) \in Nat
<1>5. QED
  BY <1>1, <1>3, <1>4 DEF e

LEMMA HandedType ==
  ASSUME NEW f \in Seq(Fate), NEW window
  PROVE  /\ Handed(f, window) \in Seq(Fate)
         /\ Len(Handed(f, window)) = Len(f)
         /\ \A i \in 1 .. Len(f) :
              Handed(f, window)[i] =
                IF i \notin window THEN f[i]
                ELSE IF f[i] = "held" THEN "handed" ELSE "duplicated"
<1> DEFINE e(i) == IF i \notin window THEN f[i]
                   ELSE IF f[i] = "held" THEN "handed" ELSE "duplicated"
<1>1. Handed(f, window) = [i \in 1 .. Len(f) |-> e(i)]
  BY DEF Handed
<1>2. \A i \in 1 .. Len(f) : e(i) \in Fate
  BY DEF Fate
<1> HIDE DEF e
<1>3. [i \in 1 .. Len(f) |-> e(i)] \in [1 .. Len(f) -> Fate]
  BY <1>2
<1>4. [i \in 1 .. Len(f) |-> e(i)] \in Seq(Fate)
  BY <1>3, SeqDef, Len(f) \in Nat
<1>5. QED
  BY <1>1, <1>3, <1>4 DEF e

-----------------------------------------------------------------------------
(* Appending a sample and trimming preserves the delivery invariant.       *)
LEMMA AddPreserves ==
  ASSUME DeliveryInv, NEW s \in Stream, NEW t \in Stamp, Add(s, t)
  PROVE  DeliveryInv'
<1> DEFINE n       == Len(log[s]) + 1
           newLog  == Append(log[s], t)
           newHead == TrimmedHead(s, newLog, t)
           f       == Append(fate[s], "held")
<1>1. /\ TypeOK /\ Sorted /\ NothingExtractedYet
      /\ DequeHoldsWaiting /\ WaitingIsAhead
      /\ HandedAtMostOnce /\ OnlyLateSamplesSkipped /\ HandedInOrder
  BY DEF DeliveryInv
<1>2. /\ log[s] \in Seq(Stamp) /\ Len(log[s]) \in Nat /\ n \in Nat \ {0}
      /\ fate[s] \in Seq(Fate) /\ Len(fate[s]) = Len(log[s])
      /\ head[s] \in Nat \ {0} /\ head[s] <= n /\ t \in Int
  BY <1>1, BufferAssumption DEF TypeOK
<1>3. /\ newLog \in Seq(Stamp) /\ newLog \in Seq(Int) /\ Len(newLog) = n
      /\ newLog[n] = t /\ \A i \in 1 .. Len(log[s]) : newLog[i] = log[s][i]
  <2>1. newLog \in Seq(Stamp) /\ Len(newLog) = n
    BY <1>2
  <2>2. newLog \in Seq(Int)
    BY <2>1, BufferAssumption, SeqMonotonic
  <2>3. QED
    BY <1>2, <2>1, <2>2
<1>4. /\ newHead \in head[s] .. n + 1
      /\ \A i \in head[s] .. n : i < newHead => newLog[i] < t - MaxBuffer
  <2>1. /\ newHead \in head[s] .. Len(newLog) + 1
        /\ \A i \in head[s] .. Len(newLog) :
             i < newHead => newLog[i] < t - MaxBuffer
    <3>1. head[s] <= Len(newLog) + 1 /\ newLog \in Seq(Int)
      BY <1>2, <1>3
    <3> HIDE DEF newLog
    <3>2. QED
      BY <1>2, <3>1, TrimmedHeadBounds
  <2>2. QED
    BY <1>3, <2>1
<1>5. /\ f \in Seq(Fate) /\ Len(f) = n /\ f[n] = "held"
      /\ \A i \in 1 .. Len(log[s]) : f[i] = fate[s][i]
  BY <1>2 DEF Fate
<1>6. /\ log' = [log EXCEPT ![s] = newLog]
      /\ head' = [head EXCEPT ![s] = newHead]
      /\ fate' = [fate EXCEPT ![s] = Dropped(s, f, newHead, "expired")]
      /\ late' = IF tracking /\ t <= prevImage
                 THEN [late EXCEPT ![s] = @ \cup {n}] ELSE late
      /\ prevImage' = prevImage /\ tracking' = tracking /\ bootTime' = bootTime
      /\ \A i \in 1 .. Len(log[s]) : log[s][i] <= t
  <2>1. /\ log' = [log EXCEPT ![s] = newLog]
        /\ head' = [head EXCEPT ![s] = newHead]
        /\ fate' = [fate EXCEPT ![s] = Dropped(s, f, newHead, "expired")]
        /\ late' = IF tracking /\ t <= prevImage
                   THEN [late EXCEPT ![s] = @ \cup {Len(newLog)}] ELSE late
        /\ prevImage' = prevImage /\ tracking' = tracking
        /\ bootTime' = bootTime
        /\ log[s] # << >> => log[s][Len(log[s])] <= t
    BY DEF Add
  <2>2. ASSUME NEW i \in 1 .. Len(log[s])
        PROVE  log[s][i] <= t
    <3>1. log[s] # << >> /\ i \in DOMAIN log[s] /\ Len(log[s]) \in DOMAIN log[s]
      BY <1>2, <2>2
    <3>2. log[s][i] <= log[s][Len(log[s])] /\ log[s][Len(log[s])] <= t
      BY <1>1, <1>2, <2>1, <3>1 DEF Sorted
    <3>3. log[s][i] \in Int /\ log[s][Len(log[s])] \in Int
      <4>1. log[s][i] \in Stamp /\ log[s][Len(log[s])] \in Stamp
        BY <1>2, <3>1, ElementOfSeq
      <4>2. QED
        BY <4>1, BufferAssumption
    <3>4. QED
      BY <1>2, <3>2, <3>3
  <2>3. QED
    BY <1>3, <2>1, <2>2
<1>7. /\ log'[s] = newLog /\ head'[s] = newHead
      /\ fate'[s] \in Seq(Fate) /\ Len(fate'[s]) = n
      /\ \A i \in 1 .. n : fate'[s][i] =
           IF i \in head[s] .. newHead - 1 /\ f[i] = "held"
           THEN "expired" ELSE f[i]
      /\ \A q \in Stream \ {s} : /\ log'[q] = log[q] /\ head'[q] = head[q]
                                 /\ fate'[q] = fate[q] /\ late'[q] = late[q]
      /\ late[s] \subseteq late'[s]
      /\ tracking /\ t <= prevImage => n \in late'[s]
      /\ late' \in [Stream -> SUBSET Nat]
  <2> HIDE DEF newLog, newHead, f, n
  <2>1. "expired" \in Fate /\ newHead \in Int
    BY <1>2, <1>4 DEF Fate
  <2>2. /\ Dropped(s, f, newHead, "expired") \in Seq(Fate)
        /\ Len(Dropped(s, f, newHead, "expired")) = Len(f)
        /\ \A i \in 1 .. Len(f) : Dropped(s, f, newHead, "expired")[i] =
             IF i \in head[s] .. newHead - 1 /\ f[i] = "held"
             THEN "expired" ELSE f[i]
    BY <1>5, <2>1, DroppedType
  <2>3. fate'[s] = Dropped(s, f, newHead, "expired")
    BY <1>1, <1>6 DEF TypeOK
  <2>4. /\ log'[s] = newLog /\ head'[s] = newHead
        /\ \A q \in Stream \ {s} : /\ log'[q] = log[q] /\ head'[q] = head[q]
                                   /\ fate'[q] = fate[q]
    BY <1>1, <1>6 DEF TypeOK
  <2>5. /\ \A q \in Stream \ {s} : late'[q] = late[q]
        /\ late[s] \subseteq late'[s]
        /\ tracking /\ t <= prevImage => n \in late'[s]
        /\ late' \in [Stream -> SUBSET Nat]
    BY <1>1, <1>2, <1>6 DEF TypeOK
  <2>6. QED
    BY <1>5, <2>2, <2>3, <2>4, <2>5
<1> HIDE DEF newLog, newHead, f, n
<1>8. n = Len(log[s]) + 1
  BY DEF n
<1>9. TypeOK'
  <2>1. /\ log' \in [Stream -> Seq(Stamp)]
        /\ head' \in [Stream -> Nat \ {0}]
        /\ fate' \in [Stream -> Seq(Fate)]
    <3>1. newHead \in Nat \ {0}
      BY <1>2, <1>4
    <3>2. Dropped(s, f, newHead, "expired") \in Seq(Fate)
      BY <1>1, <1>6, <1>7 DEF TypeOK
    <3>3. QED
      BY <1>1, <1>3, <1>6, <3>1, <3>2 DEF TypeOK
  <2>2. ASSUME NEW q \in Stream
        PROVE  Len(fate'[q]) = Len(log'[q]) /\ head'[q] <= Len(log'[q]) + 1
    <3>1. CASE q = s
      BY <1>2, <1>3, <1>4, <1>7, <3>1
    <3>2. CASE q # s
      BY <1>1, <1>7, <3>2 DEF TypeOK
    <3>3. QED
      BY <3>1, <3>2
  <2>3. QED
    BY <1>1, <1>6, <1>7, <2>1, <2>2 DEF TypeOK
<1>10. Sorted'
  <2> SUFFICES ASSUME NEW q \in Stream,
                      NEW i \in DOMAIN log'[q], NEW j \in DOMAIN log'[q], i <= j
               PROVE  log'[q][i] <= log'[q][j]
    BY DEF Sorted
  <2>1. CASE q # s
    BY <1>1, <1>7, <2>1 DEF Sorted
  <2>2. CASE q = s
    <3>1. log'[s] = newLog /\ i \in 1 .. n /\ j \in 1 .. n
      BY <1>3, <1>7, <2>2
    <3>2. CASE j = n
      BY <1>2, <1>3, <1>6, <1>8, <2>2, <3>1, <3>2
    <3>3. CASE j # n
      <4>1. i \in DOMAIN log[s] /\ j \in DOMAIN log[s]
        BY <1>2, <1>8, <3>1, <3>3
      <4>2. QED
        BY <1>1, <1>2, <1>3, <2>2, <3>1, <4>1, SMTT(30) DEF Sorted
    <3>4. QED
      BY <3>2, <3>3
  <2>3. QED
    BY <2>1, <2>2
<1>11. DequeHoldsWaiting'
  <2> SUFFICES ASSUME NEW q \in Stream, NEW i \in DOMAIN log'[q]
               PROVE  /\ fate'[q][i] = "held" => i >= head'[q]
                      /\ i >= head'[q] =>
                           \/ fate'[q][i] = "held"
                           \/ fate'[q][i] = "handed" /\ tracking'
                              /\ log'[q][i] <= prevImage'
    BY DEF DequeHoldsWaiting
  <2>1. CASE q # s
    BY <1>1, <1>6, <1>7, <2>1 DEF DequeHoldsWaiting
  <2>2. CASE q = s
    <3>1. i \in 1 .. n
      BY <1>3, <1>7, <2>2
    <3>2. CASE i = n
      BY <1>2, <1>4, <1>5, <1>7, <2>2, <3>1, <3>2
    <3>3. CASE i # n
      <4>1. i \in DOMAIN log[s] /\ i \in 1 .. Len(log[s])
        BY <1>2, <1>8, <3>1, <3>3
      <4>2. /\ fate[s][i] = "held" => i >= head[s]
            /\ i >= head[s] =>
                 \/ fate[s][i] = "held"
                 \/ fate[s][i] = "handed" /\ tracking /\ log[s][i] <= prevImage
        BY <1>1, <4>1 DEF DequeHoldsWaiting
      <4>3. log'[s][i] = log[s][i] /\ f[i] = fate[s][i]
        BY <1>3, <1>5, <1>7, <4>1
      <4>4. QED
        BY <1>2, <1>4, <1>6, <1>7, <2>2, <3>1, <4>2, <4>3
    <3>4. QED
      BY <3>2, <3>3
  <2>3. QED
    BY <2>1, <2>2
<1>12. WaitingIsAhead'
  <2> SUFFICES ASSUME tracking, NEW q \in Stream, NEW i \in DOMAIN log'[q],
                      fate'[q][i] = "held", i \notin late'[q]
               PROVE  log'[q][i] > prevImage \/ log'[q][i] <= bootTime
    BY <1>6 DEF WaitingIsAhead
  <2>1. CASE q # s
    BY <1>1, <1>7, <2>1 DEF WaitingIsAhead
  <2>2. CASE q = s
    <3>1. i \in 1 .. n
      BY <1>3, <1>7, <2>2
    <3>2. CASE i = n
      <4>1. prevImage \in Int
        BY <1>1, BufferAssumption DEF TypeOK
      <4>2. QED
        BY <1>2, <1>3, <1>7, <2>2, <3>2, <4>1
    <3>3. CASE i # n
      <4>1. i \in DOMAIN log[s] /\ i \in 1 .. Len(log[s]) /\ i \notin late[s]
        BY <1>2, <1>7, <1>8, <2>2, <3>1, <3>3
      <4>2. log'[s][i] = log[s][i] /\ fate[s][i] = "held"
        BY <1>3, <1>5, <1>7, <2>2, <3>1, <4>1
      <4>3. QED
        BY <1>1, <2>2, <4>1, <4>2 DEF WaitingIsAhead
    <3>4. QED
      BY <3>2, <3>3
  <2>3. QED
    BY <2>1, <2>2
<1>13. HandedAtMostOnce'
  <2> SUFFICES ASSUME NEW q \in Stream, NEW i \in DOMAIN fate'[q]
               PROVE  fate'[q][i] # "duplicated"
    BY DEF HandedAtMostOnce
  <2>1. CASE q # s
    BY <1>1, <1>7, <2>1 DEF HandedAtMostOnce
  <2>2. CASE q = s
    <3>1. i \in 1 .. n
      BY <1>7, <2>2
    <3>2. f[i] # "duplicated"
      <4>1. CASE i = n
        BY <1>5, <4>1
      <4>2. CASE i # n
        BY <1>1, <1>2, <1>5, <1>8, <3>1, <4>2 DEF HandedAtMostOnce
      <4>3. QED
        BY <4>1, <4>2
    <3>3. QED
      BY <1>7, <2>2, <3>1, <3>2
  <2>3. QED
    BY <2>1, <2>2
<1>14. OnlyLateSamplesSkipped'
  <2> SUFFICES ASSUME NEW q \in Stream, NEW i \in DOMAIN fate'[q],
                      fate'[q][i] = "skipped"
               PROVE  i \in late'[q] \/ log'[q][i] <= bootTime
    BY <1>6 DEF OnlyLateSamplesSkipped
  <2>1. CASE q # s
    BY <1>1, <1>7, <2>1 DEF OnlyLateSamplesSkipped
  <2>2. CASE q = s
    <3>1. i \in 1 .. n /\ f[i] = "skipped"
      BY <1>7, <2>2
    <3>2. i \in 1 .. Len(log[s]) /\ i \in DOMAIN fate[s]
      BY <1>2, <1>5, <1>8, <3>1
    <3>3. log'[s][i] = log[s][i] /\ fate[s][i] = "skipped"
      BY <1>3, <1>5, <1>7, <3>1, <3>2
    <3>4. QED
      BY <1>1, <1>7, <2>2, <3>2, <3>3 DEF OnlyLateSamplesSkipped
  <2>3. QED
    BY <2>1, <2>2
<1>15. HandedInOrder'
  <2> SUFFICES ASSUME NEW q \in Stream, NEW i \in DOMAIN fate'[q],
                      NEW j \in DOMAIN fate'[q], i < j, fate'[q][j] = "handed"
               PROVE  fate'[q][i] # "held"
    BY DEF HandedInOrder
  <2>1. CASE q # s
    BY <1>1, <1>7, <2>1 DEF HandedInOrder
  <2>2. CASE q = s
    <3>1. i \in 1 .. n /\ j \in 1 .. n /\ f[j] = "handed"
      BY <1>7, <2>2
    <3>2. i \in 1 .. Len(log[s]) /\ j \in 1 .. Len(log[s])
          /\ i \in DOMAIN fate[s] /\ j \in DOMAIN fate[s]
      BY <1>2, <1>5, <1>8, <3>1
    <3>3. fate[s][i] # "held" /\ f[i] = fate[s][i]
      BY <1>1, <1>5, <3>1, <3>2 DEF HandedInOrder
    <3>4. QED
      BY <1>7, <2>2, <3>1, <3>3
  <2>3. QED
    BY <2>1, <2>2
<1>16. NothingExtractedYet'
  <2> SUFFICES ASSUME ~tracking, NEW q \in Stream, NEW i \in DOMAIN fate'[q]
               PROVE  fate'[q][i] \notin {"handed", "skipped"}
    BY <1>6 DEF NothingExtractedYet
  <2>1. CASE q # s
    BY <1>1, <1>7, <2>1 DEF NothingExtractedYet
  <2>2. CASE q = s
    <3>1. i \in 1 .. n
      BY <1>7, <2>2
    <3>2. f[i] \notin {"handed", "skipped"}
      <4>1. CASE i = n
        BY <1>5, <4>1
      <4>2. CASE i # n
        BY <1>1, <1>2, <1>5, <1>8, <3>1, <4>2, SMTT(30) DEF NothingExtractedYet
      <4>3. QED
        BY <4>1, <4>2
    <3>3. QED
      BY <1>7, <2>2, <3>1, <3>2
  <2>3. QED
    BY <2>1, <2>2
<1>17. QED
  BY <1>9, <1>10, <1>11, <1>12, <1>13, <1>14, <1>15, <1>16 DEF DeliveryInv

(* Bootstrapping on an image touches no deque.                             *)
LEMMA BootstrapPreserves ==
  ASSUME DeliveryInv, NEW t \in Stamp, NEW detected \in BOOLEAN,
         Bootstrap(t, detected)
  PROVE  DeliveryInv'
<1>1. /\ TypeOK /\ Sorted /\ NothingExtractedYet
      /\ DequeHoldsWaiting /\ WaitingIsAhead
      /\ HandedAtMostOnce /\ OnlyLateSamplesSkipped /\ HandedInOrder
  BY DEF DeliveryInv
<1>2. /\ ~tracking /\ tracking' = detected /\ prevImage' = t /\ bootTime' = t
      /\ log' = log /\ head' = head /\ fate' = fate /\ late' = late
  BY DEF Bootstrap
<1>3. t \in Int /\ t # None
  BY BufferAssumption
<1>4. TypeOK'
  BY <1>1, <1>2, <1>3 DEF TypeOK
<1>5. Sorted' /\ HandedAtMostOnce' /\ HandedInOrder'
  BY <1>1, <1>2 DEF Sorted, HandedAtMostOnce, HandedInOrder
<1>6. NothingExtractedYet' /\ OnlyLateSamplesSkipped'
  BY <1>1, <1>2 DEF NothingExtractedYet, OnlyLateSamplesSkipped
<1>7. DequeHoldsWaiting'
  BY <1>1, <1>2 DEF DequeHoldsWaiting
<1>8. WaitingIsAhead'
  <2> SUFFICES ASSUME NEW s \in Stream, NEW i \in DOMAIN log[s]
               PROVE  log[s][i] > t \/ log[s][i] <= t
    BY <1>2 DEF WaitingIsAhead
  <2>1. log[s][i] \in Stamp
    BY <1>1, ElementOfSeq DEF TypeOK
  <2>2. log[s][i] \in Int
    BY <2>1, BufferAssumption
  <2>3. QED
    BY <1>3, <2>2
<1>9. QED
  BY <1>4, <1>5, <1>6, <1>7, <1>8 DEF DeliveryInv

(* Extracting a window preserves the delivery invariant.                   *)
LEMMA ExtractWindowPreserves ==
  ASSUME DeliveryInv, NEW t \in Stamp, ExtractWindow(t)
  PROVE  DeliveryInv'
<1> DEFINE lo(s) == FirstAfter(s, prevImage)
           hi(s) == FirstAfter(s, t)
           W(s)  == lo(s) .. hi(s) - 1
<1>1. /\ TypeOK /\ Sorted /\ NothingExtractedYet
      /\ DequeHoldsWaiting /\ WaitingIsAhead
      /\ HandedAtMostOnce /\ OnlyLateSamplesSkipped /\ HandedInOrder
  BY DEF DeliveryInv
<1>2. /\ tracking /\ prevImage' = t /\ log' = log /\ tracking' = tracking
      /\ late' = late /\ bootTime' = bootTime
      /\ head' = [s \in Stream |-> lo(s)]
      /\ fate' = [s \in Stream |->
                    Dropped(s, Handed(fate[s], W(s)), lo(s), "skipped")]
  BY DEF ExtractWindow
<1>3. t \in Int /\ t # None /\ prevImage \in Int
  BY <1>1, <1>2, BufferAssumption DEF TypeOK
<1>4. ASSUME NEW s \in Stream
      PROVE  /\ head[s] \in Nat \ {0} /\ Len(log[s]) \in Nat
             /\ DOMAIN log[s] = 1 .. Len(log[s])
             /\ Len(fate[s]) = Len(log[s]) /\ fate[s] \in Seq(Fate)
             /\ \A i \in 1 .. Len(log[s]) : log[s][i] \in Int
             /\ lo(s) \in head[s] .. Len(log[s]) + 1
             /\ hi(s) \in head[s] .. Len(log[s]) + 1
             /\ \A i \in head[s] .. Len(log[s]) :
                  /\ i < lo(s) <=> log[s][i] <= prevImage
                  /\ i < hi(s) <=> log[s][i] <= t
  <2>1. /\ head[s] \in Nat \ {0} /\ log[s] \in Seq(Stamp)
        /\ Len(fate[s]) = Len(log[s]) /\ fate[s] \in Seq(Fate)
    BY <1>1 DEF TypeOK
  <2>2. \A i \in 1 .. Len(log[s]) : log[s][i] \in Int
    BY <2>1, ElementOfSeq, BufferAssumption
  <2>3. /\ lo(s) \in head[s] .. Len(log[s]) + 1
        /\ \A i \in head[s] .. Len(log[s]) : i < lo(s) <=> log[s][i] <= prevImage
    BY <1>1, <1>3, FirstAfterSplits
  <2>4. /\ hi(s) \in head[s] .. Len(log[s]) + 1
        /\ \A i \in head[s] .. Len(log[s]) : i < hi(s) <=> log[s][i] <= t
    BY <1>1, <1>3, FirstAfterSplits
  <2> HIDE DEF lo, hi
  <2>5. QED
    BY <2>1, <2>2, <2>3, <2>4
<1> HIDE DEF lo, hi
<1>5. ASSUME NEW s \in Stream
      PROVE  /\ head'[s] = lo(s)
             /\ fate'[s] \in Seq(Fate) /\ Len(fate'[s]) = Len(log[s])
             /\ DOMAIN fate'[s] = 1 .. Len(log[s])
             /\ \A i \in 1 .. Len(log[s]) : fate'[s][i] =
                  IF i \in W(s)
                  THEN IF fate[s][i] = "held" THEN "handed" ELSE "duplicated"
                  ELSE IF i \in head[s] .. lo(s) - 1 /\ fate[s][i] = "held"
                       THEN "skipped" ELSE fate[s][i]
  <2> DEFINE g == Handed(fate[s], W(s))
  <2>1. /\ g \in Seq(Fate) /\ Len(g) = Len(fate[s])
        /\ \A i \in 1 .. Len(fate[s]) : g[i] =
             IF i \notin W(s) THEN fate[s][i]
             ELSE IF fate[s][i] = "held" THEN "handed" ELSE "duplicated"
    <3>1. fate[s] \in Seq(Fate)
      BY <1>4
    <3> HIDE DEF W
    <3>2. QED
      BY <3>1, HandedType
  <2>2. fate'[s] = Dropped(s, g, lo(s), "skipped") /\ head'[s] = lo(s)
    BY <1>2
  <2>3. lo(s) \in Int /\ "skipped" \in Fate
    BY <1>4 DEF Fate
  <2> HIDE DEF g
  <2>4. /\ fate'[s] \in Seq(Fate) /\ Len(fate'[s]) = Len(g)
        /\ \A i \in 1 .. Len(g) : fate'[s][i] =
             IF i \in head[s] .. lo(s) - 1 /\ g[i] = "held"
             THEN "skipped" ELSE g[i]
    BY <2>1, <2>2, <2>3, DroppedType
  <2>5. QED
    BY <1>4, <2>1, <2>2, <2>4
<1>6. TypeOK'
  <2>1. fate' \in [Stream -> Seq(Fate)] /\ head' \in [Stream -> Nat \ {0}]
    <3>1. \A s \in Stream : fate'[s] \in Seq(Fate) /\ lo(s) \in Nat \ {0}
      BY <1>4, <1>5
    <3>2. DOMAIN fate' = Stream /\ fate' = [s \in Stream |-> fate'[s]]
      BY <1>2
    <3>3. QED
      BY <1>2, <3>1, <3>2
  <2>2. \A s \in Stream : Len(fate'[s]) = Len(log'[s]) /\ head'[s] <= Len(log'[s]) + 1
    BY <1>2, <1>4, <1>5
  <2>3. QED
    BY <1>1, <1>2, <1>3, <2>1, <2>2 DEF TypeOK
<1>7. Sorted' /\ NothingExtractedYet'
  BY <1>1, <1>2 DEF Sorted, NothingExtractedYet
<1>8. ASSUME NEW s \in Stream, NEW i \in 1 .. Len(log[s]), i >= lo(s)
      PROVE  i >= head[s] /\ fate[s][i] = "held" /\ log[s][i] > prevImage
  <2>1. i >= head[s] /\ log[s][i] > prevImage
    BY <1>3, <1>4, <1>8
  <2>2. QED
    BY <1>1, <1>3, <1>4, <2>1, SMTT(30) DEF DequeHoldsWaiting
<1>9. DequeHoldsWaiting'
  <2> SUFFICES ASSUME NEW s \in Stream, NEW i \in DOMAIN log[s]
               PROVE  /\ fate'[s][i] = "held" => i >= head'[s]
                      /\ i >= head'[s] =>
                           \/ fate'[s][i] = "held"
                           \/ fate'[s][i] = "handed" /\ tracking
                              /\ log[s][i] <= t
    BY <1>2 DEF DequeHoldsWaiting
  <2>1. i \in 1 .. Len(log[s])
    BY <1>4
  <2>2. CASE i >= lo(s)
    <3>1. fate[s][i] = "held"
      BY <1>8, <2>1, <2>2
    <3>2. CASE i \in W(s)
      <4>1. fate'[s][i] = "handed" /\ i < hi(s) /\ i \in head[s] .. Len(log[s])
        BY <1>4, <1>5, <2>1, <3>1, <3>2
      <4>2. QED
        BY <1>2, <1>4, <1>5, <2>2, <4>1
    <3>3. CASE i \notin W(s)
      <4>1. fate'[s][i] = "held"
        BY <1>4, <1>5, <2>1, <2>2, <3>1, <3>3
      <4>2. QED
        BY <1>4, <1>5, <2>1, <2>2, <4>1
    <3>4. QED
      BY <3>2, <3>3
  <2>3. CASE i < lo(s)
    <3>1. fate[s][i] = "held" => i >= head[s]
      BY <1>1, <2>1, <1>4 DEF DequeHoldsWaiting
    <3>2. QED
      BY <1>4, <1>5, <2>1, <2>3, <3>1, SMTT(30)
  <2>4. QED
    BY <1>4, <2>1, <2>2, <2>3
<1>10. WaitingIsAhead'
  <2> SUFFICES ASSUME NEW s \in Stream, NEW i \in DOMAIN log[s],
                      fate'[s][i] = "held"
               PROVE  log[s][i] > t
    BY <1>2 DEF WaitingIsAhead
  <2>1. i \in 1 .. Len(log[s])
    BY <1>4
  <2>2. i >= lo(s)
    BY <1>2, <1>5, <1>9 DEF DequeHoldsWaiting
  <2>3. i \notin W(s)
    BY <1>5, <2>1
  <2>4. QED
    BY <1>3, <1>4, <1>8, <2>1, <2>2, <2>3
<1>11. HandedAtMostOnce'
  <2> SUFFICES ASSUME NEW s \in Stream, NEW i \in 1 .. Len(log[s])
               PROVE  fate'[s][i] # "duplicated"
    BY <1>5 DEF HandedAtMostOnce
  <2>1. fate[s][i] # "duplicated"
    BY <1>1, <1>4 DEF HandedAtMostOnce
  <2>2. i \in W(s) => fate[s][i] = "held"
    BY <1>4, <1>8
  <2>3. QED
    BY <1>5, <2>1, <2>2
<1>12. OnlyLateSamplesSkipped'
  <2> SUFFICES ASSUME NEW s \in Stream, NEW i \in 1 .. Len(log[s]),
                      fate'[s][i] = "skipped"
               PROVE  i \in late[s] \/ log[s][i] <= bootTime
    BY <1>2, <1>5 DEF OnlyLateSamplesSkipped
  <2>1. CASE fate[s][i] = "skipped"
    BY <1>1, <1>4, <2>1 DEF OnlyLateSamplesSkipped
  <2>2. CASE fate[s][i] # "skipped"
    <3>1. i \in head[s] .. lo(s) - 1 /\ fate[s][i] = "held"
      BY <1>5, <2>2
    <3>2. log[s][i] <= prevImage /\ log[s][i] \in Int
      BY <1>4, <3>1
    <3>3. QED
      BY <1>1, <1>2, <1>3, <1>4, <3>1, <3>2, SMTT(30) DEF WaitingIsAhead
  <2>3. QED
    BY <2>1, <2>2
<1>13. HandedInOrder'
  <2> SUFFICES ASSUME NEW s \in Stream, NEW i \in 1 .. Len(log[s]),
                      NEW j \in 1 .. Len(log[s]), i < j,
                      fate'[s][j] = "handed", fate'[s][i] = "held"
               PROVE  FALSE
    BY <1>5 DEF HandedInOrder
  <2>1. i >= lo(s) /\ i \notin W(s) /\ fate[s][i] = "held"
    BY <1>2, <1>4, <1>5, <1>8, <1>9 DEF DequeHoldsWaiting
  <2>2. j \notin W(s) /\ fate[s][j] = "handed"
    BY <1>4, <1>5, <2>1, SMTT(30)
  <2>3. QED
    BY <1>1, <1>4, <2>1, <2>2 DEF HandedInOrder
<1>14. QED
  BY <1>6, <1>7, <1>9, <1>10, <1>11, <1>12, <1>13 DEF DeliveryInv

(* Emptying both deques preserves the delivery invariant.                  *)
LEMMA ClearPreserves ==
  ASSUME DeliveryInv, Clear
  PROVE  DeliveryInv'
<1>1. /\ TypeOK /\ Sorted /\ NothingExtractedYet
      /\ DequeHoldsWaiting /\ WaitingIsAhead
      /\ HandedAtMostOnce /\ OnlyLateSamplesSkipped /\ HandedInOrder
  BY DEF DeliveryInv
<1>2. /\ head' = [s \in Stream |-> Len(log[s]) + 1]
      /\ fate' = [s \in Stream |->
                    Dropped(s, fate[s], Len(log[s]) + 1, "cleared")]
      /\ log' = log /\ prevImage' = prevImage /\ tracking' = tracking
      /\ late' = late /\ bootTime' = bootTime
  BY DEF Clear
<1>3. ASSUME NEW s \in Stream
      PROVE  /\ head[s] \in Nat \ {0} /\ Len(log[s]) \in Nat
             /\ DOMAIN log[s] = 1 .. Len(log[s])
             /\ DOMAIN fate[s] = 1 .. Len(log[s])
             /\ DOMAIN fate'[s] = 1 .. Len(log[s])
             /\ head'[s] = Len(log[s]) + 1
             /\ fate'[s] \in Seq(Fate) /\ Len(fate'[s]) = Len(log[s])
             /\ \A i \in 1 .. Len(log[s]) :
                  /\ fate[s][i] = "held" => fate'[s][i] = "cleared"
                  /\ fate[s][i] # "held" => fate'[s][i] = fate[s][i]
  <2>1. /\ head[s] \in Nat \ {0} /\ log[s] \in Seq(Stamp)
        /\ Len(fate[s]) = Len(log[s]) /\ fate[s] \in Seq(Fate)
    BY <1>1 DEF TypeOK
  <2>2. Len(log[s]) + 1 \in Int /\ "cleared" \in Fate
    BY <2>1 DEF Fate
  <2>3. fate'[s] = Dropped(s, fate[s], Len(log[s]) + 1, "cleared")
    BY <1>2
  <2>4. /\ fate'[s] \in Seq(Fate) /\ Len(fate'[s]) = Len(fate[s])
        /\ \A i \in 1 .. Len(fate[s]) : fate'[s][i] =
             IF i \in head[s] .. Len(log[s]) + 1 - 1 /\ fate[s][i] = "held"
             THEN "cleared" ELSE fate[s][i]
    BY <2>1, <2>2, <2>3, DroppedType
  <2>5. \A i \in 1 .. Len(log[s]) : fate[s][i] = "held" => i >= head[s]
    BY <1>1, <2>1 DEF DequeHoldsWaiting
  <2>6. \A i \in 1 .. Len(log[s]) :
          /\ fate[s][i] = "held" => fate'[s][i] = "cleared"
          /\ fate[s][i] # "held" => fate'[s][i] = fate[s][i]
    <3> SUFFICES ASSUME NEW i \in 1 .. Len(log[s])
                 PROVE  /\ fate[s][i] = "held" => fate'[s][i] = "cleared"
                        /\ fate[s][i] # "held" => fate'[s][i] = fate[s][i]
      OBVIOUS
    <3>1. fate[s][i] = "held" => i \in head[s] .. Len(log[s]) + 1 - 1
      BY <2>1, <2>5
    <3>2. QED
      BY <2>1, <2>4, <3>1
  <2>7. head'[s] = Len(log[s]) + 1
    BY <1>2
  <2>8. QED
    BY <2>1, <2>4, <2>6, <2>7
<1>4. TypeOK'
  <2>1. fate' \in [Stream -> Seq(Fate)] /\ head' \in [Stream -> Nat \ {0}]
    <3>1. DOMAIN fate' = Stream /\ fate' = [s \in Stream |-> fate'[s]]
      BY <1>2
    <3>2. QED
      BY <1>2, <1>3, <3>1
  <2>2. \A s \in Stream : Len(fate'[s]) = Len(log'[s]) /\ head'[s] <= Len(log'[s]) + 1
    BY <1>2, <1>3
  <2>3. QED
    BY <1>1, <1>2, <2>1, <2>2 DEF TypeOK
<1>5. Sorted' /\ NothingExtractedYet'
  BY <1>1, <1>2, <1>3 DEF Sorted, NothingExtractedYet
<1>6. DequeHoldsWaiting'
  <2> SUFFICES ASSUME NEW s \in Stream, NEW i \in 1 .. Len(log[s])
               PROVE  fate'[s][i] # "held" /\ ~(i >= head'[s])
    BY <1>2, <1>3 DEF DequeHoldsWaiting
  <2>1. QED
    BY <1>3
<1>7. WaitingIsAhead' /\ HandedAtMostOnce' /\ OnlyLateSamplesSkipped'
  BY <1>1, <1>2, <1>3
     DEF WaitingIsAhead, HandedAtMostOnce, OnlyLateSamplesSkipped
<1>8. HandedInOrder'
  BY <1>3 DEF HandedInOrder
<1>9. QED
  BY <1>4, <1>5, <1>6, <1>7, <1>8 DEF DeliveryInv

-----------------------------------------------------------------------------
(* The delivery invariant is inductive.                                    *)
THEOREM DeliveryInductive == Spec => []DeliveryInv
<1>1. Init => DeliveryInv
  <2> SUFFICES ASSUME Init PROVE DeliveryInv
    OBVIOUS
  <2>1. /\ log = [s \in Stream |-> << >>] /\ fate = [s \in Stream |-> << >>]
        /\ head = [s \in Stream |-> 1] /\ late = [s \in Stream |-> {}]
        /\ prevImage = None /\ bootTime = None /\ tracking = FALSE
    BY DEF Init
  <2>2. TypeOK
    <3>1. /\ log \in [Stream -> Seq(Stamp)] /\ fate \in [Stream -> Seq(Fate)]
          /\ head \in [Stream -> Nat \ {0}] /\ late \in [Stream -> SUBSET Nat]
      BY <2>1
    <3>2. \A s \in Stream : Len(fate[s]) = Len(log[s]) /\ head[s] <= Len(log[s]) + 1
      BY <2>1
    <3>3. /\ prevImage \in Stamp \cup {None} /\ bootTime \in Stamp \cup {None}
          /\ tracking \in BOOLEAN /\ ~tracking
      BY <2>1
    <3>4. QED
      BY <3>1, <3>2, <3>3 DEF TypeOK
  <2>3. \A s \in Stream : DOMAIN log[s] = {} /\ DOMAIN fate[s] = {}
    BY <2>1
  <2>4. QED
    BY <2>2, <2>3
       DEF DeliveryInv, Sorted, NothingExtractedYet, DequeHoldsWaiting,
           WaitingIsAhead, HandedAtMostOnce, OnlyLateSamplesSkipped,
           HandedInOrder
<1>2. DeliveryInv /\ [Next]_vars => DeliveryInv'
  <2> SUFFICES ASSUME DeliveryInv, [Next]_vars
               PROVE  DeliveryInv'
    OBVIOUS
  <2>1. ASSUME NEW s \in Stream, NEW t \in Stamp, Add(s, t)
        PROVE  DeliveryInv'
    BY <2>1, AddPreserves
  <2>2. ASSUME NEW t \in Stamp, NEW detected \in BOOLEAN, Bootstrap(t, detected)
        PROVE  DeliveryInv'
    BY <2>2, BootstrapPreserves
  <2>3. ASSUME NEW t \in Stamp, ExtractWindow(t)
        PROVE  DeliveryInv'
    BY <2>3, ExtractWindowPreserves
  <2>4. CASE Clear
    BY <2>4, ClearPreserves
  <2>5. CASE UNCHANGED vars
    BY <2>5 DEF vars, DeliveryInv, TypeOK, Sorted, NothingExtractedYet,
                DequeHoldsWaiting, WaitingIsAhead, HandedAtMostOnce,
                OnlyLateSamplesSkipped, HandedInOrder
  <2>6. QED
    BY <2>1, <2>2, <2>3, <2>4, <2>5 DEF Next
<1>3. QED
  BY <1>1, <1>2, PTL DEF Spec

(* Every variable of the buffer keeps its type.                            *)
THEOREM TypeCorrect == Spec => []TypeOK
<1>1. DeliveryInv => TypeOK
  BY DEF DeliveryInv
<1>2. QED
  BY <1>1, DeliveryInductive, PTL

(* No sample is handed to the observer twice.                              *)
THEOREM AtMostOnce == Spec => []HandedAtMostOnce
<1>1. DeliveryInv => HandedAtMostOnce
  BY DEF DeliveryInv
<1>2. QED
  BY <1>1, DeliveryInductive, PTL

(* A sample is skipped only if it arrived after its window.                *)
THEOREM SkippedOnlyLate == Spec => []OnlyLateSamplesSkipped
<1>1. DeliveryInv => OnlyLateSamplesSkipped
  BY DEF DeliveryInv
<1>2. QED
  BY <1>1, DeliveryInductive, PTL

(* Each stream is handed out in stamp order.                               *)
THEOREM InOrder == Spec => []HandedInOrder
<1>1. DeliveryInv => HandedInOrder
  BY DEF DeliveryInv
<1>2. QED
  BY <1>1, DeliveryInductive, PTL

(* The safety trim discards an uncovered sample only when images stalled.  *)
THEOREM TrimOnlyWhenStalled == Spec => ExpiredOnlyWhenStalled
<1> DEFINE A == \A s \in Stream : \A i \in DOMAIN fate[s] :
                  /\ tracking
                  /\ fate[s][i] = "held"
                  /\ fate'[s][i] = "expired"
                  => \/ log[s][i] <= prevImage
                     \/ log'[s][Len(log'[s])] - prevImage > MaxBuffer
<1>1. ASSUME DeliveryInv, Next
      PROVE  A
  <2> SUFFICES ASSUME NEW s \in Stream, NEW i \in DOMAIN fate[s],
                      tracking, fate[s][i] = "held", fate'[s][i] = "expired"
               PROVE  \/ log[s][i] <= prevImage
                      \/ log'[s][Len(log'[s])] - prevImage > MaxBuffer
    OBVIOUS
  <2>1. /\ log[s] \in Seq(Stamp) /\ fate[s] \in Seq(Fate)
        /\ Len(fate[s]) = Len(log[s]) /\ i \in 1 .. Len(log[s])
        /\ head[s] \in Nat \ {0} /\ head[s] <= Len(log[s]) + 1
        /\ i >= head[s] /\ prevImage \in Int /\ log[s][i] \in Int
    <3>1. /\ log[s] \in Seq(Stamp) /\ fate[s] \in Seq(Fate)
          /\ Len(fate[s]) = Len(log[s]) /\ prevImage \in Stamp
          /\ head[s] \in Nat \ {0} /\ head[s] <= Len(log[s]) + 1
      BY <1>1 DEF DeliveryInv, TypeOK
    <3>2. i \in 1 .. Len(log[s]) /\ i \in DOMAIN log[s]
      BY <3>1
    <3>3. log[s][i] \in Stamp
      BY <3>1, <3>2, ElementOfSeq
    <3>4. i >= head[s]
      BY <1>1, <3>2 DEF DeliveryInv, DequeHoldsWaiting
    <3>5. QED
      BY <3>1, <3>2, <3>3, <3>4, BufferAssumption
  <2>2. ASSUME NEW q \in Stream, NEW t \in Stamp, Add(q, t)
        PROVE  log'[s][Len(log'[s])] - prevImage > MaxBuffer
               \/ log[s][i] <= prevImage
    <3>1. CASE q # s
      <4>1. fate'[s] = fate[s]
        BY <2>2, <3>1, <1>1 DEF Add, DeliveryInv, TypeOK
      <4>2. QED
        BY <4>1
    <3>2. CASE q = s
      <4> DEFINE newLog  == Append(log[s], t)
                 newHead == TrimmedHead(s, newLog, t)
                 f       == Append(fate[s], "held")
      <4>1. /\ log'[s] = newLog
            /\ fate'[s] = Dropped(s, f, newHead, "expired")
        BY <2>2, <3>2, <1>1 DEF Add, DeliveryInv, TypeOK
      <4>2. /\ newLog \in Seq(Stamp) /\ Len(newLog) = Len(log[s]) + 1
            /\ newLog[Len(newLog)] = t /\ newLog[i] = log[s][i]
            /\ f \in Seq(Fate) /\ Len(f) = Len(newLog) /\ f[i] = "held"
        BY <2>1, SMTT(30) DEF Fate
      <4>3. newLog \in Seq(Int) /\ t \in Int
        BY <4>2, BufferAssumption, SeqMonotonic
      <4> HIDE DEF newLog, f
      <4>4. head[s] <= Len(newLog) + 1
        BY <2>1, <4>2
      <4>5. /\ newHead \in head[s] .. Len(newLog) + 1
            /\ \A k \in head[s] .. Len(newLog) :
                 k < newHead => newLog[k] < t - MaxBuffer
        BY <2>1, <4>3, <4>4, TrimmedHeadBounds
      <4> HIDE DEF newHead
      <4>6. newHead \in Int /\ "expired" \in Fate
        BY <2>1, <4>2, <4>5 DEF Fate
      <4>7. fate'[s][i] = IF i \in head[s] .. newHead - 1 /\ f[i] = "held"
                          THEN "expired" ELSE f[i]
        <5>1. i \in 1 .. Len(f)
          BY <2>1, <4>2
        <5>2. \A k \in 1 .. Len(f) : Dropped(s, f, newHead, "expired")[k] =
                IF k \in head[s] .. newHead - 1 /\ f[k] = "held"
                THEN "expired" ELSE f[k]
          BY <4>2, <4>6, DroppedType
        <5>3. QED
          BY <4>1, <5>1, <5>2
      <4>8. i < newHead /\ i \in head[s] .. Len(newLog)
        BY <2>1, <4>2, <4>5, <4>7
      <4>9. log[s][i] < t - MaxBuffer /\ log'[s][Len(log'[s])] = t
        BY <4>1, <4>2, <4>5, <4>8
      <4>10. QED
        BY <2>1, <4>3, <4>9, BufferAssumption
    <3>3. QED
      BY <3>1, <3>2
  <2>3. ASSUME NEW t \in Stamp, ExtractWindow(t)
        PROVE  FALSE
    <3>1. fate'[s] = Dropped(s, Handed(fate[s], FirstAfter(s, prevImage) ..
                                                FirstAfter(s, t) - 1),
                             FirstAfter(s, prevImage), "skipped")
      BY <2>3 DEF ExtractWindow
    <3>2. QED
      BY <2>1, <3>1 DEF Dropped, Handed
  <2>4. CASE Clear
    BY <2>1, <2>4 DEF Clear, Dropped
  <2>5. ASSUME NEW t \in Stamp, NEW detected \in BOOLEAN, Bootstrap(t, detected)
        PROVE  FALSE
    BY <2>5 DEF Bootstrap
  <2>6. QED
    BY <1>1, <2>2, <2>3, <2>4, <2>5 DEF Next
<1>2. DeliveryInv /\ [Next]_vars => [A]_vars
  BY <1>1
<1> HIDE DEF A
<1>3. Spec => [][A]_vars
  BY <1>2, DeliveryInductive, PTL DEF Spec
<1>4. QED
  BY <1>3 DEF A, ExpiredOnlyWhenStalled

-----------------------------------------------------------------------------
(* The buffer implements the delivery it promises.                         *)

(* What the caller sees of the buffer: the state of the abstraction.       *)
Status == [s \in Stream |-> [i \in DOMAIN fate[s] |-> Outcome(fate[s][i])]]

(* Two streams of outcomes are equal when they agree sample by sample.     *)
LEMMA StreamEqual ==
  ASSUME NEW n, NEW a, NEW b,
         a = [i \in n |-> a[i]], b = [i \in n |-> b[i]],
         \A i \in n : a[i] = b[i]
  PROVE  a = b
<1>1. [i \in n |-> a[i]] = [i \in n |-> b[i]]
  OBVIOUS
<1>2. QED
  BY ONLY <1>1, a = [i \in n |-> a[i]], b = [i \in n |-> b[i]]

Outcomes == {"waiting", "delivered", "delivered twice", "lost"}

(* Only what waits to the buffer waits to the caller.                      *)
LEMMA OutcomeOf ==
  /\ \A g : Outcome(g) \in Outcomes
  /\ \A g : Outcome(g) = "waiting" <=> g = "held"
  /\ Outcome("handed") = "delivered"
  /\ Outcome("expired") = "lost"
  /\ Outcome("skipped") = "lost"
  /\ Outcome("cleared") = "lost"
BY DEF Outcome, Outcomes

(* An append is a reception; the trim only takes the oldest that wait, and *)
(* never the sample that was just appended.                                *)
LEMMA AddReceives ==
  ASSUME DeliveryInv, NEW s \in Stream, NEW t \in Stamp, Add(s, t)
  PROVE  Delivery!Receive(s)
<1> DEFINE n       == Len(log[s]) + 1
           newLog  == Append(log[s], t)
           newHead == TrimmedHead(s, newLog, t)
           f       == Append(fate[s], "held")
           seen    == Append(Status[s], "waiting")
           after   == Delivery!Consumed(seen, newHead, newHead)
<1>1. /\ log[s] \in Seq(Stamp) /\ Len(log[s]) \in Nat /\ n \in Nat \ {0}
      /\ fate \in [Stream -> Seq(Fate)]
      /\ fate[s] \in Seq(Fate) /\ Len(fate[s]) = Len(log[s])
      /\ head[s] \in Nat \ {0} /\ head[s] <= n /\ t \in Int
      /\ \A i \in 1 .. Len(log[s]) : fate[s][i] = "held" => i >= head[s]
  BY BufferAssumption DEF DeliveryInv, TypeOK, DequeHoldsWaiting
<1>2. newLog \in Seq(Int) /\ Len(newLog) = n /\ newLog[n] = t
  <2>1. newLog \in Seq(Stamp) /\ Len(newLog) = n /\ newLog[n] = t
    BY <1>1
  <2>2. QED
    BY <2>1, BufferAssumption, SeqMonotonic
<1>3. newHead \in head[s] .. n
  <2>1. /\ newHead \in head[s] .. n + 1
        /\ \A i \in head[s] .. n : i < newHead => newLog[i] < t - MaxBuffer
    <3> HIDE DEF newLog, n
    <3>1. /\ newHead \in head[s] .. Len(newLog) + 1
          /\ \A i \in head[s] .. Len(newLog) :
               i < newHead => newLog[i] < t - MaxBuffer
      <4>1. head[s] <= Len(newLog) + 1
        BY <1>1, <1>2
      <4>2. QED
        BY <1>1, <1>2, <4>1, TrimmedHeadBounds
    <3>2. QED
      BY <1>2, <3>1
  <2> HIDE DEF newLog, newHead, n
  <2>2. ~(n < newHead)
    BY <1>1, <1>2, <2>1, BufferAssumption
  <2>3. QED
    BY <1>1, <2>1, <2>2
<1>4. /\ f \in Seq(Fate) /\ Len(f) = n /\ f[n] = "held"
      /\ \A i \in 1 .. Len(log[s]) : f[i] = fate[s][i]
  BY <1>1 DEF Fate
<1>5. /\ fate' = [fate EXCEPT ![s] = Dropped(s, f, newHead, "expired")]
  BY DEF Add
<1>6. /\ DOMAIN fate' = Stream /\ \A q \in Stream \ {s} : fate'[q] = fate[q]
      /\ Len(fate'[s]) = n /\ fate'[s] \in Seq(Fate)
      /\ \A i \in 1 .. n : fate'[s][i] =
           IF i \in head[s] .. newHead - 1 /\ f[i] = "held"
           THEN "expired" ELSE f[i]
  <2>1. newHead \in Int /\ "expired" \in Fate
    BY <1>1, <1>3 DEF Fate
  <2> HIDE DEF f, newHead, n
  <2>2. /\ DOMAIN fate' = Stream /\ \A q \in Stream \ {s} : fate'[q] = fate[q]
        /\ fate'[s] = Dropped(s, f, newHead, "expired")
    BY <1>1, <1>5
  <2>3. /\ Dropped(s, f, newHead, "expired") \in Seq(Fate)
        /\ Len(Dropped(s, f, newHead, "expired")) = Len(f)
        /\ \A i \in 1 .. Len(f) : Dropped(s, f, newHead, "expired")[i] =
             IF i \in head[s] .. newHead - 1 /\ f[i] = "held"
             THEN "expired" ELSE f[i]
    BY <1>4, <2>1, DroppedType
  <2>4. QED
    BY <1>4, <2>2, <2>3
<1>7. /\ Status[s] = [i \in 1 .. Len(log[s]) |-> Outcome(fate[s][i])]
      /\ Len(Status[s]) = Len(log[s])
      /\ Status[s] \in Seq(Outcomes)
  <2>1. DOMAIN fate[s] = 1 .. Len(log[s])
    BY <1>1
  <2>2. Status[s] = [i \in 1 .. Len(log[s]) |-> Outcome(fate[s][i])]
    BY <2>1 DEF Status
  <2>3. Status[s] \in [1 .. Len(log[s]) -> Outcomes]
    BY <2>2, OutcomeOf
  <2>4. Status[s] \in Seq(Outcomes)
    <3>1. Len(log[s]) \in Nat
      BY <1>1
    <3>2. QED
      BY ONLY <2>3, <3>1, SeqDef
  <2>5. QED
    BY <1>1, <2>2, <2>4
<1>8. /\ seen = [i \in 1 .. n |-> seen[i]]
      /\ \A i \in 1 .. n : seen[i] = Outcome(f[i])
  <2>1. /\ seen \in Seq(Outcomes) /\ Len(seen) = n
        /\ seen[n] = "waiting"
        /\ \A i \in 1 .. Len(log[s]) : seen[i] = Status[s][i]
    <3>1. "waiting" \in Outcomes
      BY DEF Outcomes
    <3> DEFINE st == Status[s]
    <3>2. st \in Seq(Outcomes) /\ Len(st) = Len(log[s])
      BY <1>7
    <3> HIDE DEF st
    <3>3. /\ Append(st, "waiting") \in Seq(Outcomes)
          /\ Len(Append(st, "waiting")) = n
          /\ Append(st, "waiting")[n] = "waiting"
          /\ \A i \in 1 .. Len(log[s]) : Append(st, "waiting")[i] = st[i]
      BY <1>1, <3>1, <3>2
    <3>4. QED
      BY <3>3 DEF st
  <2>2. \A i \in 1 .. n : i # n => i \in 1 .. Len(log[s])
    BY <1>1
  <2>3. \A i \in 1 .. Len(log[s]) : Status[s][i] = Outcome(fate[s][i])
    BY <1>7
  <2> HIDE DEF seen, f, n
  <2>4. seen = [i \in 1 .. n |-> seen[i]]
    BY <2>1
  <2>5. ASSUME NEW i \in 1 .. n
        PROVE  seen[i] = Outcome(f[i])
    <3>1. CASE i = n
      BY <1>4, <2>1, <3>1, OutcomeOf
    <3>2. CASE i # n
      BY <1>4, <2>1, <2>2, <2>3, <3>2
    <3>3. QED
      BY <3>1, <3>2
  <2>6. QED
    BY <2>4, <2>5
<1>9. /\ after = [i \in 1 .. n |-> after[i]]
      /\ \A i \in 1 .. n : after[i] =
           IF seen[i] # "waiting" \/ i >= newHead THEN seen[i] ELSE "lost"
  <2> HIDE DEF seen, newHead, n
  <2>1. after = [i \in 1 .. n |->
                   IF seen[i] # "waiting" \/ (i >= newHead /\ i >= newHead)
                   THEN seen[i]
                   ELSE IF i < newHead THEN "lost" ELSE "delivered"]
    BY <1>8 DEF Delivery!Consumed
  <2>2. \A i \in 1 .. n : ~(i >= newHead) => i < newHead
    BY <1>1, <1>3
  <2> HIDE DEF after
  <2>3. QED
    BY <2>1, <2>2
<1>10. /\ Status'[s] = [i \in 1 .. n |-> Status'[s][i]]
       /\ \A i \in 1 .. n : Status'[s][i] = Outcome(fate'[s][i])
  <2>1. Status'[s] = [i \in 1 .. n |-> Outcome(fate'[s][i])]
    <3>1. DOMAIN fate'[s] = 1 .. n
      BY <1>6
    <3>2. QED
      BY <3>1 DEF Status
  <2> HIDE DEF n
  <2>2. QED
    BY <2>1
<1> HIDE DEF n, newLog, newHead, f, seen, after
<1>11. ASSUME NEW i \in 1 .. n
       PROVE  Status'[s][i] = after[i]
  <2>1. f[i] = "held" => i >= head[s]
    <3>1. i = n \/ i \in 1 .. Len(log[s])
      BY <1>1 DEF n
    <3>2. QED
      BY <1>1, <1>4, <3>1
  <2>2. CASE f[i] = "held" /\ i < newHead
    <3>1. fate'[s][i] = "expired"
      BY <1>1, <1>3, <1>6, <2>1, <2>2
    <3>2. seen[i] = "waiting" /\ ~(i >= newHead)
      BY <1>1, <1>3, <1>8, <2>2, OutcomeOf
    <3>3. QED
      BY <1>9, <1>10, <3>1, <3>2, OutcomeOf
  <2>3. CASE ~(f[i] = "held" /\ i < newHead)
    <3>1. fate'[s][i] = f[i]
      BY <1>1, <1>3, <1>6, <2>3
    <3>2. seen[i] # "waiting" \/ i >= newHead
      BY <1>1, <1>3, <1>8, <2>3, OutcomeOf
    <3>3. QED
      BY <1>8, <1>9, <1>10, <3>1, <3>2
  <2>4. QED
    BY <2>2, <2>3
<1>12. Status'[s] = after
  BY <1>9, <1>10, <1>11, StreamEqual
<1>13. Status' = [Status EXCEPT ![s] = after]
  <2>1. \A q \in Stream \ {s} : Status'[q] = Status[q]
    BY <1>6 DEF Status
  <2>2. /\ Status = [q \in Stream |-> Status[q]]
        /\ Status' = [q \in Stream |-> Status'[q]]
    BY DEF Status
  <2>3. QED
    BY ONLY <1>12, <2>1, <2>2, s \in Stream
<1>14. newHead \in 1 .. Len(Status[s]) + 1
  BY <1>1, <1>3, <1>7 DEF n
<1>15. QED
  BY <1>13, <1>14 DEF Delivery!Receive, Status, after, seen

(* A step that leaves the arrivals alone and takes each stream up to a     *)
(* point of its own is a delivery.                                         *)
LEMMA ConsumedDelivers ==
  ASSUME NEW lost, NEW delivered, DOMAIN fate' = Stream,
         \A s \in Stream :
           /\ DOMAIN fate[s] = 1 .. Len(log[s]) /\ Len(log[s]) \in Nat
           /\ DOMAIN fate'[s] = DOMAIN fate[s]
           /\ lost[s] \in 1 .. Len(log[s]) + 1
           /\ delivered[s] \in 1 .. Len(log[s]) + 1
           /\ \A i \in 1 .. Len(log[s]) : Outcome(fate'[s][i]) =
                IF \/ fate[s][i] # "held"
                   \/ i >= lost[s] /\ i >= delivered[s]
                THEN Outcome(fate[s][i])
                ELSE IF i < lost[s] THEN "lost" ELSE "delivered"
  PROVE  Delivery!Deliver
<1>1. DOMAIN Status' = Stream
  BY DEF Status
<1>2. ASSUME NEW s \in Stream
      PROVE  /\ lost[s] \in 1 .. Len(Status[s]) + 1
             /\ delivered[s] \in 1 .. Len(Status[s]) + 1
             /\ Status'[s] = Delivery!Consumed(Status[s], lost[s], delivered[s])
  <2> DEFINE n     == Len(log[s])
             after == Delivery!Consumed(Status[s], lost[s], delivered[s])
  <2>1. /\ Status[s] = [i \in 1 .. n |-> Outcome(fate[s][i])]
        /\ Status'[s] = [i \in 1 .. n |-> Outcome(fate'[s][i])]
    BY DEF Status
  <2>2. n \in Nat
    OBVIOUS
  <2>3. Len(Status[s]) = n
    BY <2>1, <2>2
  <2>4. /\ DOMAIN Status[s] = 1 .. n
        /\ \A i \in 1 .. n : /\ Status[s][i] = Outcome(fate[s][i])
                             /\ Status'[s][i] = Outcome(fate'[s][i])
        /\ Status'[s] = [i \in 1 .. n |-> Status'[s][i]]
    BY <2>1
  <2>5. /\ after = [i \in 1 .. n |-> after[i]]
        /\ \A i \in 1 .. n : after[i] =
             IF \/ Status[s][i] # "waiting"
                \/ i >= lost[s] /\ i >= delivered[s]
             THEN Status[s][i]
             ELSE IF i < lost[s] THEN "lost" ELSE "delivered"
    BY <2>4 DEF Delivery!Consumed, Status
  <2>6. ASSUME NEW i \in 1 .. n
        PROVE  Status'[s][i] = after[i]
    <3>1. /\ Status'[s][i] = Outcome(fate'[s][i])
          /\ Status[s][i] = Outcome(fate[s][i])
          /\ Status[s][i] # "waiting" <=> fate[s][i] # "held"
      BY <2>4, OutcomeOf, ZenonT(30)
    <3>2. after[i] =
            IF \/ fate[s][i] # "held"
               \/ i >= lost[s] /\ i >= delivered[s]
            THEN Outcome(fate[s][i])
            ELSE IF i < lost[s] THEN "lost" ELSE "delivered"
      BY <2>5, <3>1
    <3>3. Outcome(fate'[s][i]) =
            IF \/ fate[s][i] # "held"
               \/ i >= lost[s] /\ i >= delivered[s]
            THEN Outcome(fate[s][i])
            ELSE IF i < lost[s] THEN "lost" ELSE "delivered"
      OBVIOUS
    <3> HIDE DEF after
    <3>4. QED
      BY ONLY <3>1, <3>2, <3>3
  <2> HIDE DEF after
  <2>7. Status'[s] = after
    BY <2>4, <2>5, <2>6, StreamEqual, ZenonT(30)
  <2>8. QED
    BY <2>3, <2>7 DEF after
<1>3. QED
  BY <1>1, <1>2, ZenonT(30) DEF Delivery!Deliver, Status


(* Extracting a window delivers it; what waited before it is lost.         *)
LEMMA ExtractWindowDelivers ==
  ASSUME DeliveryInv, NEW t \in Stamp, ExtractWindow(t)
  PROVE  Delivery!Deliver
<1> DEFINE lo == [s \in Stream |-> FirstAfter(s, prevImage)]
           hi == [s \in Stream |-> FirstAfter(s, t)]
<1>1. /\ TypeOK /\ Sorted /\ DequeHoldsWaiting
      /\ tracking /\ prevImage \in Int /\ t \in Int
  <2>1. t # None /\ t \in Int /\ tracking
    BY BufferAssumption DEF ExtractWindow
  <2>2. QED
    BY <2>1, BufferAssumption DEF DeliveryInv, TypeOK
<1>2. DOMAIN fate' = Stream
  BY DEF ExtractWindow
<1>3. ASSUME NEW s \in Stream
      PROVE  /\ DOMAIN fate[s] = 1 .. Len(log[s]) /\ Len(log[s]) \in Nat
             /\ DOMAIN fate'[s] = DOMAIN fate[s]
             /\ lo[s] \in 1 .. Len(log[s]) + 1
             /\ hi[s] \in 1 .. Len(log[s]) + 1
             /\ \A i \in 1 .. Len(log[s]) : Outcome(fate'[s][i]) =
                  IF \/ fate[s][i] # "held"
                     \/ i >= lo[s] /\ i >= hi[s]
                  THEN Outcome(fate[s][i])
                  ELSE IF i < lo[s] THEN "lost" ELSE "delivered"
  <2> DEFINE w == lo[s] .. hi[s] - 1
             g == Handed(fate[s], w)
  <2>1. /\ head[s] \in Nat \ {0} /\ Len(log[s]) \in Nat
        /\ fate[s] \in Seq(Fate) /\ Len(fate[s]) = Len(log[s])
        /\ DOMAIN log[s] = 1 .. Len(log[s])
        /\ DOMAIN fate[s] = 1 .. Len(log[s])
    BY <1>1 DEF TypeOK
  <2>2. /\ lo[s] \in head[s] .. Len(log[s]) + 1
        /\ \A i \in head[s] .. Len(log[s]) : i < lo[s] <=> log[s][i] <= prevImage
    BY <1>1, FirstAfterSplits
  <2>3. /\ hi[s] \in head[s] .. Len(log[s]) + 1
    BY <1>1, FirstAfterSplits
  <2>4. fate'[s] = Dropped(s, g, lo[s], "skipped")
    BY DEF ExtractWindow
  <2>5. ASSUME NEW i \in 1 .. Len(log[s])
        PROVE  /\ fate[s][i] = "held" => i >= head[s]
               /\ i >= lo[s] => fate[s][i] = "held"
    <3>1. fate[s][i] = "held" => i >= head[s]
      BY <1>1, <2>1 DEF DequeHoldsWaiting
    <3>2. ASSUME i >= lo[s]
          PROVE  fate[s][i] = "held"
      <4>1. i \in head[s] .. Len(log[s]) /\ ~(i < lo[s])
        BY <2>1, <2>2, <3>2
      <4>2. ~(log[s][i] <= prevImage) /\ i >= head[s]
        BY <2>1, <2>2, <4>1
      <4>3. QED
        BY <1>1, <2>1, <4>2 DEF DequeHoldsWaiting
    <3>3. QED
      BY <3>1, <3>2
  <2> HIDE DEF lo, hi, w
  <2>6. /\ g \in Seq(Fate) /\ Len(g) = Len(fate[s])
        /\ \A i \in 1 .. Len(fate[s]) : g[i] =
             IF i \notin w THEN fate[s][i]
             ELSE IF fate[s][i] = "held" THEN "handed" ELSE "duplicated"
    BY <2>1, HandedType
  <2> HIDE DEF g
  <2>7. lo[s] \in Int /\ "skipped" \in Fate
    BY <2>1, <2>2 DEF Fate
  <2>8. /\ fate'[s] \in Seq(Fate) /\ Len(fate'[s]) = Len(g)
        /\ \A i \in 1 .. Len(g) : fate'[s][i] =
             IF i \in head[s] .. lo[s] - 1 /\ g[i] = "held"
             THEN "skipped" ELSE g[i]
    BY <2>4, <2>6, <2>7, DroppedType
  <2>9. ASSUME NEW i \in 1 .. Len(log[s])
        PROVE  Outcome(fate'[s][i]) =
                 IF \/ fate[s][i] # "held"
                    \/ i >= lo[s] /\ i >= hi[s]
                 THEN Outcome(fate[s][i])
                 ELSE IF i < lo[s] THEN "lost" ELSE "delivered"
    <3>1. lo[s] \in Int /\ hi[s] \in Int /\ i \in Int /\ head[s] \in Int
      BY <2>1, <2>2, <2>3
    <3>2. CASE fate[s][i] # "held"
      <4>1. i \notin w
        BY <2>5, <3>1, <3>2 DEF w
      <4>2. g[i] = fate[s][i] /\ fate'[s][i] = fate[s][i]
        BY <2>1, <2>6, <2>8, <3>2, <4>1
      <4>3. QED
        BY <3>2, <4>2
    <3>3. CASE fate[s][i] = "held" /\ i >= lo[s] /\ i >= hi[s]
      <4>1. i \notin w /\ i \notin head[s] .. lo[s] - 1
        BY <3>1, <3>3 DEF w
      <4>2. fate'[s][i] = fate[s][i]
        BY <2>1, <2>6, <2>8, <4>1
      <4>3. QED
        BY <3>3, <4>2
    <3>4. CASE fate[s][i] = "held" /\ i < lo[s]
      <4>1. i \notin w /\ i \in head[s] .. lo[s] - 1 /\ ~(i >= lo[s])
        BY <2>5, <3>1, <3>4 DEF w
      <4>2. g[i] = "held" /\ fate'[s][i] = "skipped"
        BY <2>1, <2>6, <2>8, <3>4, <4>1
      <4>3. QED
        BY <3>4, <4>1, <4>2, OutcomeOf
    <3>5. CASE fate[s][i] = "held" /\ i >= lo[s] /\ i < hi[s]
      <4>1. i \in w /\ ~(i < lo[s]) /\ ~(i >= hi[s])
        BY <3>1, <3>5 DEF w
      <4>2. g[i] = "handed"
        BY <2>1, <2>6, <3>5, <4>1
      <4>3. fate'[s][i] = "handed"
        BY <2>1, <2>6, <2>8, <4>2
      <4>4. QED
        BY <3>5, <4>1, <4>3, OutcomeOf
    <3>6. QED
      BY <3>1, <3>2, <3>3, <3>4, <3>5
  <2>10. QED
    BY <2>1, <2>2, <2>3, <2>6, <2>8, <2>9
<1> HIDE DEF lo, hi
<1>4. QED
  BY <1>2, <1>3, ConsumedDelivers

(* clear loses everything that waits.                                      *)
LEMMA ClearDelivers ==
  ASSUME DeliveryInv, Clear
  PROVE  Delivery!Deliver
<1> DEFINE past == [s \in Stream |-> Len(log[s]) + 1]
<1>1. DOMAIN fate' = Stream
  BY DEF Clear
<1>2. ASSUME NEW s \in Stream
      PROVE  /\ DOMAIN fate[s] = 1 .. Len(log[s]) /\ Len(log[s]) \in Nat
             /\ DOMAIN fate'[s] = DOMAIN fate[s]
             /\ past[s] \in 1 .. Len(log[s]) + 1
             /\ \A i \in 1 .. Len(log[s]) : Outcome(fate'[s][i]) =
                  IF \/ fate[s][i] # "held"
                     \/ i >= past[s] /\ i >= past[s]
                  THEN Outcome(fate[s][i])
                  ELSE IF i < past[s] THEN "lost" ELSE "delivered"
  <2>1. /\ head[s] \in Nat \ {0} /\ Len(log[s]) \in Nat
        /\ fate[s] \in Seq(Fate) /\ Len(fate[s]) = Len(log[s])
        /\ \A i \in 1 .. Len(log[s]) : fate[s][i] = "held" => i >= head[s]
    BY DEF DeliveryInv, TypeOK, DequeHoldsWaiting
  <2>2. past[s] = Len(log[s]) + 1 /\ past[s] \in Int /\ "cleared" \in Fate
    BY <2>1 DEF Fate
  <2>3. fate'[s] = Dropped(s, fate[s], past[s], "cleared")
    BY DEF Clear
  <2> HIDE DEF past
  <2>4. /\ fate'[s] \in Seq(Fate) /\ Len(fate'[s]) = Len(fate[s])
        /\ \A i \in 1 .. Len(fate[s]) : fate'[s][i] =
             IF i \in head[s] .. past[s] - 1 /\ fate[s][i] = "held"
             THEN "cleared" ELSE fate[s][i]
    BY <2>1, <2>2, <2>3, DroppedType
  <2>5. ASSUME NEW i \in 1 .. Len(log[s])
        PROVE  Outcome(fate'[s][i]) =
                 IF \/ fate[s][i] # "held"
                    \/ i >= past[s] /\ i >= past[s]
                 THEN Outcome(fate[s][i])
                 ELSE IF i < past[s] THEN "lost" ELSE "delivered"
    <3>1. i < past[s] /\ ~(i >= past[s])
      BY <2>1, <2>2
    <3>2. fate[s][i] = "held" => fate'[s][i] = "cleared"
      BY <2>1, <2>2, <2>4
    <3>3. fate[s][i] # "held" => fate'[s][i] = fate[s][i]
      BY <2>1, <2>4
    <3>4. QED
      BY <3>1, <3>2, <3>3, OutcomeOf
  <2>6. QED
    BY <2>1, <2>2, <2>4, <2>5
<1> HIDE DEF past
<1>3. QED
  BY <1>1, <1>2, ConsumedDelivers

(* The buffer implements at-most-once, in-order delivery: every behaviour  *)
(* of the deques, for any streams, stamps and cap, is one of               *)
(* SampleDelivery.                                                         *)
THEOREM BufferImplementsDelivery == Spec => ImplementsDelivery
<1>1. Init => Delivery!Init
  <2> SUFFICES ASSUME Init PROVE Status = [s \in Stream |-> << >>]
    BY DEF Delivery!Init, Status
  <2>1. \A s \in Stream : fate[s] = << >>
    BY DEF Init
  <2>2. \A s \in Stream :
          [i \in DOMAIN fate[s] |-> Outcome(fate[s][i])] = << >>
    BY <2>1
  <2>3. QED
    BY <2>2 DEF Status
<1>2. DeliveryInv /\ [Next]_vars => [Delivery!Next]_Status
  <2> SUFFICES ASSUME DeliveryInv, [Next]_vars
               PROVE  Delivery!Next \/ UNCHANGED Status
    OBVIOUS
  <2>1. ASSUME NEW s \in Stream, NEW t \in Stamp, Add(s, t)
        PROVE  Delivery!Next
    BY <2>1, AddReceives DEF Delivery!Next
  <2>2. ASSUME NEW t \in Stamp, NEW detected \in BOOLEAN, Bootstrap(t, detected)
        PROVE  UNCHANGED Status
    BY <2>2 DEF Bootstrap, Status
  <2>3. ASSUME NEW t \in Stamp, ExtractWindow(t)
        PROVE  Delivery!Next
    BY <2>3, ExtractWindowDelivers DEF Delivery!Next
  <2>4. CASE Clear
    BY <2>4, ClearDelivers DEF Delivery!Next
  <2>5. CASE UNCHANGED vars
    BY <2>5 DEF vars, Status
  <2>6. QED
    BY <2>1, <2>2, <2>3, <2>4, <2>5 DEF Next
<1>3. QED
  BY <1>1, <1>2, DeliveryInductive, PTL
     DEF Spec, ImplementsDelivery, Delivery!Spec, Status
=============================================================================

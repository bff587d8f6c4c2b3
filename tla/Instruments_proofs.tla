------------------------- MODULE Instruments_proofs -------------------------
(***************************************************************************)
(* Proofs about Instruments, for any number of addresses, slots, requests  *)
(* and transfers, and any capacity of the ring.                            *)
(***************************************************************************)
EXTENDS Instruments, SequenceTheorems, TLAPS

\* One wrap of an index of the ring.
LEMMA Wrap ==
    ASSUME NEW m \in Nat \ {0}, NEW x \in 0..(2 * m - 1)
    PROVE  x % m = IF x < m THEN x ELSE x - m
<1>1. CASE x < m
  BY <1>1
<1>2. CASE x >= m
  <2>1. x = m + (x - m) /\ x - m \in 0..(m - 1)
    BY <1>2
  <2>2. QED
    BY <1>2, <2>1
<1>3. QED
  BY <1>1, <1>2

(***************************************************************************)
(* The ring.                                                               *)
(***************************************************************************)

\* RingHolds unfolded: before the ring has wrapped ...
LEMMA RingPartial ==
    ASSUME NEW b, NEW z, NEW l, NEW n, n = Len(l), n < Capacity, z = n,
           \A i \in 0..(n - 1) : b[i] = l[i + 1]
    PROVE  RingHolds(b, z, n, l)
  BY DEF RingHolds

\* ... and once it is full.
LEMMA RingFull ==
    ASSUME NEW b, NEW z, NEW m, NEW l, NEW n, n = Len(l), ~(n < Capacity), z = Capacity,
           \A i \in 0..(Capacity - 1) :
              b[i] = IF i < m THEN l[n - m + i + 1] ELSE l[n - m - Capacity + i + 1]
    PROVE  RingHolds(b, z, m, l)
  BY DEF RingHolds

\* Finishing one more measurement keeps the ring in step with the list of all.
LEMMA RingStep ==
    ASSUME NEW S, NEW T, NEW buf \in [0..(Capacity - 1) -> S], NEW size,
           NEW nx \in 0..(Capacity - 1), NEW log \in Seq(T), NEW s \in T,
           RingHolds(buf, size, nx, log)
    PROVE  /\ (nx + 1) % Capacity \in 0..(Capacity - 1)
           /\ RingHolds([buf EXCEPT ![nx] = s],
                        IF size < Capacity THEN size + 1 ELSE size,
                        (nx + 1) % Capacity,
                        Append(log, s))
<1>0. Capacity \in Nat \ {0}
  BY BenchAssumption DEF BenchAssumption
<1>1. PICK n \in Nat : n = Len(log)
  OBVIOUS
<1>2. PICK m : m = (nx + 1) % Capacity
  OBVIOUS
<1>3. m = IF nx + 1 < Capacity THEN nx + 1 ELSE 0
  <2>1. PICK x : x = nx + 1
    OBVIOUS
  <2>2. x \in 0..(2 * Capacity - 1)
    BY <1>0, <2>1
  <2>3. x % Capacity = IF x < Capacity THEN x ELSE x - Capacity
    BY ONLY <1>0, <2>2, Wrap
  <2>4. QED
    BY <1>0, <1>2, <2>1, <2>3
<1>4. PICK log2 : log2 = Append(log, s)
  OBVIOUS
<1>5. /\ Len(log2) = n + 1
      /\ \A i \in 1..n : log2[i] = log[i]
      /\ log2[n + 1] = s
  BY <1>1, <1>4, AppendProperties
<1>6. PICK buf2 : buf2 = [buf EXCEPT ![nx] = s]
  OBVIOUS
<1>7. \A i \in 0..(Capacity - 1) : buf2[i] = IF i = nx THEN s ELSE buf[i]
  BY <1>6
<1>8. PICK size2 : size2 = IF size < Capacity THEN size + 1 ELSE size
  OBVIOUS
<1>9. PICK n1 \in Nat : n1 = n + 1
  OBVIOUS
<1>10. CASE n < Capacity
  <2>1. size = n /\ nx = n /\ \A i \in 0..(n - 1) : buf[i] = log[i + 1]
    BY <1>1, <1>10 DEF RingHolds
  <2>2. \A i \in 0..n : buf2[i] = log2[i + 1]
    <3> SUFFICES ASSUME NEW i \in 0..n PROVE buf2[i] = log2[i + 1]
      OBVIOUS
    <3>1. CASE i = n
      BY <1>0, <1>5, <1>7, <1>10, <2>1, <3>1
    <3>2. CASE i < n
      <4>1. buf2[i] = buf[i] /\ i \in 0..(n - 1) /\ i + 1 \in 1..n
        BY <1>0, <1>7, <1>10, <2>1, <3>2
      <4>2. QED
        BY <1>5, <2>1, <4>1
    <3>3. QED
      BY <3>1, <3>2
  <2>3. size2 = n + 1
    BY <1>0, <1>8, <1>10, <2>1
  <2>4. CASE n + 1 < Capacity
    <3>1. m = n + 1
      BY <1>3, <2>1, <2>4
    <3>2. RingHolds(buf2, size2, m, log2)
      <4>1. \A i \in 0..((n + 1) - 1) : buf2[i] = log2[i + 1]
        BY <2>2
      <4>2. QED
        BY <1>5, <2>3, <2>4, <3>1, <4>1, RingPartial
    <3>3. QED
      BY <1>0, <1>2, <1>4, <1>6, <1>8, <2>4, <3>1, <3>2
  <2>5. CASE n + 1 = Capacity
    <3>1. m = 0
      BY <1>3, <2>1, <2>5
    <3>2. ASSUME NEW i \in 0..(Capacity - 1)
          PROVE  buf2[i] = IF i < m THEN log2[n1 - m + i + 1]
                                    ELSE log2[n1 - m - Capacity + i + 1]
      <4>1. ~(i < m) /\ n1 - m - Capacity + i + 1 = i + 1 /\ i \in 0..n
        BY <1>0, <1>9, <2>5, <3>1
      <4>2. QED
        BY <2>2, <4>1
    <3>3. RingHolds(buf2, size2, m, log2)
      <4>1. n1 = Len(log2) /\ ~(n1 < Capacity) /\ size2 = Capacity
        BY <1>0, <1>5, <1>9, <2>3, <2>5
      <4>2. QED
        BY ONLY <3>2, <4>1, RingFull
    <3>4. QED
      BY <1>0, <1>2, <1>4, <1>6, <1>8, <3>1, <3>3
  <2>6. QED
    BY <1>0, <1>10, <2>4, <2>5
<1>11. CASE n >= Capacity
  <2>1. /\ size = Capacity
        /\ \A i \in 0..(Capacity - 1) :
              buf[i] = IF i < nx THEN log[n - nx + i + 1] ELSE log[n - nx - Capacity + i + 1]
    BY <1>0, <1>1, <1>11 DEF RingHolds
  <2>2. size2 = Capacity
    BY <1>0, <1>8, <2>1
  <2>3. ASSUME NEW i \in 0..(Capacity - 1)
        PROVE  buf2[i] = IF i < m THEN log2[n1 - m + i + 1]
                                  ELSE log2[n1 - m - Capacity + i + 1]
    <3>1. CASE i = nx
      <4>1. buf2[i] = log2[n + 1]
        BY <1>5, <1>7, <3>1
      <4>2. CASE nx + 1 < Capacity
        <5>1. i < m /\ n1 - m + i + 1 = n + 1
          BY <1>0, <1>3, <1>9, <3>1, <4>2
        <5>2. QED
          BY <4>1, <5>1
      <4>3. CASE nx + 1 >= Capacity
        <5>1. ~(i < m) /\ n1 - m - Capacity + i + 1 = n + 1
          BY <1>0, <1>3, <1>9, <3>1, <4>3
        <5>2. QED
          BY <4>1, <5>1
      <4>4. QED
        BY <1>0, <4>2, <4>3
    <3>2. CASE i < nx
      <4>1. n - nx + i + 1 \in 1..n
        BY <1>0, <1>11, <3>2
      <4>2. buf2[i] = log2[n - nx + i + 1]
        BY <1>5, <1>7, <2>1, <3>2, <4>1
      <4>3. CASE nx + 1 < Capacity
        <5>1. i < m /\ n1 - m + i + 1 = n - nx + i + 1
          BY <1>0, <1>3, <1>9, <3>2, <4>3
        <5>2. QED
          BY <4>2, <5>1
      <4>4. CASE nx + 1 >= Capacity
        <5>1. ~(i < m) /\ n1 - m - Capacity + i + 1 = n - nx + i + 1
          BY <1>0, <1>3, <1>9, <3>2, <4>4
        <5>2. QED
          BY <4>2, <5>1
      <4>5. QED
        BY <1>0, <4>3, <4>4
    <3>3. CASE i > nx
      <4>1. n - nx - Capacity + i + 1 \in 1..n
        BY <1>0, <1>11, <3>3
      <4>2. buf2[i] = log2[n - nx - Capacity + i + 1]
        <5>1. ~(i < nx) /\ i # nx
          BY <3>3
        <5>2. QED
          BY <1>5, <1>7, <2>1, <5>1, <4>1
      <4>3. m = nx + 1 /\ ~(i < m) /\ n1 - m - Capacity + i + 1 = n - nx - Capacity + i + 1
        BY <1>0, <1>3, <1>9, <3>3
      <4>4. QED
        BY <4>2, <4>3
    <3>4. QED
      BY <1>0, <3>1, <3>2, <3>3
  <2>4. Len(log2) = n + 1 /\ ~(n + 1 < Capacity)
    BY <1>0, <1>5, <1>11
  <2>5. RingHolds(buf2, size2, m, log2)
    <3>1. n1 = Len(log2) /\ ~(n1 < Capacity)
      BY <1>9, <2>4
    <3>2. QED
      BY ONLY <2>2, <2>3, <3>1, RingFull
  <2>6. QED
    BY <1>0, <1>2, <1>3, <1>4, <1>6, <1>8, <2>5
<1>12. QED
  BY <1>0, <1>10, <1>11

\* What the snapshot reads out of the ring is the end of the list of all.
LEMMA RingReads ==
    ASSUME NEW T, NEW buf, NEW size, NEW nx \in 0..(Capacity - 1), NEW log \in Seq(T),
           RingHolds(buf, size, nx, log),
           NEW start, start = IF size = Capacity THEN nx ELSE 0
    PROVE  [i \in 1..size |-> buf[(start + (i - 1)) % Capacity]] = LastOf(log, Capacity)
<1>0. Capacity \in Nat \ {0}
  BY BenchAssumption DEF BenchAssumption
<1>1. PICK n \in Nat : n = Len(log)
  OBVIOUS
<1>2. PICK k \in Nat : k = IF n < Capacity THEN 0 ELSE n - Capacity
  <2>1. n >= Capacity => n - Capacity \in Nat
    BY <1>0
  <2>2. (IF n < Capacity THEN 0 ELSE n - Capacity) \in Nat
    BY <1>0, <2>1
  <2>3. QED
    BY <2>2
<1>3. size = n - k /\ size \in Nat /\ size <= Capacity
  BY <1>0, <1>1, <1>2 DEF RingHolds
<1>4. ASSUME NEW i \in 1..size
      PROVE  buf[(start + (i - 1)) % Capacity] = log[k + i]
  <2>1. PICK x : x = start + (i - 1)
    OBVIOUS
  <2>2. x \in 0..(2 * Capacity - 1)
    BY <1>0, <1>3, <2>1
  <2>3. x % Capacity = IF x < Capacity THEN x ELSE x - Capacity
    BY ONLY <1>0, <2>2, Wrap
  <2>4. CASE n < Capacity
    <3>1. /\ size = n
          /\ \A j \in 0..(n - 1) : buf[j] = log[j + 1]
      BY <1>1, <2>4 DEF RingHolds
    <3>2. x = i - 1 /\ x \in 0..(n - 1) /\ x % Capacity = x /\ k + i = x + 1
      BY <1>0, <1>2, <1>3, <2>1, <2>3, <2>4, <3>1
    <3>3. QED
      BY <2>1, <3>1, <3>2
  <2>5. CASE n >= Capacity
    <3>1. /\ size = Capacity
          /\ \A j \in 0..(Capacity - 1) :
                buf[j] = IF j < nx THEN log[n - nx + j + 1] ELSE log[n - nx - Capacity + j + 1]
      BY <1>0, <1>1, <2>5 DEF RingHolds
    <3>2. x = nx + (i - 1)
      BY <2>1, <3>1
    <3>3. CASE x < Capacity
      <4>1. /\ x % Capacity = x /\ x \in 0..(Capacity - 1) /\ ~(x < nx)
            /\ n - nx - Capacity + x + 1 = k + i
        BY <1>0, <1>2, <1>3, <2>2, <2>3, <2>5, <3>2, <3>3
      <4>2. QED
        BY <2>1, <3>1, <4>1
    <3>4. CASE x >= Capacity
      <4>1. PICK y : y = x - Capacity
        OBVIOUS
      <4>2. /\ x % Capacity = y /\ y \in 0..(Capacity - 1) /\ y < nx
            /\ n - nx + y + 1 = k + i
        BY <1>0, <1>2, <1>3, <2>2, <2>3, <2>5, <3>1, <3>2, <3>4, <4>1
      <4>3. QED
        BY <2>1, <3>1, <4>2
    <3>5. QED
      BY <1>0, <2>2, <3>3, <3>4
  <2>6. QED
    BY <1>0, <2>4, <2>5
<1>5. LastOf(log, Capacity) = [i \in 1..size |-> log[k + i]]
  <2>1. CASE n <= Capacity
    <3>1. k = 0 /\ size = n
      BY <1>0, <1>2, <1>3, <2>1
    <3>2. log = [i \in 1..n |-> log[i]]
      BY <1>1
    <3>3. \A i \in 1..n : log[i] = log[k + i]
      BY <3>1
    <3>4. LastOf(log, Capacity) = log
      BY <1>1, <2>1 DEF LastOf
    <3>5. QED
      BY <3>1, <3>2, <3>3, <3>4
  <2>2. CASE n > Capacity
    <3>1. k = n - Capacity /\ size = Capacity
      BY <1>0, <1>2, <1>3, <2>2
    <3>2. LastOf(log, Capacity) = SubSeq(log, n - Capacity + 1, n)
      BY <1>0, <1>1, <2>2 DEF LastOf
    <3>3. SubSeq(log, n - Capacity + 1, n) = [i \in 1..Capacity |-> log[k + i]]
      BY <1>0, <1>1, <2>2, <3>1
    <3>4. QED
      BY <3>1, <3>2, <3>3
  <2>3. QED
    BY <1>0, <2>1, <2>2
<1>6. QED
  BY <1>4, <1>5

\* What /speedtest shows is right as long as the ring is.
LEMMA RingIsHistory ==
    ASSUME InstTypeOK, RingInv
    PROVE  HistoryIsRight
<1>1. PICK start : start = IF history_size = Capacity THEN history_next_index ELSE 0
  OBVIOUS
<1>2. History = [i \in 1..history_size |->
                    history_buffer[(start + (i - 1)) % Capacity]]
  BY <1>1 DEF History
<1>3. RingHolds(history_buffer, history_size, history_next_index, finished)
  BY DEF RingInv
<1>4. history_next_index \in 0..(Capacity - 1) /\ finished \in Seq(Samples)
  BY DEF InstTypeOK
<1>5. [i \in 1..history_size |-> history_buffer[(start + (i - 1)) % Capacity]]
         = LastOf(finished, Capacity)
  BY <1>1, <1>3, <1>4, RingReads
<1>6. QED
  BY <1>2, <1>5 DEF HistoryIsRight

(***************************************************************************)
(* The tracker.                                                            *)
(***************************************************************************)

Names == {"server.data", "Request"}
Records == Seq([pointer : Keys, name : Names])

\* Membership in the pointers recorded as requests.
LEMMA InRequestPointers ==
    ASSUME NEW records \in Records, NEW q
    PROVE  q \in RequestPointers(records) <=>
               \E i \in 1..Len(records) : /\ records[i].name = "Request"
                                          /\ records[i].pointer = q
  BY DEF RequestPointers

\* Recording keeps one record for each pointer, under the latest name.
LEMMA TrackWorks ==
    ASSUME NEW records \in Records, NEW p \in Keys, NEW name \in Names,
           OneRecordEach(records)
    PROVE  /\ Track(records, p, name) \in Records
           /\ OneRecordEach(Track(records, p, name))
           /\ RequestPointers(Track(records, p, name))
                 = IF name = "Request" THEN RequestPointers(records) \cup {p}
                                       ELSE RequestPointers(records) \ {p}
<1>1. PICK n \in Nat : n = Len(records)
  BY DEF Records
<1>2. PICK after : after = Track(records, p, name)
  OBVIOUS
<1>3. \A i \in 1..n : records[i] \in [pointer : Keys, name : Names]
  BY <1>1, ElementOfSeq DEF Records
<1>4. PICK rec : rec = [pointer |-> p, name |-> name]
  OBVIOUS
<1>5. rec \in [pointer : Keys, name : Names] /\ rec.pointer = p /\ rec.name = name
  BY <1>4
<1>6. CASE IndexOf(records, p) = {}
  <2>1. after = Append(records, rec)
    BY <1>2, <1>4, <1>6 DEF Track
  <2>2. /\ after \in Records
        /\ Len(after) = n + 1
        /\ \A i \in 1..n : after[i] = records[i]
        /\ after[n + 1] = rec
    BY <1>1, <1>5, <2>1, AppendProperties DEF Records
  <2>3. \A i \in 1..n : records[i].pointer # p
    BY <1>1, <1>6 DEF IndexOf
  <2>4. OneRecordEach(after)
    BY <1>1, <1>5, <2>2, <2>3 DEF OneRecordEach
  <2>5. ASSUME NEW q
        PROVE  q \in RequestPointers(after) <=>
                   IF name = "Request" THEN q \in RequestPointers(records) \cup {p}
                                       ELSE q \in RequestPointers(records) \ {p}
    <3>1. q \in RequestPointers(after) <=>
             \E i \in 1..(n + 1) : after[i].name = "Request" /\ after[i].pointer = q
      BY <2>2, InRequestPointers
    <3>2. q \in RequestPointers(records) <=>
             \E i \in 1..n : records[i].name = "Request" /\ records[i].pointer = q
      BY <1>1, InRequestPointers
    <3>3. QED
      BY <1>1, <1>5, <2>2, <2>3, <3>1, <3>2
  <2>6. QED
    BY <1>2, <2>2, <2>4, <2>5
<1>7. CASE IndexOf(records, p) # {}
  <2>1. after = [i \in 1..n |-> IF i \in IndexOf(records, p) THEN rec ELSE records[i]]
    BY <1>1, <1>2, <1>4, <1>7 DEF Track
  <2>2. PICK k \in 1..n : records[k].pointer = p
    BY <1>1, <1>7 DEF IndexOf
  <2>3. IndexOf(records, p) = {k}
    BY <1>1, <2>2 DEF IndexOf, OneRecordEach
  <2>4. /\ after \in Records
        /\ Len(after) = n
        /\ \A i \in 1..n : after[i] = IF i = k THEN rec ELSE records[i]
    BY <1>1, <1>3, <1>5, <2>1, <2>3 DEF Records
  <2>5. \A i \in 1..n : after[i].pointer = records[i].pointer
    BY <1>5, <2>2, <2>4
  <2>6. OneRecordEach(after)
    BY <1>1, <2>4, <2>5 DEF OneRecordEach
  <2>7. ASSUME NEW q
        PROVE  q \in RequestPointers(after) <=>
                   IF name = "Request" THEN q \in RequestPointers(records) \cup {p}
                                       ELSE q \in RequestPointers(records) \ {p}
    <3>1. q \in RequestPointers(after) <=>
             \E i \in 1..n : after[i].name = "Request" /\ after[i].pointer = q
      BY <2>4, InRequestPointers
    <3>2. q \in RequestPointers(records) <=>
             \E i \in 1..n : records[i].name = "Request" /\ records[i].pointer = q
      BY <1>1, InRequestPointers
    <3>3. \A i \in 1..n : records[i].pointer = p => i = k
      BY <1>1, <2>2 DEF OneRecordEach
    <3>4. QED
      BY <1>5, <2>2, <2>4, <3>1, <3>2, <3>3
  <2>8. QED
    BY <1>2, <2>4, <2>6, <2>7
<1>8. QED
  BY <1>6, <1>7

\* Releasing forgets that pointer and no other.
LEMMA UntrackWorks ==
    ASSUME NEW records \in Records, NEW p \in Keys, OneRecordEach(records)
    PROVE  /\ Untrack(records, p) \in Records
           /\ OneRecordEach(Untrack(records, p))
           /\ RequestPointers(Untrack(records, p)) = RequestPointers(records) \ {p}
<1>1. PICK n \in Nat : n = Len(records)
  BY DEF Records
<1>2. PICK after : after = Untrack(records, p)
  OBVIOUS
<1>3. \A i \in 1..n : records[i] \in [pointer : Keys, name : Names]
  BY <1>1, ElementOfSeq DEF Records
<1>4. CASE IndexOf(records, p) = {}
  <2>1. after = records
    BY <1>2, <1>4 DEF Untrack
  <2>2. \A i \in 1..n : records[i].pointer # p
    BY <1>1, <1>4 DEF IndexOf
  <2>3. p \notin RequestPointers(records)
    BY <1>1, <2>2, InRequestPointers
  <2>4. QED
    BY <1>2, <2>1, <2>3
<1>5. CASE IndexOf(records, p) # {}
  <2>1. PICK k \in 1..n : records[k].pointer = p
    BY <1>1, <1>5 DEF IndexOf
  <2>2. \A i \in 1..n : records[i].pointer = p => i = k
    BY <1>1, <2>1 DEF OneRecordEach
  <2>3. IndexOf(records, p) = {k}
    BY <1>1, <2>1, <2>2 DEF IndexOf
  <2>4. after = [i \in 1..(n - 1) |-> IF i = k THEN records[n] ELSE records[i]]
    BY <1>1, <1>2, <1>5, <2>3 DEF Untrack
  <2>5. n - 1 \in Nat /\ n \in 1..n
    BY <2>1
  <2>6. /\ after \in Records
        /\ Len(after) = n - 1
        /\ \A i \in 1..(n - 1) : after[i] = IF i = k THEN records[n] ELSE records[i]
    BY <1>3, <2>4, <2>5 DEF Records
  <2>7. OneRecordEach(after)
    BY <1>1, <2>1, <2>2, <2>5, <2>6 DEF OneRecordEach
  <2>8. ASSUME NEW q
        PROVE  q \in RequestPointers(after) <=> q \in RequestPointers(records) \ {p}
    <3>1. q \in RequestPointers(after) <=>
             \E i \in 1..(n - 1) : after[i].name = "Request" /\ after[i].pointer = q
      BY <2>6, InRequestPointers
    <3>2. q \in RequestPointers(records) <=>
             \E i \in 1..n : records[i].name = "Request" /\ records[i].pointer = q
      BY <1>1, InRequestPointers
    <3>3. ASSUME q \in RequestPointers(after)
          PROVE  q \in RequestPointers(records) /\ q # p
      <4>1. PICK i \in 1..(n - 1) : after[i].name = "Request" /\ after[i].pointer = q
        BY <3>1, <3>3
      <4>2. PICK j : j = IF i = k THEN n ELSE i
        OBVIOUS
      <4>3. j \in 1..n /\ j # k /\ after[i] = records[j]
        BY <2>1, <2>5, <2>6, <4>1, <4>2
      <4>4. QED
        BY <2>2, <3>2, <4>1, <4>3
    <3>4. ASSUME q \in RequestPointers(records), q # p
          PROVE  q \in RequestPointers(after)
      <4>1. PICK j \in 1..n : records[j].name = "Request" /\ records[j].pointer = q
        BY <3>2, <3>4
      <4>2. j # k
        BY <2>1, <3>4, <4>1
      <4>3. PICK i : i = IF j = n THEN k ELSE j
        OBVIOUS
      <4>4. i \in 1..(n - 1) /\ after[i] = records[j]
        BY <2>1, <2>5, <2>6, <4>1, <4>2, <4>3
      <4>5. QED
        BY <3>1, <4>1, <4>4
    <3>5. QED
      BY <3>3, <3>4
  <2>9. QED
    BY <1>2, <2>6, <2>7, <2>8
<1>6. QED
  BY <1>4, <1>5

(***************************************************************************)
(* The steps.                                                              *)
(***************************************************************************)

Timers == [key : Keys \cup {NoKey}, sample : Samples \cup {NoSample}]

LEMMA Constants ==
    /\ MaxThings \in Nat /\ Samples = 1..MaxThings
    /\ Capacity \in Nat \ {0} /\ MaxActive \in Nat
    /\ NoKey \notin Keys
  BY BenchAssumption, InstAssumption DEF BenchAssumption, InstAssumption

LEMMA InstInvInit == Init => InstInv
<1> SUFFICES ASSUME Init PROVE InstInv
  OBVIOUS
<1> USE DEF Init, BenchInit
<1>1. InstTypeOK
  <2>1. Unused \in [key : Keys \cup {NoKey}, sample : Samples \cup {NoSample}]
    BY DEF Unused
  <2>2. QED
    BY Constants, <2>1 DEF InstTypeOK
<1>2. RingInv
  <2>1. Len(finished) = 0
    OBVIOUS
  <2>2. QED
    BY Constants, <2>1 DEF RingInv, RingHolds
<1>3. OneSlotPerKey /\ SlotsCurrent
  BY DEF OneSlotPerKey, SlotsCurrent, Unused
<1>4. Requests = {}
  BY DEF Requests
<1>5. RequestsTracked
  <2>1. Len(g_records) = 0
    OBVIOUS
  <2>2. OneRecordEach(g_records) /\ RequestPointers(g_records) = {}
    BY <2>1 DEF OneRecordEach, RequestPointers
  <2>3. QED
    BY <1>4, <2>2 DEF RequestsTracked
<1>6. TimedHaveSlots
  BY <1>4 DEF TimedHaveSlots
<1>7. QED
  BY <1>1, <1>2, <1>3, <1>5, <1>6 DEF InstInv

\* The start of a timing at a free address touches the slot of that address alone.
LEMMA BeginWorks ==
    ASSUME InstInv, NEW a \in Keys, Begin(a)
    PROVE  /\ active_timers' \in [Slots -> Timers]
           /\ OneSlotPerKey'
           /\ \A j \in Slots :
                 \/ active_timers'[j] = active_timers[j] /\ active_timers[j].key # a
                 \/ active_timers'[j] = [key |-> a, sample |-> started']
           /\ \A q \in Keys : q # a => SlotsOf(q)' = SlotsOf(q)
           /\ started' \in timed' <=> SlotsOf(a)' # {}
<1> USE DEF InstInv
<1>1. started' = started + 1 /\ started' \in Samples
  BY Constants DEF Begin, InstTypeOK
<1>2. started' \notin timed
  BY <1>1, Constants DEF InstTypeOK
<1>3. CASE SlotsOf(a) = {} /\ SlotsOf(NoKey) = {}
  <2>1. active_timers' = active_timers /\ timed' = timed
    BY <1>3 DEF Begin, Start
  <2>2. QED
    BY <1>2, <1>3, <2>1 DEF OneSlotPerKey, SlotsOf, InstTypeOK, Timers
<1>4. ASSUME NEW i \in Slots,
             active_timers' = [active_timers EXCEPT ![i] = [key |-> a, sample |-> started']],
             active_timers[i].key \in {a, NoKey},
             \A j \in Slots : active_timers[j].key = a => j = i
      PROVE  /\ active_timers' \in [Slots -> Timers]
             /\ OneSlotPerKey'
             /\ \A j \in Slots :
                   \/ active_timers'[j] = active_timers[j] /\ active_timers[j].key # a
                   \/ active_timers'[j] = [key |-> a, sample |-> started']
             /\ \A q \in Keys : q # a => SlotsOf(q)' = SlotsOf(q)
             /\ SlotsOf(a)' # {}
  <2>1. PICK t : t = [key |-> a, sample |-> started']
    OBVIOUS
  <2>2. t \in Timers /\ t.key = a
    BY <1>1, <2>1 DEF Timers
  <2>3. /\ active_timers' \in [Slots -> Timers]
        /\ \A j \in Slots : active_timers'[j] = IF j = i THEN t ELSE active_timers[j]
    BY <1>4, <2>1, <2>2 DEF InstTypeOK, Timers
  <2>4. OneSlotPerKey'
    BY <1>4, <2>2, <2>3 DEF OneSlotPerKey
  <2>5. \A j \in Slots : j # i => active_timers[j].key # a
    BY <1>4
  <2>6. \A q \in Keys : q # a => SlotsOf(q)' = SlotsOf(q)
    BY <1>4, <2>2, <2>3, Constants DEF SlotsOf
  <2>7. i \in SlotsOf(a)'
    BY <2>2, <2>3 DEF SlotsOf
  <2>8. QED
    BY <2>1, <2>3, <2>4, <2>5, <2>6, <2>7
<1>5. CASE SlotsOf(a) # {}
  <2>1. PICK i \in SlotsOf(a) :
           active_timers' = [active_timers EXCEPT ![i] = [key |-> a, sample |-> started']]
    BY <1>5 DEF Begin, Start
  <2>2. i \in Slots /\ active_timers[i].key = a
    BY DEF SlotsOf
  <2>3. \A j \in Slots : active_timers[j].key = a => j = i
    BY <2>2, Constants DEF OneSlotPerKey
  <2>4. started' \in timed'
    BY <1>5 DEF Begin
  <2>5. QED
    BY <1>4, <2>1, <2>2, <2>3, <2>4
<1>6. CASE SlotsOf(a) = {} /\ SlotsOf(NoKey) # {}
  <2>1. PICK i \in SlotsOf(NoKey) :
           active_timers' = [active_timers EXCEPT ![i] = [key |-> a, sample |-> started']]
    BY <1>6 DEF Begin, Start
  <2>2. /\ i \in Slots /\ active_timers[i].key = NoKey
        /\ \A j \in Slots : active_timers[j].key = a => j = i
    BY <1>6 DEF SlotsOf
  <2>3. started' \in timed'
    BY <1>6 DEF Begin
  <2>4. QED
    BY <1>4, <2>1, <2>2, <2>3
<1>7. QED
  BY <1>3, <1>5, <1>6

\* What the start of a timing preserves, whether the thing stays at its address or is freed
\* again.
LEMMA BeginInv ==
    ASSUME InstInv, NEW a \in Keys, Begin(a), live[a] = 0,
           live' \in [Keys -> 0..started'], live'[a] \in {0, started'},
           \A q \in Keys : q # a => live'[q] = live[q],
           \A q \in (Requests \cup flying)' :
              IF q = a THEN live'[a] = started' ELSE q \in Requests \cup flying
    PROVE  /\ started' = started + 1 /\ started' \in 1..MaxThings
           /\ timed' \subseteq 1..started'
           /\ UNCHANGED <<history_buffer, history_size, history_next_index, finished>>
           /\ active_timers' \in [Slots -> Timers]
           /\ OneSlotPerKey' /\ SlotsCurrent' /\ TimedHaveSlots' /\ RingInv'
<1> USE DEF InstInv
<1>1. started' = started + 1 /\ started \in Nat /\ started' \in 1..MaxThings
  BY Constants DEF Begin, InstTypeOK
<1>2. timed' \subseteq 1..started' /\ \A n \in 0..started : n \in timed' <=> n \in timed
  BY <1>1 DEF Begin, InstTypeOK
<1>3. UNCHANGED <<history_buffer, history_size, history_next_index, finished>>
  BY DEF Begin, Start
<1>4. /\ active_timers' \in [Slots -> Timers]
      /\ OneSlotPerKey'
      /\ \A j \in Slots :
            \/ active_timers'[j] = active_timers[j] /\ active_timers[j].key # a
            \/ active_timers'[j] = [key |-> a, sample |-> started']
      /\ \A q \in Keys : q # a => SlotsOf(q)' = SlotsOf(q)
      /\ started' \in timed' <=> SlotsOf(a)' # {}
  BY BeginWorks
<1>5. SlotsCurrent'
  <2> SUFFICES ASSUME NEW j \in Slots, active_timers'[j].key # NoKey,
                      live'[active_timers'[j].key] # 0
               PROVE  active_timers'[j].sample = live'[active_timers'[j].key]
    BY DEF SlotsCurrent
  <2>1. CASE active_timers'[j] = [key |-> a, sample |-> started']
    BY <2>1
  <2>2. CASE active_timers'[j] = active_timers[j] /\ active_timers[j].key # a
    <3>1. active_timers[j].key \in Keys
      BY <2>2 DEF InstTypeOK
    <3>2. QED
      BY <2>2, <3>1 DEF SlotsCurrent
  <2>3. QED
    BY <1>4, <2>1, <2>2
<1>6. TimedHaveSlots'
  <2> SUFFICES ASSUME NEW q \in (Requests \cup flying)'
               PROVE  live'[q] \in timed' <=> SlotsOf(q)' # {}
    BY DEF TimedHaveSlots
  <2>1. CASE q = a
    BY <1>4, <2>1
  <2>2. CASE q # a
    <3>1. q \in Requests \cup flying /\ q \in Keys
      BY <2>2 DEF Requests, InstTypeOK
    <3>2. live'[q] = live[q] /\ live[q] \in 0..started
      BY <2>2, <3>1 DEF InstTypeOK
    <3>3. SlotsOf(q)' = SlotsOf(q)
      BY <1>4, <2>2, <3>1
    <3>4. QED
      BY <1>2, <3>1, <3>2, <3>3 DEF TimedHaveSlots
  <2>3. QED
    BY <2>1, <2>2
<1>7. RingInv'
  BY <1>3 DEF RingInv
<1>8. QED
  BY <1>1, <1>2, <1>3, <1>4, <1>5, <1>6, <1>7

\* Recording a read buffer and a request.
LEMMA ArrivalTracked ==
    ASSUME InstInv, NEW a \in Keys, NEW b \in Keys, b \notin Requests,
           NEW records, records = Track(Track(g_records, b, "server.data"), a, "Request")
    PROVE  /\ records \in Records
           /\ OneRecordEach(records)
           /\ RequestPointers(records) = Requests \cup {a}
<1> USE DEF InstInv
<1>1. g_records \in Records
  BY DEF InstTypeOK, Records, Names
<1>2. PICK first : first = Track(g_records, b, "server.data")
  OBVIOUS
<1>3. /\ first \in Records
      /\ OneRecordEach(first)
      /\ RequestPointers(first) = RequestPointers(g_records) \ {b}
  BY <1>1, <1>2, TrackWorks DEF RequestsTracked, Names
<1>4. records = Track(first, a, "Request")
  BY <1>2
<1>5. /\ records \in Records
      /\ OneRecordEach(records)
      /\ RequestPointers(records) = RequestPointers(first) \cup {a}
  BY <1>3, <1>4, TrackWorks DEF Names
<1>6. QED
  BY <1>3, <1>5 DEF RequestsTracked

LEMMA ArriveInv ==
    ASSUME InstInv, NEW a \in Keys, NEW b \in Keys, Arrive(a, b)
    PROVE  InstInv'
<1> USE DEF InstInv
<1>1. /\ Begin(a) /\ live[a] = 0 /\ live[b] = 0 /\ a # b
      /\ live' = [live EXCEPT ![a] = started']
      /\ handling' = a /\ data' = b
      /\ UNCHANGED <<transfers, flying>>
  BY DEF Arrive, Free
<1>2. started' = started + 1 /\ started \in Nat /\ started' \in 1..MaxThings
  BY <1>1, Constants DEF Begin, InstTypeOK
<1>3. /\ live' \in [Keys -> 0..started']
      /\ live'[a] = started'
      /\ \A q \in Keys : q # a => live'[q] = live[q]
  BY <1>1, <1>2 DEF InstTypeOK
<1>4. transfers' = transfers /\ flying' = flying /\ a \notin transfers
  BY <1>1 DEF InstTypeOK
<1>5. Requests' = Requests \cup {a}
  BY <1>2, <1>3, <1>4 DEF Requests
<1>6. /\ timed' \subseteq 1..started'
      /\ UNCHANGED <<history_buffer, history_size, history_next_index, finished>>
      /\ active_timers' \in [Slots -> Timers]
      /\ OneSlotPerKey' /\ SlotsCurrent' /\ TimedHaveSlots' /\ RingInv'
  <2>1. \A q \in (Requests \cup flying)' :
           IF q = a THEN live'[a] = started' ELSE q \in Requests \cup flying
    BY <1>3, <1>4, <1>5
  <2>2. QED
    BY <1>1, <1>3, <2>1, BeginInv
<1>7. g_records' \in Records /\ RequestsTracked'
  <2>1. b \notin Requests
    BY <1>1 DEF Requests
  <2>2. g_records' = Track(Track(g_records, b, "server.data"), a, "Request")
    BY DEF Arrive
  <2>3. QED
    BY <1>5, <2>1, <2>2, ArrivalTracked DEF RequestsTracked
<1>8. InstTypeOK'
  <2>1. transfers \subseteq {q \in Keys : live'[q] # 0}
    BY <1>1, <1>3 DEF InstTypeOK
  <2>2. data' # NoKey => live'[data'] = 0
    BY <1>1, <1>3
  <2>3. QED
    BY <1>1, <1>2, <1>3, <1>4, <1>6, <1>7, <2>1, <2>2
       DEF InstTypeOK, Timers, Records, Names
<1>9. QED
  BY <1>6, <1>7, <1>8

LEMMA ArriveUnparsableInv ==
    ASSUME InstInv, NEW a \in Keys, NEW b \in Keys, ArriveUnparsable(a, b)
    PROVE  InstInv'
<1> USE DEF InstInv
<1>1. /\ UNCHANGED <<benchVars, thingVars, finished>>
      /\ a \notin Requests /\ b \notin Requests
  BY DEF ArriveUnparsable, Free, Requests
<1>2. PICK records : records = Track(Track(g_records, b, "server.data"), a, "Request")
  OBVIOUS
<1>3. /\ records \in Records
      /\ OneRecordEach(records)
      /\ RequestPointers(records) = Requests \cup {a}
  BY <1>1, <1>2, ArrivalTracked
<1>4. g_records' = Untrack(records, a)
  BY <1>2 DEF ArriveUnparsable
<1>5. /\ g_records' \in Records
      /\ OneRecordEach(g_records')
      /\ RequestPointers(g_records') = Requests
  <2>1. /\ Untrack(records, a) \in Records
        /\ OneRecordEach(Untrack(records, a))
        /\ RequestPointers(Untrack(records, a)) = RequestPointers(records) \ {a}
    BY <1>3, UntrackWorks
  <2>2. (Requests \cup {a}) \ {a} = Requests
    BY <1>1
  <2>3. QED
    BY <1>3, <1>4, <2>1, <2>2
<1>6. RequestsTracked'
  BY <1>1, <1>5 DEF RequestsTracked, Requests, thingVars
<1>7. InstTypeOK'
  BY <1>1, <1>5 DEF InstTypeOK, thingVars, benchVars, Records, Names
<1>8. OneSlotPerKey' /\ SlotsCurrent' /\ TimedHaveSlots' /\ RingInv'
  BY <1>1 DEF OneSlotPerKey, SlotsCurrent, TimedHaveSlots, SlotsOf, RingInv, Requests,
              thingVars, benchVars
<1>9. QED
  BY <1>6, <1>7, <1>8

LEMMA FetchStartsInv ==
    ASSUME InstInv, NEW k \in Keys, FetchStarts(k)
    PROVE  InstInv'
<1> USE DEF InstInv
<1>1. /\ Begin(k) /\ live[k] = 0 /\ k # data
      /\ live' = [live EXCEPT ![k] = started']
      /\ transfers' = transfers \cup {k} /\ flying' = flying \cup {k}
      /\ UNCHANGED <<g_records, handling, data>>
  BY DEF FetchStarts, Free
<1>2. started' = started + 1 /\ started \in Nat /\ started' \in 1..MaxThings
  BY <1>1, Constants DEF Begin, InstTypeOK
<1>3. /\ live' \in [Keys -> 0..started']
      /\ live'[k] = started'
      /\ \A q \in Keys : q # k => live'[q] = live[q]
  BY <1>1, <1>2 DEF InstTypeOK
<1>4. Requests' = Requests
  BY <1>1, <1>3 DEF Requests
<1>5. /\ timed' \subseteq 1..started'
      /\ UNCHANGED <<history_buffer, history_size, history_next_index, finished>>
      /\ active_timers' \in [Slots -> Timers]
      /\ OneSlotPerKey' /\ SlotsCurrent' /\ TimedHaveSlots' /\ RingInv'
  <2>1. \A q \in (Requests \cup flying)' :
           IF q = k THEN live'[k] = started' ELSE q \in Requests \cup flying
    BY <1>1, <1>3, <1>4
  <2>2. QED
    BY <1>1, <1>3, <2>1, BeginInv
<1>6. RequestsTracked'
  BY <1>1, <1>4 DEF RequestsTracked
<1>7. InstTypeOK'
  <2>1. transfers' \subseteq {q \in Keys : live'[q] # 0} /\ flying' \subseteq transfers'
    BY <1>1, <1>2, <1>3 DEF InstTypeOK
  <2>2. data' # NoKey => live'[data'] = 0
    BY <1>1, <1>3 DEF InstTypeOK
  <2>3. QED
    BY <1>1, <1>2, <1>3, <1>5, <2>1, <2>2 DEF InstTypeOK, Timers
<1>8. QED
  BY <1>5, <1>6, <1>7

LEMMA FetchFailsInv ==
    ASSUME InstInv, NEW k \in Keys, FetchFails(k)
    PROVE  InstInv'
<1> USE DEF InstInv
<1>1. /\ Begin(k) /\ live[k] = 0
      /\ UNCHANGED <<g_records, live, transfers, flying, handling, data>>
  BY DEF FetchFails, Free
<1>2. started' = started + 1 /\ started \in Nat /\ started' \in 1..MaxThings
  BY <1>1, Constants DEF Begin, InstTypeOK
<1>3. live' \in [Keys -> 0..started'] /\ live' = live
  BY <1>1, <1>2 DEF InstTypeOK
<1>4. Requests' = Requests /\ k \notin Requests /\ k \notin flying
  BY <1>1 DEF Requests, InstTypeOK
<1>5. /\ timed' \subseteq 1..started'
      /\ UNCHANGED <<history_buffer, history_size, history_next_index, finished>>
      /\ active_timers' \in [Slots -> Timers]
      /\ OneSlotPerKey' /\ SlotsCurrent' /\ TimedHaveSlots' /\ RingInv'
  <2>1. \A q \in (Requests \cup flying)' :
           IF q = k THEN live'[k] = started' ELSE q \in Requests \cup flying
    BY <1>1, <1>4
  <2>2. QED
    BY <1>1, <1>3, <2>1, BeginInv
<1>6. RequestsTracked'
  BY <1>1, <1>4 DEF RequestsTracked
<1>7. InstTypeOK'
  BY <1>1, <1>2, <1>3, <1>5 DEF InstTypeOK, Timers
<1>8. QED
  BY <1>5, <1>6, <1>7

\* What the end of a timing preserves, whether the thing is freed with it or not.
LEMMA FinishInv ==
    ASSUME InstInv, NEW a \in Requests \cup flying, Finish(a),
           live' \in [Keys -> 0..started],
           live'[a] \in {0, live[a]}, \A q \in Keys : q # a => live'[q] = live[q],
           (Requests \cup flying)' \subseteq (Requests \cup flying) \ {a}
    PROVE  /\ active_timers' \in [Slots -> Timers]
           /\ history_buffer' \in [0..(Capacity - 1) -> Samples \cup {NoSample}]
           /\ history_size' \in 0..Capacity
           /\ history_next_index' \in 0..(Capacity - 1)
           /\ finished' \in Seq(Samples)
           /\ OneSlotPerKey' /\ SlotsCurrent' /\ TimedHaveSlots' /\ RingInv'
<1> USE DEF InstInv
<1>1. a \in Keys /\ live[a] \in Samples
  BY Constants DEF Requests, InstTypeOK
<1>2. timed' = timed /\ started' = started
  BY DEF Finish
<1>3. live[a] \in timed <=> SlotsOf(a) # {}
  BY DEF TimedHaveSlots
<1>4. ASSUME \A q \in Keys : q # a => SlotsOf(q)' = SlotsOf(q)
      PROVE  TimedHaveSlots'
  <2> SUFFICES ASSUME NEW q \in (Requests \cup flying)'
               PROVE  live'[q] \in timed' <=> SlotsOf(q)' # {}
    BY DEF TimedHaveSlots
  <2>1. q \in Requests \cup flying /\ q # a
    OBVIOUS
  <2>2. q \in Keys
    BY <2>1 DEF Requests, InstTypeOK
  <2>3. QED
    BY <1>2, <1>4, <2>1, <2>2 DEF TimedHaveSlots
<1>5. CASE SlotsOf(a) = {}
  <2>1. UNCHANGED <<benchVars, finished>>
    BY <1>3, <1>5 DEF Finish, End
  <2>2. OneSlotPerKey' /\ RingInv'
    BY <2>1 DEF OneSlotPerKey, RingInv, benchVars
  <2>3. SlotsCurrent'
    BY <1>1, <2>1 DEF SlotsCurrent, InstTypeOK, benchVars
  <2>4. TimedHaveSlots'
    BY <1>4, <2>1 DEF SlotsOf, benchVars
  <2>5. QED
    BY <2>1, <2>2, <2>3, <2>4 DEF InstTypeOK, Timers, benchVars
<1>6. CASE SlotsOf(a) # {}
  <2>1. PICK i \in SlotsOf(a) :
          /\ history_buffer' = [history_buffer EXCEPT
                                   ![history_next_index] = active_timers[i].sample]
          /\ history_next_index' = (history_next_index + 1) % Capacity
          /\ history_size' = IF history_size < Capacity THEN history_size + 1
                                                        ELSE history_size
          /\ active_timers' = [active_timers EXCEPT ![i] = Unused]
    BY <1>6 DEF Finish, End
  <2>2. finished' = Append(finished, live[a])
    BY <1>3, <1>6 DEF Finish
  <2>3. i \in Slots /\ active_timers[i].key = a
    BY DEF SlotsOf
  <2>4. active_timers[i].sample = live[a]
    BY <1>1, <2>3, Constants DEF SlotsCurrent
  <2>5. \A j \in Slots : active_timers[j].key = a => j = i
    BY <1>1, <2>3, Constants DEF OneSlotPerKey
  <2>6. Unused.key = NoKey /\ Unused \in Timers
    BY DEF Unused, Timers
  <2>7. /\ active_timers' \in [Slots -> Timers]
        /\ \A j \in Slots : active_timers'[j] = IF j = i THEN Unused ELSE active_timers[j]
    BY <2>1, <2>3, <2>6 DEF InstTypeOK, Timers
  <2>8. OneSlotPerKey'
    BY <2>6, <2>7 DEF OneSlotPerKey
  <2>9. SlotsCurrent'
    <3> SUFFICES ASSUME NEW j \in Slots, active_timers'[j].key # NoKey,
                        live'[active_timers'[j].key] # 0
                 PROVE  active_timers'[j].sample = live'[active_timers'[j].key]
      BY DEF SlotsCurrent
    <3>1. j # i /\ active_timers'[j] = active_timers[j] /\ active_timers[j].key # a
      BY <2>5, <2>6, <2>7
    <3>2. active_timers[j].key \in Keys
      BY <3>1 DEF InstTypeOK
    <3>3. QED
      BY <3>1, <3>2 DEF SlotsCurrent
  <2>10. TimedHaveSlots'
    <3>1. \A q \in Keys : q # a => SlotsOf(q)' = SlotsOf(q)
      BY <2>3, <2>6, <2>7, Constants DEF SlotsOf
    <3>2. QED
      BY <1>4, <3>1
  <2>11. /\ history_next_index' \in 0..(Capacity - 1)
         /\ RingInv'
    <3>1. PICK z : z = live[a]
      OBVIOUS
    <3>2. /\ history_buffer \in [0..(Capacity - 1) -> Samples \cup {NoSample}]
          /\ history_next_index \in 0..(Capacity - 1)
          /\ finished \in Seq(Samples)
          /\ z \in Samples
          /\ RingHolds(history_buffer, history_size, history_next_index, finished)
      BY <1>1, <3>1 DEF InstTypeOK, RingInv
    <3>3. /\ (history_next_index + 1) % Capacity \in 0..(Capacity - 1)
          /\ RingHolds([history_buffer EXCEPT ![history_next_index] = z],
                       IF history_size < Capacity THEN history_size + 1 ELSE history_size,
                       (history_next_index + 1) % Capacity,
                       Append(finished, z))
      BY ONLY <3>2, RingStep
    <3>4. /\ history_buffer' = [history_buffer EXCEPT ![history_next_index] = z]
          /\ finished' = Append(finished, z)
      BY <2>1, <2>2, <2>4, <3>1
    <3>5. QED
      BY <2>1, <3>3, <3>4 DEF RingInv
  <2>12. history_buffer' \in [0..(Capacity - 1) -> Samples \cup {NoSample}]
    BY <1>1, <2>1, <2>4 DEF InstTypeOK
  <2>13. history_size' \in 0..Capacity
    BY <2>1, Constants DEF InstTypeOK
  <2>14. finished' \in Seq(Samples)
    BY <1>1, <2>2 DEF InstTypeOK
  <2>15. QED
    BY <2>7, <2>8, <2>9, <2>10, <2>11, <2>12, <2>13, <2>14
<1>7. QED
  BY <1>5, <1>6

LEMMA TransferEndsInv ==
    ASSUME InstInv, NEW k \in Keys, TransferEnds(k)
    PROVE  InstInv'
<1> USE DEF InstInv
<1>1. /\ Finish(k) /\ k \in flying /\ flying' = flying \ {k}
      /\ UNCHANGED <<g_records, live, transfers, handling, data>>
      /\ UNCHANGED <<started, timed>>
  BY DEF TransferEnds, Finish
<1>2. Requests' = Requests /\ k \notin Requests
  BY <1>1 DEF Requests, InstTypeOK
<1>3. /\ active_timers' \in [Slots -> Timers]
      /\ history_buffer' \in [0..(Capacity - 1) -> Samples \cup {NoSample}]
      /\ history_size' \in 0..Capacity
      /\ history_next_index' \in 0..(Capacity - 1)
      /\ finished' \in Seq(Samples)
      /\ OneSlotPerKey' /\ SlotsCurrent' /\ TimedHaveSlots' /\ RingInv'
  <2>1. (Requests \cup flying)' \subseteq (Requests \cup flying) \ {k}
    BY <1>1, <1>2
  <2>2. live' = live /\ live' \in [Keys -> 0..started]
    BY <1>1 DEF InstTypeOK
  <2>3. QED
    BY <1>1, <2>1, <2>2, FinishInv
<1>4. RequestsTracked'
  BY <1>1, <1>2 DEF RequestsTracked
<1>5. InstTypeOK'
  BY <1>1, <1>3 DEF InstTypeOK, Timers
<1>6. QED
  BY <1>3, <1>4, <1>5

LEMMA LeavePendingInv ==
    ASSUME InstInv, LeavePending
    PROVE  InstInv'
<1> USE DEF InstInv
<1>1. /\ UNCHANGED <<benchVars, g_records, live, transfers, flying, started, timed, finished>>
      /\ handling' = NoKey /\ data' = NoKey
  BY DEF LeavePending
<1>2. Requests' = Requests
  BY <1>1 DEF Requests
<1>3. InstTypeOK'
  BY <1>1 DEF InstTypeOK, benchVars
<1>4. OneSlotPerKey' /\ SlotsCurrent' /\ TimedHaveSlots' /\ RingInv' /\ RequestsTracked'
  BY <1>1, <1>2 DEF OneSlotPerKey, SlotsCurrent, TimedHaveSlots, SlotsOf, RingInv,
                    RequestsTracked, benchVars
<1>5. QED
  BY <1>3, <1>4

\* What freeing a request does, whether it was answered or discarded.
LEMMA FreeWorks ==
    ASSUME InstInv, NEW a \in Keys, FreeRequest(a), started' = started
    PROVE  /\ g_records' \in Records
           /\ live' \in [Keys -> 0..started]
           /\ live'[a] = 0
           /\ \A q \in Keys : q # a => live'[q] = live[q]
           /\ UNCHANGED <<transfers, flying>>
           /\ handling' = NoKey /\ data' = NoKey
           /\ transfers' \subseteq {q \in Keys : live'[q] # 0}
           /\ (Requests \cup flying)' = (Requests \cup flying) \ {a}
           /\ RequestsTracked'
<1> USE DEF InstInv
<1>1. /\ a \in Requests
      /\ live' = [live EXCEPT ![a] = 0]
      /\ g_records' = Untrack(g_records, a)
      /\ UNCHANGED <<transfers, flying>>
      /\ handling' = NoKey /\ data' = NoKey
  BY DEF FreeRequest
<1>2. /\ live' \in [Keys -> 0..started]
      /\ live'[a] = 0
      /\ \A q \in Keys : q # a => live'[q] = live[q]
  BY <1>1 DEF InstTypeOK
<1>3. g_records \in Records
  BY DEF InstTypeOK, Records, Names
<1>4. /\ g_records' \in Records
      /\ OneRecordEach(g_records')
      /\ RequestPointers(g_records') = RequestPointers(g_records) \ {a}
  BY <1>1, <1>3, UntrackWorks DEF RequestsTracked
<1>5. Requests' = Requests \ {a}
  BY <1>1, <1>2 DEF Requests
<1>6. a \notin transfers /\ a \notin flying
  BY <1>1 DEF Requests, InstTypeOK
<1>7. transfers' \subseteq {q \in Keys : live'[q] # 0}
  BY <1>1, <1>2, <1>6 DEF InstTypeOK
<1>8. (Requests \cup flying)' = (Requests \cup flying) \ {a}
  BY <1>1, <1>5, <1>6
<1>9. RequestsTracked'
  BY <1>4, <1>5 DEF RequestsTracked
<1>10. QED
  BY <1>1, <1>2, <1>4, <1>7, <1>8, <1>9

LEMMA AnswerInv ==
    ASSUME InstInv, NEW a \in Keys, Answer(a)
    PROVE  InstInv'
<1> USE DEF InstInv
<1>1. Finish(a) /\ FreeRequest(a) /\ a \in Requests /\ UNCHANGED <<started, timed>>
  BY DEF Answer, Finish, FreeRequest
<1>2. /\ g_records' \in Records
      /\ live' \in [Keys -> 0..started]
      /\ live'[a] = 0
      /\ \A q \in Keys : q # a => live'[q] = live[q]
      /\ UNCHANGED <<transfers, flying>>
      /\ handling' = NoKey /\ data' = NoKey
      /\ transfers' \subseteq {q \in Keys : live'[q] # 0}
      /\ (Requests \cup flying)' = (Requests \cup flying) \ {a}
      /\ RequestsTracked'
  BY <1>1, FreeWorks
<1>3. /\ active_timers' \in [Slots -> Timers]
      /\ history_buffer' \in [0..(Capacity - 1) -> Samples \cup {NoSample}]
      /\ history_size' \in 0..Capacity
      /\ history_next_index' \in 0..(Capacity - 1)
      /\ finished' \in Seq(Samples)
      /\ OneSlotPerKey' /\ SlotsCurrent' /\ TimedHaveSlots' /\ RingInv'
  BY <1>1, <1>2, FinishInv
<1>4. InstTypeOK'
  BY <1>1, <1>2, <1>3 DEF InstTypeOK, Timers, Records, Names
<1>5. QED
  BY <1>2, <1>3, <1>4

LEMMA DiscardInv ==
    ASSUME InstInv, NEW a \in Keys, Discard(a)
    PROVE  InstInv'
<1> USE DEF InstInv
<1>1. FreeRequest(a) /\ UNCHANGED <<benchVars, started, timed, finished>>
  BY DEF Discard
<1>2. /\ g_records' \in Records
      /\ live' \in [Keys -> 0..started]
      /\ live'[a] = 0
      /\ \A q \in Keys : q # a => live'[q] = live[q]
      /\ UNCHANGED <<transfers, flying>>
      /\ handling' = NoKey /\ data' = NoKey
      /\ transfers' \subseteq {q \in Keys : live'[q] # 0}
      /\ (Requests \cup flying)' = (Requests \cup flying) \ {a}
      /\ RequestsTracked'
  BY <1>1, FreeWorks
<1>3. InstTypeOK'
  BY <1>1, <1>2 DEF InstTypeOK, benchVars, Records, Names
<1>4. OneSlotPerKey' /\ RingInv'
  BY <1>1 DEF OneSlotPerKey, RingInv, benchVars
<1>5. SlotsCurrent'
  BY <1>1, <1>2 DEF SlotsCurrent, InstTypeOK, benchVars
<1>6. TimedHaveSlots'
  <2> SUFFICES ASSUME NEW q \in (Requests \cup flying)'
               PROVE  live'[q] \in timed' <=> SlotsOf(q)' # {}
    BY DEF TimedHaveSlots
  <2>1. q \in Requests \cup flying /\ q # a
    BY <1>2
  <2>2. q \in Keys
    BY <2>1 DEF Requests, InstTypeOK
  <2>3. SlotsOf(q)' = SlotsOf(q) /\ timed' = timed
    BY <1>1 DEF SlotsOf, benchVars
  <2>4. QED
    BY <1>2, <2>1, <2>2, <2>3 DEF TimedHaveSlots
<1>7. QED
  BY <1>2, <1>3, <1>4, <1>5, <1>6

LEMMA InstInvStep == InstInv /\ [Next]_instVars => InstInv'
<1> SUFFICES ASSUME InstInv, [Next]_instVars PROVE InstInv'
  OBVIOUS
<1>1. CASE \E a, b \in Keys : Arrive(a, b)
  BY <1>1, ArriveInv
<1>2. CASE \E a, b \in Keys : ArriveUnparsable(a, b)
  BY <1>2, ArriveUnparsableInv
<1>3. CASE \E k \in Keys : FetchStarts(k)
  BY <1>3, FetchStartsInv
<1>4. CASE \E k \in Keys : FetchFails(k)
  BY <1>4, FetchFailsInv
<1>5. CASE \E k \in Keys : TransferEnds(k)
  BY <1>5, TransferEndsInv
<1>6. CASE LeavePending
  BY <1>6, LeavePendingInv
<1>7. CASE \E a \in Keys : Answer(a)
  BY <1>7, AnswerInv
<1>8. CASE \E a \in Keys : Discard(a)
  BY <1>8, DiscardInv
<1>9. CASE UNCHANGED instVars
  BY <1>9 DEF instVars, benchVars, thingVars, InstInv, InstTypeOK, RingInv, OneSlotPerKey,
              SlotsCurrent, TimedHaveSlots, SlotsOf, RequestsTracked, Requests
<1>10. QED
  BY <1>1, <1>2, <1>3, <1>4, <1>5, <1>6, <1>7, <1>8, <1>9 DEF Next

(***************************************************************************)
(* The theorems.                                                           *)
(***************************************************************************)

\* The inductive invariant holds throughout, for any table, ring, requests and transfers.
THEOREM InstInvariance == Spec => []InstInv
<1>1. QED
  BY InstInvInit, InstInvStep, PTL DEF Spec

\* What /speedtest shows is the last measurements that ended, in order and each its own
\* (cweb_get_speed_history), however often addresses come back and however many requests
\* and transfers leave their timing running.
THEOREM HistoryIsRightCorrect == Spec => []HistoryIsRight
<1>1. InstInv => HistoryIsRight
  BY RingIsHistory DEF InstInv
<1>2. QED
  BY <1>1, InstInvariance, PTL

\* cweb_speedbench_start never gives one request or transfer two slots.
THEOREM OneSlotCorrect == Spec => []OneSlotPerKey
<1>1. InstInv => OneSlotPerKey
  BY DEF InstInv
<1>2. QED
  BY <1>1, InstInvariance, PTL

\* The leak tracker's records of requests are those of the allocated ones.
THEOREM RequestsTrackedCorrect == Spec => []RequestsTracked
<1>1. InstInv => RequestsTracked
  BY DEF InstInv
<1>2. QED
  BY <1>1, InstInvariance, PTL
===============================================================================

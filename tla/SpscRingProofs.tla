--------------------------- MODULE SpscRingProofs ---------------------------
(***************************************************************************)
(* Proofs about kevy-ring for every word width, capacity, item set and     *)
(* length of the behaviour.  The inductive invariant RingInv ties the      *)
(* wrapped cursors to the true counts, the cached cursors to counts that   *)
(* lag behind by less than the capacity, and the slots between the two     *)
(* cursors to the items that are under way.                                *)
(***************************************************************************)
EXTENDS SpscRing, TLAPS

-----------------------------------------------------------------------------
\* Arithmetic of remainders, for the wrapped cursors and the slot index.

\* Quotient and remainder of a division of naturals.
LEMMA DivMod ==
    ASSUME NEW a \in Nat, NEW d \in Nat, d >= 1
    PROVE  /\ a % d \in 0 .. (d - 1)
           /\ a \div d \in Nat
           /\ a = d * (a \div d) + (a % d)
  OBVIOUS

\* A number written as a multiple of d plus r < d has the remainder r.
LEMMA ModUnique ==
    ASSUME NEW d \in Nat, d >= 1, NEW q \in Nat, NEW r \in 0 .. (d - 1)
    PROVE  (d * q + r) % d = r
  OBVIOUS

\* Numbers less than d apart with the same remainder are equal.
LEMMA ModInjective ==
    ASSUME NEW a \in Nat, NEW b \in Nat, NEW d \in Nat, d >= 1,
           a <= b, b < a + d, a % d = b % d
    PROVE  a = b
  <1> DEFINE p == a \div d
             q == b \div d
             r == a % d
  <1>1. p \in Nat /\ q \in Nat /\ r \in 0 .. (d - 1)
    BY DivMod, Zenon
  <1>2. a = d * p + r /\ b = d * q + r
    BY DivMod
  <1> HIDE DEF p, q, r
  <1>3. b - a = d * (q - p)
    BY <1>1, <1>2
  <1>4. CASE q >= p + 1
    BY <1>1, <1>3, <1>4
  <1>5. CASE q <= p - 1
    BY <1>1, <1>3, <1>5
  <1>6. CASE q = p
    BY <1>1, <1>3, <1>6
  <1> QED
    BY <1>1, <1>4, <1>5, <1>6

\* Adding a multiple of d does not change the remainder.
LEMMA ModAddMultiple ==
    ASSUME NEW a \in Nat, NEW d \in Nat, d >= 1, NEW k \in Nat
    PROVE  (a + d * k) % d = a % d
  <1> DEFINE q == a \div d
             r == a % d
  <1>1. q \in Nat /\ r \in 0 .. (d - 1) /\ a = d * q + r
    BY DivMod, Zenon
  <1> HIDE DEF q, r
  <1>2. a + d * k = d * (q + k) + r /\ q + k \in Nat
    BY <1>1
  <1>3. (d * (q + k) + r) % d = r
    BY <1>1, <1>2, ModUnique
  <1> QED
    BY <1>2, <1>3 DEF r

\* The difference of two wrapped numbers, wrapped, is their difference.
LEMMA ModSub ==
    ASSUME NEW a \in Nat, NEW b \in Nat, NEW d \in Nat, d >= 1, b <= a, a - b < d
    PROVE  ((a % d) + d - (b % d)) % d = a - b
  <1> DEFINE p == a \div d
             q == b \div d
             r == a % d
             s == b % d
  <1>1. p \in Nat /\ q \in Nat /\ r \in 0 .. (d - 1) /\ s \in 0 .. (d - 1)
    BY DivMod, Zenon
  <1>2. a = d * p + r /\ b = d * q + s
    BY DivMod
  <1> HIDE DEF p, q, r, s
  <1>3. a - b = d * (p - q) + (r - s)
    BY <1>1, <1>2
  <1>4. p - q \in {0, 1}
    <2>1. CASE p - q >= 2
      <3>1. d * (p - q) >= d * 2
        BY <1>1, <2>1
      <3> QED
        BY <1>1, <1>3, <3>1
    <2>2. CASE p - q <= -1
      <3>1. d * (p - q) <= -d
        BY <1>1, <2>2
      <3> QED
        BY <1>1, <1>3, <3>1
    <2> QED
      BY <1>1, <2>1, <2>2
  <1>5. CASE p - q = 0
    <2>1. r + d - s = d * 1 + (a - b) /\ a - b \in 0 .. (d - 1)
      BY <1>1, <1>3, <1>5
    <2>2. (d * 1 + (a - b)) % d = a - b
      BY <2>1, ModUnique
    <2>3. (r + d - s) % d = a - b
      BY <2>1, <2>2
    <2> QED
      BY <2>3 DEF r, s
  <1>6. CASE p - q = 1
    <2>1. r + d - s = d * 0 + (a - b) /\ a - b \in 0 .. (d - 1)
      BY <1>1, <1>3, <1>6
    <2>2. (d * 0 + (a - b)) % d = a - b
      BY <2>1, ModUnique
    <2>3. (r + d - s) % d = a - b
      BY <2>1, <2>2
    <2> QED
      BY <2>3 DEF r, s
  <1> QED
    BY <1>4, <1>5, <1>6

\* Wrapping an increment of a wrapped number is wrapping the increment.
LEMMA ModAdd ==
    ASSUME NEW a \in Nat, NEW b \in Nat, NEW d \in Nat, d >= 1
    PROVE  ((a % d) + b) % d = (a + b) % d
  <1> DEFINE q == a \div d
             r == a % d
  <1>1. q \in Nat /\ r \in 0 .. (d - 1) /\ a = d * q + r
    BY DivMod, Zenon
  <1> HIDE DEF q, r
  <1> DEFINE m == r + b
  <1>2. m \in Nat /\ a + b = m + d * q
    BY <1>1
  <1> HIDE DEF m
  <1>3. (m + d * q) % d = m % d
    BY <1>1, <1>2, ModAddMultiple, Zenon
  <1>4. (a + b) % d = m % d
    BY <1>2, <1>3
  <1> QED
    BY <1>4 DEF r, m

\* When c divides d, wrapping by d first does not change the remainder by c.
LEMMA ModMod ==
    ASSUME NEW a \in Nat, NEW c \in Nat, c >= 1, NEW k \in Nat, k >= 1
    PROVE  (a % (k * c)) % c = a % c
  <1> DEFINE d == k * c
             q == a \div d
             r == a % d
  <1>1. d \in Nat /\ d >= 1
    BY DEF d
  <1>2. q \in Nat /\ r \in 0 .. (d - 1) /\ a = d * q + r
    BY <1>1, DivMod, Zenon
  <1> DEFINE m == k * q
  <1>3. a = r + c * m /\ m \in Nat
    <2> HIDE DEF q, r
    <2>1. d * q = c * m /\ m \in Nat
      BY <1>2 DEF d
    <2> QED
      BY <1>1, <1>2, <2>1
  <1> HIDE DEF d, q, r, m
  <1>4. (r + c * m) % c = r % c
    <2>1. r \in Nat /\ m \in Nat
      BY <1>1, <1>2, <1>3
    <2> QED
      BY <2>1, ModAddMultiple, Zenon
  <1>5. a % c = r % c
    BY <1>3, <1>4
  <1> QED
    BY <1>5 DEF r, d

-----------------------------------------------------------------------------
\* The cursors of a ring.

\* The numbers the ring's arithmetic works with.
LEMMA RingSize ==
    /\ Capacity \in Nat
    /\ WordSize \in Nat
    /\ Capacity >= 2
    /\ WordSize >= 2 * Capacity
  <1>1. PICK k \in 2 .. WordSize : WordSize = k * Capacity
    BY CapacityAssumption
  <1>2. k * Capacity >= 2 * Capacity
    BY <1>1, CapacityAssumption
  <1> QED
    BY <1>1, <1>2, CapacityAssumption

\* A cursor is a word.
LEMMA CursorWord ==
    ASSUME NEW a \in Nat
    PROVE  Cursor(a) \in Word
  BY RingSize, DivMod DEF Cursor, Word

\* The wrapped difference of two cursors is the difference of their counts.
LEMMA CursorSub ==
    ASSUME NEW a \in Nat, NEW b \in Nat, b <= a, a - b < WordSize
    PROVE  WrapSub(Cursor(a), Cursor(b)) = a - b
  <1>1. WordSize \in Nat /\ WordSize >= 1
    BY RingSize
  <1>2. ((a % WordSize) + WordSize - (b % WordSize)) % WordSize = a - b
    BY <1>1, ModSub, Zenon
  <1> QED
    BY <1>2, Zenon DEF Cursor, WrapSub

\* The full test compares the counts.
LEMMA CursorFull ==
    ASSUME NEW a \in Nat, NEW b \in Nat, b <= a, a - b < WordSize
    PROVE  Full(Cursor(a), Cursor(b)) <=> b + Capacity <= a
  BY RingSize, CursorSub DEF Full

\* Advancing a cursor advances its count.
LEMMA CursorInc ==
    ASSUME NEW a \in Nat
    PROVE  WrapInc(Cursor(a)) = Cursor(a + 1)
  <1>1. WordSize \in Nat /\ WordSize >= 1 /\ 1 \in Nat
    BY RingSize
  <1>2. ((a % WordSize) + 1) % WordSize = (a + 1) % WordSize
    BY <1>1, ModAdd, Zenon
  <1> QED
    BY <1>2, Zenon DEF Cursor, WrapInc

\* Two cursors less than a word apart are equal when their counts are.
LEMMA CursorEqual ==
    ASSUME NEW a \in Nat, NEW b \in Nat, a <= b, b < a + WordSize,
           Cursor(a) = Cursor(b)
    PROVE  a = b
  <1>1. WordSize \in Nat /\ WordSize >= 1
    BY RingSize
  <1> QED
    BY <1>1, ModInjective, Zenon DEF Cursor

\* The slot of the item with n items before it.
Place(n) == n % Capacity

\* The slot of a cursor is the slot of its count.
LEMMA CursorIndex ==
    ASSUME NEW a \in Nat
    PROVE  Index(Cursor(a)) = Place(a) /\ Place(a) \in Slot
  <1>1. PICK k \in 2 .. WordSize : WordSize = k * Capacity
    BY CapacityAssumption
  <1>2. Capacity \in Nat /\ Capacity >= 1 /\ k \in Nat /\ k >= 1
    BY <1>1, RingSize
  <1>3. (a % (k * Capacity)) % Capacity = a % Capacity
    BY <1>2, ModMod, Zenon
  <1>4. a % Capacity \in 0 .. (Capacity - 1)
    BY <1>2, DivMod, Zenon
  <1> QED
    BY <1>1, <1>3, <1>4, Zenon DEF Index, Cursor, Slot, Place

\* Items less than a capacity apart are in different slots.
LEMMA SlotsApart ==
    ASSUME NEW a \in Nat, NEW b \in Nat, a < b, b < a + Capacity
    PROVE  Place(a) # Place(b)
  <1>1. Capacity \in Nat /\ Capacity >= 1 /\ a <= b /\ a # b
    BY RingSize
  <1> QED
    BY <1>1, ModInjective, Zenon DEF Place

-----------------------------------------------------------------------------
\* The inductive invariant.

\* The producer: the cached head is the cursor of a count k it has acquired,
\* k lags by at most the capacity, and by less once push has found room.
ProdInv ==
    /\ prod.seen = prod.synced
    /\ prod.seen <= Len(rcvd)
    /\ \E k \in 0 .. prod.seen :
          /\ prod.cache = Cursor(k)
          /\ Len(sent) <= k + Capacity
          /\ prod.step \in {"slot", "store"} => Len(sent) < k + Capacity
    /\ prod.step \in {"slot", "store"} => prod.val \in Item
    /\ prod.room => Len(sent) < prod.seen + Capacity

\* The consumer: the cached tail is the cursor of a count m it has acquired, not
\* behind what it has popped, and ahead of it once pop has found an item.
ConsInv ==
    /\ cons.seen = cons.synced
    /\ cons.seen <= Len(sent)
    /\ \E m \in Len(rcvd) .. cons.seen :
          /\ cons.cache = Cursor(m)
          /\ cons.step \in {"slot", "store"} => Len(rcvd) < m
    /\ Len(rcvd) + cons.items <= cons.seen

\* The cursors hold the counts, the slots between them the items under way, and
\* what either thread has in hand is the item of its position.
SlotInv ==
    /\ head = Cursor(Len(rcvd))
    /\ tail = Cursor(Len(sent))
    /\ \A i \in (Len(rcvd) + 1) .. Len(sent) : buf[Place(i - 1)] = sent[i]
    /\ prod.step = "store" => buf[Place(Len(sent))] = prod.val
    /\ cons.step = "store" => cons.val = sent[Len(rcvd) + 1]

\* Nothing is dropped before both halves are gone.
DropInv ==
    /\ DropsTheRest
    /\ ~(prod.step = "gone" /\ cons.step = "gone") => dropped = <<>>

RingInv == TypeOK /\ ProdInv /\ ConsInv /\ SlotInv /\ InOrder /\ DropInv

\* What the invariant says of the counts.
LEMMA Counts ==
    ASSUME RingInv
    PROVE  /\ Len(sent) \in Nat
           /\ Len(rcvd) \in Nat
           /\ Len(rcvd) <= Len(sent)
           /\ Len(sent) <= prod.seen + Capacity
           /\ prod.seen \in Nat
           /\ prod.seen <= Len(rcvd)
           /\ cons.seen \in Nat
           /\ Len(rcvd) <= cons.seen
           /\ cons.seen <= Len(sent)
           /\ HeadLoads \subseteq Nat
           /\ TailLoads \subseteq Nat
  <1>1. /\ sent \in Seq(Item) /\ rcvd \in Seq(Item)
        /\ prod.seen \in Nat /\ cons.seen \in Nat /\ cons.items \in Nat
    BY DEF RingInv, TypeOK
  <1>2. Len(sent) \in Nat /\ Len(rcvd) \in Nat
    BY <1>1
  <1>3. PICK k \in 0 .. prod.seen : Len(sent) <= k + Capacity
    BY DEF RingInv, ProdInv
  <1>4. prod.seen <= Len(rcvd) /\ cons.seen <= Len(sent) /\ Len(rcvd) + cons.items <= cons.seen
    BY DEF RingInv, ProdInv, ConsInv
  <1> QED
    BY <1>1, <1>2, <1>3, <1>4, RingSize, SMTT(30) DEF RingInv, InOrder, HeadLoads, TailLoads

\* A load of head by the producer tells whether the ring has room beyond it.
LEMMA HeadLoadFull ==
    ASSUME RingInv, NEW n \in HeadLoads
    PROVE  Full(tail, Cursor(n)) <=> n + Capacity <= Len(sent)
  <1>1. n \in Nat /\ n <= Len(sent) /\ Len(sent) - n < WordSize /\ Len(sent) \in Nat
    BY Counts, RingSize DEF HeadLoads
  <1>2. tail = Cursor(Len(sent))
    BY DEF RingInv, SlotInv
  <1> QED
    BY <1>1, <1>2, CursorFull

\* A load of tail by the consumer tells whether the ring has an item.
LEMMA TailLoadEmpty ==
    ASSUME RingInv, NEW n \in TailLoads
    PROVE  head = Cursor(n) <=> n = Len(rcvd)
  <1>1. n \in Nat /\ Len(rcvd) <= n /\ n < Len(rcvd) + WordSize /\ Len(rcvd) \in Nat
    BY Counts, RingSize DEF TailLoads
  <1>2. head = Cursor(Len(rcvd))
    BY DEF RingInv, SlotInv
  <1> QED
    BY <1>1, <1>2, CursorEqual

\* The ring as created.
LEMMA RingInit == Init => RingInv
  <1> SUFFICES ASSUME Init PROVE RingInv
    OBVIOUS
  <1> USE DEF Init
  <1>1. Cursor(0) = 0
    <2>1. WordSize \in Nat /\ WordSize >= 1
      BY RingSize
    <2> QED
      BY <2>1 DEF Cursor
  <1>2. 0 \in Word
    BY <1>1, CursorWord
  <1>3. Len(sent) = 0 /\ Len(rcvd) = 0
    OBVIOUS
  <1>4. TypeOK
    BY <1>2 DEF TypeOK, Step
  <1>5. ProdInv
    BY <1>1, <1>3, RingSize DEF ProdInv
  <1>6. ConsInv
    BY <1>1, <1>3 DEF ConsInv
  <1>7. SlotInv
    BY <1>1, <1>3 DEF SlotInv
  <1>8. InOrder
    BY <1>3 DEF InOrder
  <1>9. DropInv
    BY DEF DropInv, DropsTheRest
  <1> QED
    BY <1>4, <1>5, <1>6, <1>7, <1>8, <1>9 DEF RingInv

\* Reaching the slot write of push, by the cache or by the reload.
LEMMA PushRoomStep ==
    ASSUME RingInv, NEW v \in Item, PushRoom(v)
    PROVE  RingInv'
  <1> USE DEF RingInv
  <1>1. /\ UNCHANGED <<head, tail, buf, cons, sent, rcvd, dropped>>
        /\ prod.step = "idle" /\ prod'.step = "slot" /\ prod'.val = v
        /\ prod'.room = prod.room
    BY Zenon DEF PushRoom, TypeOK, Acquired
  <1>2. /\ prod' \in [step : Step, val : Item \cup {Uninit}, cache : Word,
                      seen : Nat, synced : Nat, room : BOOLEAN]
        /\ ProdInv'
    <2>1. CASE ~Full(tail, prod.cache) /\ prod' = [prod EXCEPT !.step = "slot", !.val = v]
      <3>1. prod' \in [step : Step, val : Item \cup {Uninit}, cache : Word,
                       seen : Nat, synced : Nat, room : BOOLEAN]
        BY <2>1, Zenon DEF TypeOK, Step
      <3>2. PICK k \in 0 .. prod.seen : prod.cache = Cursor(k) /\ Len(sent) <= k + Capacity
        BY DEF ProdInv
      <3>3. k \in Nat /\ k <= Len(sent) /\ Len(sent) - k < WordSize /\ Len(sent) \in Nat
        BY <3>2, Counts, RingSize
      <3>4. Len(sent) < k + Capacity
        <4>1. tail = Cursor(Len(sent))
          BY DEF RingInv, SlotInv
        <4>2. Full(Cursor(Len(sent)), Cursor(k)) <=> k + Capacity <= Len(sent)
          BY <3>3, CursorFull
        <4> QED
          BY <2>1, <3>2, <3>3, <4>1, <4>2, RingSize
      <3>5. /\ prod'.seen = prod.seen /\ prod'.synced = prod.synced
            /\ prod'.cache = prod.cache
        BY <2>1 DEF TypeOK
      <3> QED
        BY <1>1, <3>1, <3>2, <3>4, <3>5 DEF ProdInv
    <2>2. CASE \E n \in HeadLoads :
                  /\ ~Full(tail, Cursor(n))
                  /\ prod' = [Acquired(prod, n) EXCEPT !.step = "slot", !.val = v,
                                                       !.cache = Cursor(n)]
      <3>1. PICK n \in HeadLoads :
                  /\ ~Full(tail, Cursor(n))
                  /\ prod' = [Acquired(prod, n) EXCEPT !.step = "slot", !.val = v,
                                                       !.cache = Cursor(n)]
        BY <2>2, Zenon
      <3>2. n \in Nat /\ prod.seen <= n /\ n <= Len(rcvd) /\ Cursor(n) \in Word
        BY Counts, CursorWord DEF HeadLoads
      <3>3. Len(sent) < n + Capacity
        BY <3>1, <3>2, HeadLoadFull, Counts, RingSize
      <3>4. prod' \in [step : Step, val : Item \cup {Uninit}, cache : Word,
                       seen : Nat, synced : Nat, room : BOOLEAN]
        BY <3>1, <3>2, Zenon DEF TypeOK, Step, Acquired
      <3>5. prod'.seen = n /\ prod'.synced = n /\ prod'.cache = Cursor(n)
        BY <3>1 DEF TypeOK, Acquired
      <3>6. n \in 0 .. n
        BY <3>2
      <3>7. ProdInv'
        BY <1>1, <3>2, <3>3, <3>5, <3>6, Counts, RingSize DEF ProdInv
      <3> QED
        BY <3>4, <3>7
    <2> QED
      BY <2>1, <2>2, Zenon DEF PushRoom
  <1>3. TypeOK'
    BY <1>1, <1>2 DEF TypeOK
  <1>4. ConsInv' /\ SlotInv' /\ InOrder'
    BY <1>1 DEF ConsInv, SlotInv, InOrder
  <1>5. DropInv'
    BY <1>1 DEF DropInv, DropsTheRest
  <1> QED
    BY <1>2, <1>3, <1>4, <1>5, SMTT(30)

\* A refused push moves the cached head and nothing else.
LEMMA PushFullStep ==
    ASSUME RingInv, PushFull
    PROVE  RingInv'
  <1>1. PICK n \in HeadLoads :
           /\ Full(tail, Cursor(n))
           /\ prod' = [Acquired(prod, n) EXCEPT !.cache = Cursor(n)]
    BY DEF PushFull
  <1>2. prod.step = "idle" /\ UNCHANGED <<head, tail, buf, cons, sent, rcvd, dropped>>
    BY DEF PushFull
  <1>3. n \in Nat /\ prod.seen <= n /\ n <= Len(rcvd) /\ Cursor(n) \in Word /\ n \in 0 .. n
    BY Counts, CursorWord DEF HeadLoads
  <1>4. /\ prod' \in [step : Step, val : Item \cup {Uninit}, cache : Word,
                      seen : Nat, synced : Nat, room : BOOLEAN]
        /\ prod'.seen = n /\ prod'.synced = n /\ prod'.cache = Cursor(n)
        /\ prod'.step = "idle" /\ prod'.room = prod.room
    BY <1>1, <1>2, <1>3, Zenon DEF RingInv, TypeOK, Acquired
  <1>5. TypeOK'
    BY <1>2, <1>4 DEF RingInv, TypeOK
  <1>6. ProdInv'
    <2>1. Len(sent) <= n + Capacity /\ (prod.room => Len(sent) < n + Capacity)
      BY <1>3, Counts, RingSize DEF RingInv, ProdInv
    <2> QED
      BY <1>2, <1>3, <1>4, <2>1 DEF ProdInv
  <1>7. ConsInv' /\ SlotInv' /\ InOrder' /\ DropInv'
    BY <1>2, <1>4 DEF RingInv, ConsInv, SlotInv, InOrder, DropInv, DropsTheRest
  <1> QED
    BY <1>5, <1>6, <1>7 DEF RingInv

\* is_full synchronises with head and may promise room.
LEMMA IsFullStep ==
    ASSUME RingInv, IsFull
    PROVE  RingInv'
  <1>1. PICK n \in HeadLoads :
           prod' = [Acquired(prod, n) EXCEPT !.room = ~Full(tail, Cursor(n))]
    BY DEF IsFull
  <1>2. prod.step = "idle" /\ UNCHANGED <<head, tail, buf, cons, sent, rcvd, dropped>>
    BY DEF IsFull
  <1>3. n \in Nat /\ prod.seen <= n /\ n <= Len(rcvd)
    BY Counts DEF HeadLoads
  <1>4. /\ prod' \in [step : Step, val : Item \cup {Uninit}, cache : Word,
                      seen : Nat, synced : Nat, room : BOOLEAN]
        /\ prod'.seen = n /\ prod'.synced = n /\ prod'.cache = prod.cache
        /\ prod'.step = "idle" /\ prod'.room = ~Full(tail, Cursor(n))
    <2>1. (~Full(tail, Cursor(n))) \in BOOLEAN
      BY DEF Full
    <2> QED
      BY <1>1, <1>2, <1>3, <2>1, Zenon DEF RingInv, TypeOK, Acquired
  <1>5. TypeOK'
    BY <1>2, <1>4 DEF RingInv, TypeOK
  <1>6. ProdInv'
    <2>1. prod'.room => Len(sent) < n + Capacity
      BY <1>3, <1>4, HeadLoadFull, Counts, RingSize
    <2>2. PICK k \in 0 .. prod.seen : prod.cache = Cursor(k) /\ Len(sent) <= k + Capacity
      BY DEF RingInv, ProdInv
    <2>3. k \in 0 .. n
      BY <1>3, <2>2, Counts
    <2> QED
      BY <1>2, <1>3, <1>4, <2>1, <2>2, <2>3 DEF ProdInv
  <1>7. ConsInv' /\ SlotInv' /\ InOrder' /\ DropInv'
    BY <1>2, <1>4 DEF RingInv, ConsInv, SlotInv, InOrder, DropInv, DropsTheRest
  <1> QED
    BY <1>5, <1>6, <1>7 DEF RingInv

\* The slot write of push: no slot under way is the slot of the tail.
LEMMA PushSlotStep ==
    ASSUME RingInv, PushSlot
    PROVE  RingInv'
  <1> DEFINE P == Len(sent)
  <1>1. /\ prod.step = "slot" /\ prod' = [prod EXCEPT !.step = "store"]
        /\ buf' = [buf EXCEPT ![Index(tail)] = prod.val]
        /\ UNCHANGED <<head, tail, cons, sent, rcvd, dropped>>
    BY DEF PushSlot
  <1>2. prod.val \in Item
    BY <1>1 DEF RingInv, ProdInv
  <1>3. Index(tail) = Place(P) /\ Place(P) \in Slot
    BY Counts, CursorIndex DEF RingInv, SlotInv
  <1>4. P < prod.seen + Capacity /\ prod.seen <= Len(rcvd)
    <2>1. PICK k \in 0 .. prod.seen : Len(sent) < k + Capacity
      BY <1>1 DEF RingInv, ProdInv
    <2> QED
      BY <2>1, Counts, RingSize
  <1>5. /\ prod' \in [step : Step, val : Item \cup {Uninit}, cache : Word,
                      seen : Nat, synced : Nat, room : BOOLEAN]
        /\ prod'.step = "store" /\ prod'.val = prod.val /\ prod'.cache = prod.cache
        /\ prod'.seen = prod.seen /\ prod'.synced = prod.synced /\ prod'.room = prod.room
    BY <1>1, Zenon DEF RingInv, TypeOK, Step
  <1>6. TypeOK'
    BY <1>1, <1>2, <1>3, <1>5 DEF RingInv, TypeOK
  <1>7. ProdInv'
    BY <1>1, <1>5 DEF RingInv, ProdInv
  <1>8. ConsInv' /\ InOrder' /\ DropInv'
    BY <1>1, <1>5 DEF RingInv, ConsInv, InOrder, DropInv, DropsTheRest
  <1>9. SlotInv'
    <2>1. buf'[Place(P)] = prod.val
      BY <1>1, <1>3 DEF RingInv, TypeOK
    <2>2. ASSUME NEW i \in (Len(rcvd) + 1) .. P
          PROVE  buf'[Place(i - 1)] = sent[i]
      <3>1. i - 1 \in Nat /\ P \in Nat /\ i - 1 < P /\ P < (i - 1) + Capacity
        BY <1>4, Counts, RingSize
      <3>2. Place(i - 1) # Place(P) /\ Place(i - 1) \in Slot
        BY <3>1, SlotsApart, CursorIndex
      <3>3. buf[Place(i - 1)] = sent[i]
        BY DEF RingInv, SlotInv
      <3> QED
        BY <1>1, <1>3, <3>2, <3>3 DEF RingInv, TypeOK
    <2> QED
      BY <1>1, <1>5, <2>1, <2>2 DEF RingInv, SlotInv
  <1> QED
    BY <1>6, <1>7, <1>8, <1>9 DEF RingInv

\* The Release store of tail: the item written joins those under way.
LEMMA PushStoreStep ==
    ASSUME RingInv, PushStore
    PROVE  RingInv'
  <1> DEFINE P == Len(sent)
  <1>1. /\ prod.step = "store" /\ tail' = WrapInc(tail) /\ sent' = Append(sent, prod.val)
        /\ prod' = [prod EXCEPT !.step = "idle", !.val = Uninit, !.room = FALSE]
        /\ UNCHANGED <<head, buf, cons, rcvd, dropped>>
    BY DEF PushStore
  <1>2. prod.val \in Item
    BY <1>1 DEF RingInv, ProdInv
  <1>3. /\ sent' \in Seq(Item) /\ Len(sent') = P + 1 /\ sent'[P + 1] = prod.val
        /\ \A i \in 1 .. P : sent'[i] = sent[i]
    BY <1>1, <1>2 DEF RingInv, TypeOK
  <1>4. tail' = Cursor(P + 1) /\ Cursor(P + 1) \in Word
    BY <1>1, Counts, CursorInc, CursorWord DEF RingInv, SlotInv
  <1>5. /\ prod' \in [step : Step, val : Item \cup {Uninit}, cache : Word,
                      seen : Nat, synced : Nat, room : BOOLEAN]
        /\ prod'.step = "idle" /\ prod'.cache = prod.cache /\ prod'.room = FALSE
        /\ prod'.seen = prod.seen /\ prod'.synced = prod.synced
    BY <1>1, Zenon DEF RingInv, TypeOK, Step
  <1>6. TypeOK'
    BY <1>1, <1>3, <1>4, <1>5 DEF RingInv, TypeOK
  <1>7. ProdInv'
    <2>1. PICK k \in 0 .. prod.seen : prod.cache = Cursor(k) /\ P < k + Capacity
      BY <1>1 DEF RingInv, ProdInv
    <2>2. P + 1 <= k + Capacity
      BY <2>1, Counts, RingSize
    <2> QED
      BY <1>1, <1>3, <1>5, <2>1, <2>2 DEF RingInv, ProdInv
  <1>8. ConsInv'
    BY <1>1, <1>3, Counts DEF RingInv, ConsInv
  <1>9. InOrder'
    BY <1>1, <1>3, Counts DEF RingInv, InOrder
  <1>10. SlotInv'
    <2>1. ASSUME NEW i \in (Len(rcvd) + 1) .. (P + 1)
          PROVE  buf[Place(i - 1)] = sent'[i]
      <3>1. CASE i = P + 1
        <4>1. i - 1 = P
          BY <3>1, Counts
        <4> QED
          BY <1>1, <1>3, <3>1, <4>1 DEF RingInv, SlotInv
      <3>2. CASE i # P + 1
        <4>1. i \in (Len(rcvd) + 1) .. P /\ i \in 1 .. P
          BY <3>2, Counts
        <4> QED
          BY <1>3, <4>1 DEF RingInv, SlotInv
      <3> QED
        BY <3>1, <3>2
    <2>2. cons.step = "store" => cons.val = sent'[Len(rcvd) + 1]
      <3> SUFFICES ASSUME cons.step = "store" PROVE cons.val = sent'[Len(rcvd) + 1]
        OBVIOUS
      <3>1. PICK m \in Len(rcvd) .. cons.seen : Len(rcvd) < m
        BY DEF RingInv, ConsInv
      <3>2. Len(rcvd) + 1 \in 1 .. P
        BY <3>1, Counts
      <3> QED
        BY <1>3, <3>2 DEF RingInv, SlotInv
    <2>3. head' = Cursor(Len(rcvd'))
      BY <1>1 DEF RingInv, SlotInv
    <2> QED
      BY <1>1, <1>3, <1>4, <1>5, <2>1, <2>2, <2>3, Zenon DEF SlotInv
  <1>11. DropInv'
    BY <1>1, <1>5 DEF RingInv, DropInv, DropsTheRest
  <1> QED
    BY <1>6, <1>7, <1>8, <1>9, <1>10, <1>11 DEF RingInv

\* Reaching the slot read of pop, by the cache or by the reload.
LEMMA PopSomeStep ==
    ASSUME RingInv, PopSome
    PROVE  RingInv'
  <1>1. /\ UNCHANGED <<head, tail, buf, prod, sent, rcvd, dropped>>
        /\ cons.step = "idle"
    BY Zenon DEF PopSome
  <1>2. PICK m \in Len(rcvd) .. cons.seen : cons.cache = Cursor(m)
    BY SMTT(30) DEF RingInv, ConsInv
  <1>3. /\ cons' \in [step : Step, val : Item \cup {Uninit}, cache : Word,
                      seen : Nat, synced : Nat, items : Nat]
        /\ cons'.step = "slot" /\ ConsInv'
    <2>1. CASE head # cons.cache /\ cons' = [cons EXCEPT !.step = "slot"]
      <3>1. /\ cons' \in [step : Step, val : Item \cup {Uninit}, cache : Word,
                          seen : Nat, synced : Nat, items : Nat]
            /\ cons'.step = "slot" /\ cons'.cache = cons.cache /\ cons'.items = cons.items
            /\ cons'.seen = cons.seen /\ cons'.synced = cons.synced
        BY <2>1, Zenon DEF RingInv, TypeOK, Step
      <3>2. Len(rcvd) < m
        BY <1>2, <2>1, Counts DEF RingInv, SlotInv
      <3> QED
        BY <1>1, <1>2, <3>1, <3>2 DEF RingInv, ConsInv
    <2>2. CASE \E n \in TailLoads :
                  /\ head # Cursor(n)
                  /\ cons' = [Acquired(cons, n) EXCEPT !.step = "slot", !.cache = Cursor(n)]
      <3>1. PICK n \in TailLoads :
                  /\ head # Cursor(n)
                  /\ cons' = [Acquired(cons, n) EXCEPT !.step = "slot", !.cache = Cursor(n)]
        BY <2>2, Zenon
      <3>2. n \in Nat /\ cons.seen <= n /\ n <= Len(sent) /\ Cursor(n) \in Word
        BY Counts, CursorWord DEF TailLoads
      <3>3. /\ cons' \in [step : Step, val : Item \cup {Uninit}, cache : Word,
                          seen : Nat, synced : Nat, items : Nat]
            /\ cons'.step = "slot" /\ cons'.cache = Cursor(n) /\ cons'.items = cons.items
            /\ cons'.seen = n /\ cons'.synced = n
        BY <3>1, <3>2, Zenon DEF RingInv, TypeOK, Step, Acquired
      <3>4. Len(rcvd) < n /\ n \in Len(rcvd) .. n
        BY <3>1, <3>2, TailLoadEmpty, Counts
      <3>5. Len(rcvd) + cons.items <= n
        BY <3>2, Counts DEF RingInv, ConsInv, TypeOK
      <3> QED
        BY <1>1, <3>2, <3>3, <3>4, <3>5 DEF ConsInv
    <2> QED
      BY <2>1, <2>2, Zenon DEF PopSome
  <1>4. TypeOK'
    BY <1>1, <1>3 DEF RingInv, TypeOK
  <1>5. ProdInv' /\ SlotInv' /\ InOrder' /\ DropInv'
    BY <1>1, <1>3 DEF RingInv, ProdInv, SlotInv, InOrder, DropInv, DropsTheRest
  <1> QED
    BY <1>3, <1>4, <1>5, SMTT(30) DEF RingInv

\* A pop that finds the ring empty moves the cached tail and nothing else.
LEMMA PopNoneStep ==
    ASSUME RingInv, PopNone
    PROVE  RingInv'
  <1>1. PICK n \in TailLoads :
           head = Cursor(n) /\ cons' = [Acquired(cons, n) EXCEPT !.cache = Cursor(n)]
    BY Zenon DEF PopNone
  <1>2. cons.step = "idle" /\ UNCHANGED <<head, tail, buf, prod, sent, rcvd, dropped>>
    BY DEF PopNone
  <1>3. /\ n \in Nat /\ cons.seen <= n /\ n <= Len(sent) /\ Cursor(n) \in Word
        /\ n \in Len(rcvd) .. n
    BY Counts, CursorWord DEF TailLoads
  <1>4. /\ cons' \in [step : Step, val : Item \cup {Uninit}, cache : Word,
                      seen : Nat, synced : Nat, items : Nat]
        /\ cons'.step = "idle" /\ cons'.cache = Cursor(n) /\ cons'.items = cons.items
        /\ cons'.seen = n /\ cons'.synced = n
    BY <1>1, <1>2, <1>3, Zenon DEF RingInv, TypeOK, Acquired
  <1>5. TypeOK'
    BY <1>2, <1>4 DEF RingInv, TypeOK
  <1>6. ConsInv'
    <2>1. Len(rcvd) + cons.items <= n
      BY <1>3, Counts DEF RingInv, ConsInv, TypeOK
    <2> QED
      BY <1>2, <1>3, <1>4, <2>1 DEF ConsInv
  <1>7. ProdInv' /\ SlotInv' /\ InOrder' /\ DropInv'
    BY <1>2, <1>4 DEF RingInv, ProdInv, SlotInv, InOrder, DropInv, DropsTheRest
  <1> QED
    BY <1>5, <1>6, <1>7 DEF RingInv

\* len and is_empty: any answer not above the count loaded is kept.
LEMMA AnswerStep ==
    ASSUME RingInv, NEW n \in TailLoads, NEW items \in Nat, Len(rcvd) + items <= n,
           cons.step = "idle",
           cons' = [Acquired(cons, n) EXCEPT !.items = items],
           UNCHANGED <<head, tail, buf, prod, sent, rcvd, dropped>>
    PROVE  RingInv'
  <1>1. n \in Nat /\ cons.seen <= n /\ n <= Len(sent)
    BY Counts DEF TailLoads
  <1>2. /\ cons' \in [step : Step, val : Item \cup {Uninit}, cache : Word,
                      seen : Nat, synced : Nat, items : Nat]
        /\ cons'.step = "idle" /\ cons'.cache = cons.cache /\ cons'.items = items
        /\ cons'.seen = n /\ cons'.synced = n
    BY <1>1, Zenon DEF RingInv, TypeOK, Acquired
  <1>3. TypeOK'
    BY <1>2 DEF RingInv, TypeOK
  <1>4. ConsInv'
    <2>1. PICK m \in Len(rcvd) .. cons.seen : cons.cache = Cursor(m)
      BY DEF RingInv, ConsInv
    <2>2. m \in Len(rcvd) .. n
      BY <1>1, <2>1, Counts
    <2> QED
      BY <1>1, <1>2, <2>1, <2>2 DEF ConsInv
  <1>5. ProdInv' /\ SlotInv' /\ InOrder' /\ DropInv'
    BY <1>2 DEF RingInv, ProdInv, SlotInv, InOrder, DropInv, DropsTheRest
  <1> QED
    BY <1>2, <1>3, <1>4, <1>5 DEF RingInv

\* len answers at most the count it loaded.
LEMMA LengthStep ==
    ASSUME RingInv, Length
    PROVE  RingInv'
  <1>1. PICK n \in TailLoads :
           cons' = [Acquired(cons, n) EXCEPT !.items = WrapSub(Cursor(n), head)]
    BY DEF Length
  <1>2. n \in Nat /\ Len(rcvd) \in Nat /\ Len(rcvd) <= n /\ n - Len(rcvd) < WordSize
    BY Counts, RingSize DEF TailLoads
  <1>3. WrapSub(Cursor(n), head) = n - Len(rcvd)
    BY <1>2, CursorSub, Zenon DEF RingInv, SlotInv
  <1> DEFINE items == n - Len(rcvd)
  <1>4. items \in Nat /\ Len(rcvd) + items <= n
    BY <1>2
  <1>5. cons' = [Acquired(cons, n) EXCEPT !.items = items]
    BY <1>1, <1>3
  <1> HIDE DEF items
  <1> QED
    BY <1>4, <1>5, AnswerStep, Zenon DEF Length

\* is_empty answers at most one, and only when the count loaded is above.
LEMMA IsEmptyStep ==
    ASSUME RingInv, IsEmpty
    PROVE  RingInv'
  <1>1. PICK n \in TailLoads :
           cons' = [Acquired(cons, n) EXCEPT !.items = IF head = Cursor(n) THEN 0 ELSE 1]
    BY DEF IsEmpty
  <1>2. n \in Nat /\ Len(rcvd) \in Nat /\ Len(rcvd) <= n
    BY Counts DEF TailLoads
  <1> DEFINE items == IF head = Cursor(n) THEN 0 ELSE 1
  <1>3. items \in Nat /\ Len(rcvd) + items <= n
    BY <1>2, TailLoadEmpty
  <1>4. cons' = [Acquired(cons, n) EXCEPT !.items = items]
    BY <1>1
  <1> HIDE DEF items
  <1> QED
    BY <1>3, <1>4, AnswerStep, Zenon DEF IsEmpty

\* The slot read of pop returns the item of the head: it is under way, and its
\* write is visible.
LEMMA PopSlotStep ==
    ASSUME RingInv, PopSlot
    PROVE  RingInv'
  <1> DEFINE C == Len(rcvd)
  <1>1. PICK v \in Reads(Index(head)) : cons' = [cons EXCEPT !.step = "store", !.val = v]
    BY Zenon DEF PopSlot
  <1>2. cons.step = "slot" /\ UNCHANGED <<head, tail, buf, prod, sent, rcvd, dropped>>
    BY DEF PopSlot
  <1>3. C \in Nat /\ C < cons.synced /\ C + 1 \in (C + 1) .. Len(sent) /\ C + 1 \in 1 .. Len(sent)
    <2>1. PICK m \in C .. cons.seen : C < m
      BY <1>2 DEF RingInv, ConsInv
    <2> QED
      BY <2>1, Counts DEF RingInv, ConsInv
  <1>4. v = sent[C + 1]
    <2>1. v = buf[Index(head)]
      BY <1>1, <1>3 DEF Reads
    <2>2. Index(head) = Place(C)
      BY <1>3, CursorIndex DEF RingInv, SlotInv
    <2>3. buf[Place((C + 1) - 1)] = sent[C + 1] /\ (C + 1) - 1 = C
      BY <1>3 DEF RingInv, SlotInv
    <2> QED
      BY <2>1, <2>2, <2>3
  <1>5. v \in Item
    BY <1>3, <1>4 DEF RingInv, TypeOK
  <1>6. /\ cons' \in [step : Step, val : Item \cup {Uninit}, cache : Word,
                      seen : Nat, synced : Nat, items : Nat]
        /\ cons'.step = "store" /\ cons'.cache = cons.cache /\ cons'.items = cons.items
        /\ cons'.seen = cons.seen /\ cons'.synced = cons.synced /\ cons'.val = v
    BY <1>1, <1>5, Zenon DEF RingInv, TypeOK, Step
  <1>7. TypeOK'
    BY <1>2, <1>6 DEF RingInv, TypeOK
  <1>8. ConsInv'
    BY <1>2, <1>6 DEF RingInv, ConsInv
  <1>9. SlotInv'
    BY <1>2, <1>4, <1>6 DEF RingInv, SlotInv
  <1>10. ProdInv' /\ InOrder' /\ DropInv'
    BY <1>2, <1>6 DEF RingInv, ProdInv, InOrder, DropInv, DropsTheRest
  <1> QED
    BY <1>7, <1>8, <1>9, <1>10 DEF RingInv

\* The Release store of head: the item read is the next of the pushed ones.
LEMMA PopStoreStep ==
    ASSUME RingInv, PopStore
    PROVE  RingInv'
  <1> DEFINE C == Len(rcvd)
             left == IF cons.items > 0 THEN cons.items - 1 ELSE 0
  <1>1. /\ cons.step = "store" /\ head' = WrapInc(head) /\ rcvd' = Append(rcvd, cons.val)
        /\ cons' = [cons EXCEPT !.step = "idle", !.val = Uninit,
                                !.items = IF @ > 0 THEN @ - 1 ELSE 0]
        /\ UNCHANGED <<tail, buf, prod, sent, dropped>>
    BY DEF PopStore
  <1>2. PICK m \in C .. cons.seen : cons.cache = Cursor(m) /\ C < m
    BY <1>1 DEF RingInv, ConsInv
  <1>3. C \in Nat /\ C + 1 <= m /\ C + 1 \in 1 .. Len(sent) /\ C + 1 <= cons.seen
    BY <1>2, Counts
  <1>4. cons.val = sent[C + 1] /\ cons.val \in Item
    BY <1>1, <1>3 DEF RingInv, SlotInv, TypeOK
  <1>5. /\ rcvd' \in Seq(Item) /\ Len(rcvd') = C + 1 /\ rcvd'[C + 1] = cons.val
        /\ \A i \in 1 .. C : rcvd'[i] = rcvd[i]
    BY <1>1, <1>4 DEF RingInv, TypeOK
  <1>6. head' = Cursor(C + 1) /\ Cursor(C + 1) \in Word
    BY <1>1, <1>3, CursorInc, CursorWord DEF RingInv, SlotInv
  <1>7. /\ cons' \in [step : Step, val : Item \cup {Uninit}, cache : Word,
                      seen : Nat, synced : Nat, items : Nat]
        /\ cons'.step = "idle" /\ cons'.cache = cons.cache
        /\ cons'.items = left
        /\ cons'.seen = cons.seen /\ cons'.synced = cons.synced
    <2>1. cons \in [step : Step, val : Item \cup {Uninit}, cache : Word,
                    seen : Nat, synced : Nat, items : Nat]
      BY DEF RingInv, TypeOK
    <2>2. left \in Nat
      BY <2>1
    <2>3. cons' = [cons EXCEPT !.step = "idle", !.val = Uninit, !.items = left]
      BY <1>1, <2>1
    <2> HIDE DEF left
    <2> QED
      BY <2>1, <2>2, <2>3, Zenon DEF Step
  <1>8. TypeOK'
    BY <1>1, <1>5, <1>6, <1>7 DEF RingInv, TypeOK
  <1>9. ProdInv'
    BY <1>1, <1>3, <1>5, Counts DEF RingInv, ProdInv
  <1>10. ConsInv'
    <2>1. (C + 1) + cons'.items <= cons.seen
      BY <1>3, <1>7, Counts, SMTT(30) DEF RingInv, ConsInv, TypeOK
    <2>2. m \in (C + 1) .. cons.seen
      BY <1>2, <1>3, Counts
    <2> QED
      BY <1>1, <1>2, <1>5, <1>7, <2>1, <2>2 DEF RingInv, ConsInv
  <1>11. InOrder'
    <2>1. ASSUME NEW i \in 1 .. (C + 1) PROVE rcvd'[i] = sent[i]
      <3>1. CASE i = C + 1
        BY <1>4, <1>5, <3>1
      <3>2. CASE i # C + 1
        <4>1. i \in 1 .. C
          BY <1>3, <3>2
        <4> QED
          BY <1>5, <4>1 DEF RingInv, InOrder
      <3> QED
        BY <3>1, <3>2
    <2> QED
      BY <1>1, <1>3, <1>5, <2>1 DEF InOrder
  <1>12. SlotInv'
    <2>1. ASSUME NEW i \in ((C + 1) + 1) .. Len(sent) PROVE buf[Place(i - 1)] = sent[i]
      <3>1. i \in (C + 1) .. Len(sent)
        BY <1>3, Counts
      <3> QED
        BY <3>1 DEF RingInv, SlotInv
    <2>2. tail' = Cursor(Len(sent')) /\ (prod'.step = "store" => buf'[Place(Len(sent'))] = prod'.val)
      BY <1>1 DEF RingInv, SlotInv
    <2> QED
      BY <1>1, <1>5, <1>6, <1>7, <2>1, <2>2 DEF SlotInv
  <1>13. DropInv'
    BY <1>1, <1>7 DEF RingInv, DropInv, DropsTheRest
  <1> QED
    BY <1>8, <1>9, <1>10, <1>11, <1>12, <1>13 DEF RingInv

\* Drop for Ring finds in [head, tail) exactly the items under way.
LEMMA DrainedRest ==
    ASSUME RingInv
    PROVE  Drained \in Seq(Item) /\ rcvd \o Drained = sent
  <1> DEFINE C == Len(rcvd)
             n == Len(sent) - Len(rcvd)
  <1>1. C \in Nat /\ Len(sent) \in Nat /\ n \in Nat /\ C <= Len(sent) /\ Len(sent) - C < WordSize
    BY Counts, RingSize
  <1>2. head = Cursor(C) /\ tail = Cursor(Len(sent))
    BY DEF RingInv, SlotInv
  <1>3. WrapSub(tail, head) = n
    BY <1>1, <1>2, CursorSub
  <1>4. ASSUME NEW i \in 1 .. n
        PROVE  buf[Index(Cursor(head + i - 1))] = sent[C + i] /\ sent[C + i] \in Item
    <2>1. i - 1 \in Nat /\ C + (i - 1) \in Nat /\ C + i \in (C + 1) .. Len(sent)
      BY <1>1
    <2>2. Cursor(head + (i - 1)) = Cursor(C + (i - 1))
      <3>1. WordSize \in Nat /\ WordSize >= 1
        BY RingSize
      <3>2. ((C % WordSize) + (i - 1)) % WordSize = (C + (i - 1)) % WordSize
        BY <1>1, <2>1, <3>1, ModAdd, Zenon
      <3> QED
        BY <1>2, <3>2, Zenon DEF Cursor
    <2>3. head + i - 1 = head + (i - 1) /\ (C + i) - 1 = C + (i - 1)
      <3>1. head \in Int
        BY RingSize DEF RingInv, TypeOK, Word
      <3> QED
        BY <1>1, <3>1
    <2>4. Index(Cursor(C + (i - 1))) = Place((C + i) - 1)
      BY <2>1, <2>3, CursorIndex
    <2>5. buf[Place((C + i) - 1)] = sent[C + i]
      BY <2>1, SMTT(30) DEF RingInv, SlotInv
    <2>6. sent[C + i] \in Item
      BY <1>1, <2>1 DEF RingInv, TypeOK
    <2> QED
      BY <2>2, <2>3, <2>4, <2>5, <2>6
  <1>5. Drained = [i \in 1 .. n |-> sent[C + i]]
    BY <1>3, <1>4 DEF Drained
  <1> HIDE DEF n
  <1>6. Drained \in Seq(Item) /\ Len(Drained) = n /\ \A i \in 1 .. n : Drained[i] = sent[C + i]
    BY <1>1, <1>4, <1>5
  <1>7. rcvd \in Seq(Item) /\ sent \in Seq(Item)
    BY DEF RingInv, TypeOK
  <1>8. Len(rcvd \o Drained) = Len(sent)
    BY <1>1, <1>6, <1>7 DEF n
  <1>9. ASSUME NEW i \in 1 .. Len(sent) PROVE (rcvd \o Drained)[i] = sent[i]
    <2>1. CASE i <= C
      BY <1>1, <1>6, <1>7, <2>1 DEF RingInv, InOrder
    <2>2. CASE i > C
      <3>1. i - C \in 1 .. n /\ C + (i - C) = i
        BY <1>1, <2>2 DEF n
      <3>2. (rcvd \o Drained)[i] = Drained[i - C]
        BY <1>1, <1>6, <1>7, <1>8, <2>2
      <3> QED
        BY <1>6, <3>1, <3>2
    <2>3. i <= C \/ i > C
      BY <1>1
    <2> QED
      BY <2>1, <2>2, <2>3, Zenon
  <1>10. rcvd \o Drained \in Seq(Item)
    BY <1>6, <1>7
  <1> QED
    BY <1>6, <1>7, <1>8, <1>9, <1>10

\* A half goes between two calls; the second one to go drops the rest.
LEMMA ProducerGoneStep ==
    ASSUME RingInv, ProducerGone
    PROVE  RingInv'
  <1>1. /\ prod.step = "idle" /\ prod' = [prod EXCEPT !.step = "gone"]
        /\ dropped' = IF cons.step = "gone" THEN Drained ELSE dropped
        /\ UNCHANGED <<head, tail, buf, cons, sent, rcvd>>
    BY DEF ProducerGone
  <1>2. /\ prod' \in [step : Step, val : Item \cup {Uninit}, cache : Word,
                      seen : Nat, synced : Nat, room : BOOLEAN]
        /\ prod'.step = "gone" /\ prod'.cache = prod.cache /\ prod'.room = prod.room
        /\ prod'.seen = prod.seen /\ prod'.synced = prod.synced
    BY <1>1, Zenon DEF RingInv, TypeOK, Step
  <1>3. TypeOK'
    BY <1>1, <1>2, DrainedRest DEF RingInv, TypeOK
  <1>4. ProdInv' /\ ConsInv' /\ SlotInv' /\ InOrder'
    BY <1>1, <1>2 DEF RingInv, ProdInv, ConsInv, SlotInv, InOrder
  <1>5. DropInv'
    BY <1>1, <1>2, DrainedRest DEF RingInv, DropInv, DropsTheRest
  <1> QED
    BY <1>3, <1>4, <1>5 DEF RingInv

\* The same for the consumer.
LEMMA ConsumerGoneStep ==
    ASSUME RingInv, ConsumerGone
    PROVE  RingInv'
  <1>1. /\ cons.step = "idle" /\ cons' = [cons EXCEPT !.step = "gone"]
        /\ dropped' = IF prod.step = "gone" THEN Drained ELSE dropped
        /\ UNCHANGED <<head, tail, buf, prod, sent, rcvd>>
    BY DEF ConsumerGone
  <1>2. /\ cons' \in [step : Step, val : Item \cup {Uninit}, cache : Word,
                      seen : Nat, synced : Nat, items : Nat]
        /\ cons'.step = "gone" /\ cons'.cache = cons.cache /\ cons'.items = cons.items
        /\ cons'.seen = cons.seen /\ cons'.synced = cons.synced
    BY <1>1, Zenon DEF RingInv, TypeOK, Step
  <1>3. TypeOK'
    BY <1>1, <1>2, DrainedRest DEF RingInv, TypeOK
  <1>4. ProdInv' /\ ConsInv' /\ SlotInv' /\ InOrder'
    BY <1>1, <1>2 DEF RingInv, ProdInv, ConsInv, SlotInv, InOrder
  <1>5. DropInv'
    BY <1>1, <1>2, DrainedRest DEF RingInv, DropInv, DropsTheRest
  <1> QED
    BY <1>3, <1>4, <1>5 DEF RingInv

\* Every step keeps the invariant.
LEMMA RingNext == RingInv /\ [Next]_vars => RingInv'
  <1> SUFFICES ASSUME RingInv, [Next]_vars PROVE RingInv'
    OBVIOUS
  <1>1. ASSUME NEW v \in Item, PushRoom(v) PROVE RingInv'
    BY <1>1, PushRoomStep
  <1>2. CASE PushFull
    BY <1>2, PushFullStep
  <1>3. CASE PushSlot
    BY <1>3, PushSlotStep, SMTT(30)
  <1>4. CASE PushStore
    BY <1>4, PushStoreStep
  <1>5. CASE IsFull
    BY <1>5, IsFullStep
  <1>6. CASE PopSome
    BY <1>6, PopSomeStep
  <1>7. CASE PopNone
    BY <1>7, PopNoneStep
  <1>8. CASE PopSlot
    BY <1>8, PopSlotStep
  <1>9. CASE PopStore
    BY <1>9, PopStoreStep
  <1>10. CASE Length
    BY <1>10, LengthStep
  <1>11. CASE IsEmpty
    BY <1>11, IsEmptyStep
  <1>12. CASE ProducerGone
    BY <1>12, ProducerGoneStep
  <1>13. CASE ConsumerGone
    BY <1>13, ConsumerGoneStep
  <1>14. CASE UNCHANGED vars
    BY <1>14, SMTT(30) DEF vars, RingInv, TypeOK, ProdInv, ConsInv, SlotInv, InOrder, DropInv, DropsTheRest
  <1> QED
    BY <1>1, <1>2, <1>3, <1>4, <1>5, <1>6, <1>7, <1>8, <1>9, <1>10, <1>11, <1>12, <1>13,
       <1>14 DEF Next

-----------------------------------------------------------------------------
\* The inductive invariant holds of every reachable state of the ring.
THEOREM RingInvariance == Spec => []RingInv
  BY RingInit, RingNext, PTL DEF Spec

\* Type correctness, for every word width and capacity.
THEOREM RingTypes == Spec => []TypeOK
  <1>1. RingInv => TypeOK
    BY DEF RingInv
  <1> QED
    BY <1>1, RingInvariance, PTL

\* push never writes a slot whose last read it has not synchronised with, and
\* pop never reads a slot whose write it has not synchronised with, for every
\* capacity, through any number of wraps of the cursors.
THEOREM RingRaceFree == Spec => []NoRace
  <1>1. RingInv => NoRace
    <2> SUFFICES ASSUME RingInv PROVE NoRace
      OBVIOUS
    <2>1. ASSUME prod.step = "slot" PROVE Len(sent) < prod.synced + Capacity
      <3>1. PICK k \in 0 .. prod.seen : Len(sent) < k + Capacity
        BY <2>1 DEF RingInv, ProdInv
      <3>2. prod.seen = prod.synced
        BY DEF RingInv, ProdInv
      <3> QED
        BY <3>1, <3>2, Counts, RingSize
    <2>2. ASSUME cons.step = "slot" PROVE Len(rcvd) < cons.synced
      <3>1. PICK m \in Len(rcvd) .. cons.seen : Len(rcvd) < m
        BY <2>2 DEF RingInv, ConsInv
      <3>2. cons.seen = cons.synced
        BY DEF RingInv, ConsInv
      <3> QED
        BY <3>1, <3>2, Counts
    <2> QED
      BY <2>1, <2>2 DEF NoRace
  <1> QED
    BY <1>1, RingInvariance, PTL

\* Pops return the pushed items, each once and in order.
THEOREM RingInOrder == Spec => []InOrder
  <1>1. RingInv => InOrder
    BY DEF RingInv
  <1> QED
    BY <1>1, RingInvariance, PTL

\* When both halves are gone, what was popped followed by what Drop disposed of
\* is what was pushed.
THEOREM RingDrops == Spec => []DropsTheRest
  <1>1. RingInv => DropsTheRest
    BY DEF RingInv, DropInv
  <1> QED
    BY <1>1, RingInvariance, PTL

\* What is_full, len and is_empty promise to their own thread is kept.
THEOREM RingAdvice == Spec => []AdviceIsKept
  <1>1. RingInv => AdviceIsKept
    <2> SUFFICES ASSUME RingInv PROVE RoomIsKept /\ LenIsKept
      BY DEF AdviceIsKept
    <2>1. ASSUME prod.room, NEW n \in HeadLoads PROVE ~Full(tail, Cursor(n))
      <3>1. Len(sent) < prod.seen + Capacity
        BY <2>1 DEF RingInv, ProdInv
      <3>2. n \in Nat /\ prod.seen <= n
        BY Counts DEF HeadLoads
      <3> QED
        BY <3>1, <3>2, HeadLoadFull, Counts, RingSize
    <2>2. ASSUME NEW n \in TailLoads PROVE Len(rcvd) + cons.items <= n
      BY Counts DEF RingInv, ConsInv, TailLoads, TypeOK
    <2> QED
      BY <2>1, <2>2 DEF RoomIsKept, LenIsKept
  <1> QED
    BY <1>1, RingInvariance, PTL

\* The ring implements the bounded channel: a store of tail is a Send, a store
\* of head is a Receive, every other step changes neither history.
THEOREM RingRefinesFifo == Spec => ImplementsFifo
  <1>1. Init => Channel!Init
    BY SMTT(30) DEF Init, Channel!Init
  <1>2. RingInv /\ [Next]_vars => [Channel!Next]_<<sent, rcvd>>
    <2> SUFFICES ASSUME RingInv, [Next]_vars PROVE [Channel!Next]_<<sent, rcvd>>
      OBVIOUS
    <2>1. CASE PushStore
      <3>1. prod.step = "store" /\ sent' = Append(sent, prod.val) /\ rcvd' = rcvd
        BY <2>1 DEF PushStore
      <3>2. prod.val \in Item
        BY <3>1 DEF RingInv, ProdInv
      <3>3. PICK k \in 0 .. prod.seen : Len(sent) < k + Capacity
        BY <3>1 DEF RingInv, ProdInv
      <3>4. Len(sent) < Len(rcvd) + Capacity
        BY <3>3, Counts, RingSize
      <3> QED
        BY <3>1, <3>2, <3>4 DEF Channel!Next, Channel!Send
    <2>2. CASE PopStore
      <3>1. cons.step = "store" /\ rcvd' = Append(rcvd, cons.val) /\ sent' = sent
        BY <2>2 DEF PopStore
      <3>2. cons.val = sent[Len(rcvd) + 1]
        BY <3>1 DEF RingInv, SlotInv
      <3>3. PICK m \in Len(rcvd) .. cons.seen : Len(rcvd) < m
        BY <3>1 DEF RingInv, ConsInv
      <3>4. Len(rcvd) < Len(sent)
        BY <3>3, Counts
      <3> QED
        BY <3>1, <3>2, <3>4 DEF Channel!Next, Channel!Receive
    <2>3. CASE UNCHANGED <<sent, rcvd>>
      BY <2>3
    <2> QED
      BY <2>1, <2>2, <2>3, Zenon DEF Next, vars, PushRoom, PushFull, PushSlot, IsFull, PopSome, PopNone,
         PopSlot, Length, IsEmpty, ProducerGone, ConsumerGone
  <1> QED
    BY <1>1, <1>2, RingInvariance, PTL DEF Spec, ImplementsFifo, Channel!Spec
=============================================================================

-------------------------- MODULE ShardStepProofs ---------------------------
(***************************************************************************)
(* Proofs about ShardWake, first part. One lane comes first: the messages  *)
(* of a pair of shards are in three places, the ring its receiver sees,    *)
(* the pending stores of the sender and the sender's backlog. LaneOK says  *)
(* how the three continue one another; the lemmas say that each thing the  *)
(* code does to a lane keeps it.                                           *)
(*                                                                         *)
(* The order alone is not inductive: a push is only admitted because       *)
(* Room counts with the sender's own cursor and a delayed view of the      *)
(* receiver's, so LaneOK also bounds what the sender has pushed by what    *)
(* the receiver is known to have freed, and puts an announcement at the    *)
(* end of whatever is pending.                                             *)
(*                                                                         *)
(* Then the inductive invariant Inv of the whole protocol, and that the    *)
(* steps keep it that send nothing and flush nothing. The heart of it is   *)
(* WakeOK. That a blocked shard with a message in its ring has its wake    *)
(* coming is not inductive: between the recheck and the wait nothing but   *)
(* the fences connects the sender's scan with the receiver's flag. WakeOK  *)
(* follows a message through: a store still pending means the wake is      *)
(* still owed, a visible message has its bit set, in the mask being        *)
(* drained or pending, and a bit that appears while the receiver makes     *)
(* its last check before blocking comes from a sender whose wake scan is   *)
(* still to come, by when the flag is visible (LoopInv).                   *)
(***************************************************************************)
EXTENDS ShardWake, TLAPS, SequenceTheorems

\* The number of an entry of a lane, and whether it is an announcement.
Num(q, i) == q[i].n
Bell(q, i) == q[i].kind = "announce"

\* A sequence of messages numbered from n + 1.
Numbered(q, n) ==
    /\ q \in Seq(Message)
    /\ \A i \in 1 .. Len(q) : Num(q, i) = n + i

\* Pending stores after the push with number z, up to the one with number t.
Pending(b, z, t) ==
    /\ b \in Seq(Message \cup Announcement)
    /\ \A i \in 1 .. Len(b) : Num(b, i) \in z .. t
    /\ \A i \in 1 .. Len(b) :
           Num(b, i) = (IF i = 1 THEN z ELSE Num(b, i - 1)) + (IF Bell(b, i) THEN 0 ELSE 1)
    /\ \A i, j \in 1 .. Len(b) : i <= j => Num(b, i) <= Num(b, j)
    /\ Len(b) = 0 => t = z
    /\ Len(b) # 0 => t = Num(b, Len(b)) /\ Bell(b, Len(b))

\* One lane: its ring r, pending stores b, push cursor t, unseen pops f,
\* backlog g, messages sent k and received c.
LaneOK(r, b, t, f, g, k, c) ==
    /\ t \in Nat /\ f \in Nat /\ k \in Nat /\ c \in Nat
    /\ Numbered(r, c)
    /\ Pending(b, c + Len(r), t)
    /\ Numbered(g, t)
    /\ c + Len(r) <= t
    /\ k = t + Len(g)
    /\ t - (c - f) <= RingCap

\* A function of the pairs.
Lanes(f) == f = [p \in Pair |-> f[p]]

\* Every lane is in order, and the lanes are functions of the pairs.
LaneInv ==
    /\ Lanes(ring) /\ Lanes(buf) /\ Lanes(tail) /\ Lanes(freed) /\ Lanes(backlog)
    /\ Lanes(sent) /\ Lanes(rcvd)
    /\ \A p \in Pair :
           LaneOK(ring[p], buf[p], tail[p], freed[p], backlog[p], sent[p], rcvd[p])

\* The types of what a shard keeps for itself.  A shard is never its own source.
ShardType ==
    /\ pc \in [Shard -> Loop]
    /\ idle \in [Shard -> 0 .. SpinLimit]
    /\ dirty \in [Shard -> SUBSET Shard]
    /\ todo \in [Shard -> SUBSET Shard]
    /\ took \in [Shard -> 0 .. (DrainBudget - 1)]
    /\ did \in [Shard -> BOOLEAN]
    /\ owes \in [Shard -> SUBSET Shard]
    /\ scan \in [Shard -> SUBSET Shard]
    /\ flag \in [Shard -> BOOLEAN]
    /\ parked \in [Shard -> BOOLEAN]
    /\ waker \in [Shard -> BOOLEAN]
    /\ inflight \in [Shard -> Nat]
    /\ asked \in [Shard -> 0 .. MaxRequest]
    /\ noted \in [Shard -> 0 .. MaxNote]
    /\ \A s \in Shard : s \notin dirty[s] \cup todo[s]

-----------------------------------------------------------------------------
\* Lemmas about one lane.

\* The first h messages of a backlog.
LEMMA NumberedSplit ==
    ASSUME NEW g, NEW t \in Nat, Numbered(g, t), NEW h \in 0 .. Len(g)
    PROVE  /\ Numbered(SubSeq(g, 1, h), t) /\ Len(SubSeq(g, 1, h)) = h
           /\ Numbered(SubSeq(g, h + 1, Len(g)), t + h)
           /\ Len(SubSeq(g, h + 1, Len(g))) = Len(g) - h
  <1> DEFINE l == SubSeq(g, 1, h)
             ng == SubSeq(g, h + 1, Len(g))
             G == Len(g)
  <1>1. g \in Seq(Message) /\ G \in Nat /\ h \in Nat /\ h <= G
    BY DEF Numbered
  <1>2. \A i \in 1 .. G : g[i] \in Message /\ g[i].n = t + i
    BY <1>1 DEF Numbered, Num
  <1>3. l \in Seq(Message) /\ Len(l) = h
    BY <1>1, SubSeqProperties
  <1>4. \A i \in 1 .. h : l[i] = g[i]
    BY <1>1
  <1>5. ng \in Seq(Message) /\ Len(ng) = G - h
    BY <1>1
  <1>6. \A i \in 1 .. (G - h) : ng[i] = g[h + i]
    BY <1>1
  <1> HIDE DEF l, ng, G
  <1>7. Numbered(l, t)
    <2>1. ASSUME NEW i \in 1 .. h PROVE l[i].n = t + i
      BY <1>1, <1>2, <1>4
    <2> QED
      BY <1>3, <2>1 DEF Numbered, Num
  <1>8. Numbered(ng, t + h)
    <2>1. ASSUME NEW i \in 1 .. (G - h) PROVE ng[i].n = t + h + i
      <3>1. h + i \in 1 .. G
        BY <1>1
      <3>2. g[h + i].n = t + (h + i)
        BY <1>2, <3>1
      <3> QED
        BY <1>1, <1>6, <3>2
    <2> QED
      BY <1>5, <2>1 DEF Numbered, Num
  <1> QED
    BY <1>3, <1>5, <1>7, <1>8 DEF l, ng, G

\* The next message behind a backlog.
LEMMA NumberedAppend ==
    ASSUME NEW g, NEW t \in Nat, Numbered(g, t), NEW m \in Message, m.n = t + Len(g) + 1
    PROVE  Numbered(Append(g, m), t) /\ Len(Append(g, m)) = Len(g) + 1
  <1> DEFINE ng == Append(g, m)
             G == Len(g)
  <1>1. g \in Seq(Message) /\ G \in Nat
    BY DEF Numbered
  <1>2. ng \in Seq(Message) /\ Len(ng) = G + 1
    BY <1>1, AppendProperties
  <1>3. (\A i \in 1 .. G : ng[i] = g[i]) /\ ng[G + 1] = m
    BY <1>1, AppendProperties
  <1>4. \A i \in 1 .. G : g[i].n = t + i
    BY DEF Numbered, Num
  <1> HIDE DEF ng
  <1>5. ASSUME NEW i \in 1 .. (G + 1) PROVE Num(ng, i) = t + i
    <2>1. CASE i \in 1 .. G
      BY <1>3, <1>4, <2>1 DEF Num
    <2>2. CASE i = G + 1
      BY <1>1, <1>3, <2>2 DEF Num
    <2> QED
      BY <1>1, <2>1, <2>2
  <1> QED
    BY <1>2, <1>5 DEF Numbered, ng

\* Numbered messages and an announcement after them, stored by the producer.
LEMMA PendingStores ==
    ASSUME NEW z \in Nat, NEW t \in Nat, z <= t, NEW b, Pending(b, z, t),
           NEW l, Numbered(l, t)
    PROVE  Pending(b \o Append(l, Announce(t + Len(l))), z, t + Len(l))
  <1> DEFINE h == Len(l)
             a == Announce(t + h)
             la == Append(l, a)
             nb == b \o la
             L == Len(b)
             E == Message \cup Announcement
  <1>1. b \in Seq(E) /\ L \in Nat /\ l \in Seq(Message) /\ h \in Nat
    BY DEF Pending, Numbered
  <1>2. l \in Seq(E)
    BY <1>1
  <1>3. a \in E /\ a.n = t + h /\ a.kind = "announce"
    BY <1>1 DEF Announcement, Announce
  <1>4. \A i \in 1 .. h : l[i].n = t + i /\ l[i].kind # "announce"
    <2>1. \A i \in 1 .. h : l[i] \in Message
      BY <1>1
    <2>2. \A i \in 1 .. h : l[i].n = t + i
      BY DEF Numbered, Num
    <2>3. \A m \in Message : m.kind # "announce"
      BY DEF Message, Kind
    <2> QED
      BY <2>1, <2>2, <2>3
  <1>5. /\ \A i \in 1 .. L : Num(b, i) \in z .. t
        /\ \A i \in 1 .. L :
              Num(b, i) = (IF i = 1 THEN z ELSE Num(b, i - 1)) + (IF Bell(b, i) THEN 0 ELSE 1)
        /\ \A i, j \in 1 .. L : i <= j => Num(b, i) <= Num(b, j)
        /\ L = 0 => t = z
        /\ L # 0 => t = Num(b, L)
    BY DEF Pending
  <1> HIDE DEF a, E, h
  <1>6. la \in Seq(E) /\ Len(la) = h + 1
    BY <1>2, <1>3, AppendProperties DEF h
  <1>7. (\A i \in 1 .. h : la[i] = l[i]) /\ la[h + 1] = a
    BY <1>2, <1>3, AppendProperties DEF h
  <1> HIDE DEF la
  <1>8. nb \in Seq(E) /\ Len(nb) = L + (h + 1)
    <2>1. nb \in Seq(E) /\ Len(nb) = L + Len(la)
      BY ZenonT(30), <1>1, <1>6, ConcatProperties
    <2> QED
      BY <1>6, <2>1
  <1>9. \A i \in 1 .. (L + (h + 1)) : nb[i] = IF i <= L THEN b[i] ELSE la[i - L]
    BY <1>1, <1>6, ConcatProperties
  <1> HIDE DEF nb, L
  <1>10. ASSUME NEW i \in 1 .. L PROVE Num(nb, i) = Num(b, i) /\ Bell(nb, i) = Bell(b, i)
    <2>1. i \in 1 .. (L + (h + 1)) /\ i <= L
      BY <1>1
    <2>2. nb[i] = b[i]
      BY <1>9, <2>1
    <2> QED
      BY <2>2 DEF Num, Bell
  <1>11. ASSUME NEW i \in 1 .. h PROVE Num(nb, L + i) = t + i /\ ~ Bell(nb, L + i)
    <2>1. L + i \in 1 .. (L + (h + 1)) /\ ~ (L + i <= L) /\ (L + i) - L = i
      BY <1>1
    <2>2. nb[L + i] = la[i]
      BY <1>9, <2>1
    <2>3. nb[L + i] = l[i]
      BY <1>7, <2>2
    <2> QED
      BY <1>4, <2>3 DEF Num, Bell
  <1>12. Num(nb, L + (h + 1)) = t + h /\ Bell(nb, L + (h + 1))
    <2>1. L + (h + 1) \in 1 .. (L + (h + 1)) /\ ~ (L + (h + 1) <= L) /\ (L + (h + 1)) - L = h + 1
      BY <1>1
    <2>2. nb[L + (h + 1)] = la[h + 1]
      BY <1>9, <2>1
    <2>3. nb[L + (h + 1)] = a
      BY <1>7, <2>2
    <2> QED
      BY <1>3, <2>3 DEF Num, Bell
  <1>13. \A i \in 1 .. (L + (h + 1)) :
            \/ i \in 1 .. L
            \/ i \in (L + 1) .. (L + h) /\ i - L \in 1 .. h /\ L + (i - L) = i
            \/ i = L + (h + 1)
    BY <1>1
  <1>14. \A i \in (L + 1) .. (L + h) : Num(nb, i) = t + (i - L) /\ ~ Bell(nb, i)
    <2>1. ASSUME NEW i \in (L + 1) .. (L + h) PROVE i - L \in 1 .. h /\ L + (i - L) = i
      BY <1>1
    <2> QED
      BY <1>11, <2>1
  <1>15. ASSUME NEW i \in 1 .. (L + (h + 1)) PROVE Num(nb, i) \in z .. (t + h)
    BY <1>1, <1>5, <1>10, <1>12, <1>13, <1>14
  <1>16. ASSUME NEW i \in 1 .. (L + (h + 1))
         PROVE  Num(nb, i) = (IF i = 1 THEN z ELSE Num(nb, i - 1)) + (IF Bell(nb, i) THEN 0 ELSE 1)
    <2>1. CASE i \in 1 .. L
      <3>1. i # 1 => i - 1 \in 1 .. L
        BY <1>1, <2>1
      <3> QED
        BY <1>5, <1>10, <2>1, <3>1
    <2>2. CASE i = L + 1
      <3>1. IF i = 1 THEN t = z ELSE L \in 1 .. L /\ i - 1 = L /\ Num(nb, i - 1) = t
        BY <1>1, <1>5, <1>10, <2>2
      <3> QED
        BY <1>1, <1>12, <1>14, <2>2, <3>1
    <2>3. CASE i \in (L + 2) .. (L + (h + 1))
      <3>1. i - 1 \in (L + 1) .. (L + h) /\ i # 1
        BY <1>1, <2>3
      <3>2. Num(nb, i - 1) = t + (i - 1 - L)
        BY <1>14, <3>1
      <3> QED
        BY <1>1, <1>12, <1>14, <2>3, <3>1, <3>2
    <2> QED
      BY <1>1, <2>1, <2>2, <2>3
  <1>17. ASSUME NEW i \in 1 .. (L + (h + 1)), NEW j \in 1 .. (L + (h + 1)), i <= j
         PROVE  Num(nb, i) <= Num(nb, j)
    <2>1. CASE j \in 1 .. L
      BY <1>1, <1>5, <1>10, <1>17, <2>1
    <2>2. CASE i \in 1 .. L /\ j \notin 1 .. L
      <3>1. Num(nb, i) \in z .. t
        BY <1>5, <1>10, <2>2
      <3>2. Num(nb, j) \in t .. (t + h)
        BY <1>1, <1>12, <1>13, <1>14, <2>2
      <3> QED
        BY <1>1, <3>1, <3>2
    <2>3. CASE i \notin 1 .. L
      BY <1>1, <1>12, <1>13, <1>14, <1>17, <2>3
    <2> QED
      BY <1>1, <1>17, <2>1, <2>2, <2>3
  <1>18. Len(nb) = L + (h + 1) /\ L + (h + 1) # 0 /\ t + h \in Nat
    BY <1>1, <1>8
  <1>19. Pending(nb, z, t + h)
    BY <1>8, <1>12, <1>15, <1>16, <1>17, <1>18, Zenon DEF Pending, E
  <1> QED
    BY <1>19 DEF nb, la, a, h

\* Appending to a sequence of one makes a sequence of two: what send_to stores
\* when the ring has room.
LEMMA AppendToOne ==
    ASSUME NEW x, NEW y
    PROVE  Append(<<x>>, y) = <<x, y>>
  <1> DEFINE S == {x, y}
             q == Append(<<x>>, y)
  <1>1. <<x>> \in Seq(S) /\ Len(<<x>>) = 1 /\ y \in S
    OBVIOUS
  <1>2. <<x, y>> \in Seq(S) /\ Len(<<x, y>>) = 2
    OBVIOUS
  <1>3. /\ q \in Seq(S) /\ Len(q) = Len(<<x>>) + 1 /\ q[Len(<<x>>) + 1] = y
        /\ \A i \in 1 .. Len(<<x>>) : q[i] = <<x>>[i]
    BY <1>1, AppendProperties
  <1>4. q \in Seq(S) /\ Len(q) = 2 /\ q[1] = x /\ q[2] = y
    BY <1>1, <1>3
  <1> HIDE DEF q
  <1>5. Len(q) = Len(<<x, y>>) /\ \A i \in 1 .. Len(q) : q[i] = <<x, y>>[i]
    BY <1>2, <1>4
  <1>6. q = <<x, y>>
    BY <1>2, <1>4, <1>5, SeqEqual
  <1> QED
    BY <1>6 DEF q

\* The oldest pending store becomes visible.
LEMMA PendingTail ==
    ASSUME NEW z \in Nat, NEW t \in Nat, NEW b, Pending(b, z, t), b # <<>>
    PROVE  /\ Num(b, 1) \in Nat /\ Num(b, 1) <= t
           /\ Head(b) = b[1] /\ Head(b) \in Message \cup Announcement
           /\ Num(b, 1) = z + (IF Bell(b, 1) THEN 0 ELSE 1)
           /\ Pending(Tail(b), Num(b, 1), t)
           /\ ~ Bell(b, 1) => Tail(b) # <<>>
  <1> DEFINE E == Message \cup Announcement
             L == Len(b)
             nb == Tail(b)
             y == Num(b, 1)
  <1>1. b \in Seq(E) /\ L \in Nat /\ L # 0
    BY DEF Pending
  <1>2. nb \in Seq(E) /\ Len(nb) = L - 1 /\ Head(b) \in E
    BY <1>1, HeadTailProperties
  <1>3. \A i \in 1 .. (L - 1) : nb[i] = b[i + 1]
    BY <1>1, <1>2, HeadTailProperties
  <1>4. Head(b) = b[1]
    BY <1>1
  <1>5. /\ \A i \in 1 .. L : Num(b, i) \in z .. t
        /\ \A i \in 1 .. L :
              Num(b, i) = (IF i = 1 THEN z ELSE Num(b, i - 1)) + (IF Bell(b, i) THEN 0 ELSE 1)
        /\ \A i, j \in 1 .. L : i <= j => Num(b, i) <= Num(b, j)
        /\ t = Num(b, L) /\ Bell(b, L)
    BY <1>1 DEF Pending
  <1>n. Len(nb) = L - 1
    BY <1>2
  <1>d. nb # <<>> \/ L = 1
    <2>1. nb = <<>> => L - 1 = 0
      BY <1>2
    <2> QED
      BY <1>1, <2>1
  <1> HIDE DEF nb, L, E
  <1>6. \A i \in 1 .. (L - 1) : Num(nb, i) = Num(b, i + 1) /\ Bell(nb, i) = Bell(b, i + 1)
    BY <1>3 DEF Num, Bell
  <1>7. 1 \in 1 .. L /\ \A i \in 1 .. (L - 1) : i + 1 \in 1 .. L /\ 1 <= i + 1
    BY <1>1
  <1>8. y \in z .. t /\ \A i \in 1 .. L : y <= Num(b, i)
    BY <1>5, <1>7
  <1>9. ASSUME NEW i \in 1 .. (L - 1) PROVE Num(nb, i) \in y .. t
    <2>1. Num(b, i + 1) \in z .. t /\ y <= Num(b, i + 1)
      BY <1>5, <1>7, <1>8
    <2> QED
      BY <1>6, <1>8, <2>1
  <1>10. ASSUME NEW i \in 1 .. (L - 1)
         PROVE  Num(nb, i) = (IF i = 1 THEN y ELSE Num(nb, i - 1)) + (IF Bell(nb, i) THEN 0 ELSE 1)
    <2>1. i # 1 => i - 1 \in 1 .. (L - 1)
      BY <1>1
    <2>2. i # 1 => Num(nb, i - 1) = Num(b, i)
      BY <1>6, <2>1
    <2>3. i + 1 # 1 /\ (i + 1) - 1 = i
      OBVIOUS
    <2>4. Num(b, i + 1) = Num(b, i) + (IF Bell(b, i + 1) THEN 0 ELSE 1)
      BY <1>5, <1>7, <2>3
    <2> QED
      BY <1>6, <2>2, <2>4
  <1>11. \A i, j \in 1 .. (L - 1) : i <= j => Num(nb, i) <= Num(nb, j)
    BY <1>5, <1>6, <1>7
  <1>12. (L - 1 = 0 => t = y) /\ (L - 1 # 0 => t = Num(nb, L - 1) /\ Bell(nb, L - 1))
    <2>1. CASE L = 1
      BY <1>5, <2>1
    <2>2. CASE L # 1
      <3>1. L - 1 \in 1 .. (L - 1) /\ (L - 1) + 1 = L /\ L - 1 # 0
        BY <1>1, <2>2
      <3> QED
        BY <1>5, <1>6, <3>1
    <2> QED
      BY <2>1, <2>2
  <1>13. Pending(nb, y, t)
    BY <1>2, <1>9, <1>10, <1>11, <1>12, <1>n, Zenon DEF Pending, E
  <1>14. ~ Bell(b, 1) => nb # <<>>
    BY <1>5, <1>d
  <1>15. Num(b, 1) = z + (IF Bell(b, 1) THEN 0 ELSE 1)
    BY <1>5, <1>7
  <1> QED
    BY <1>2, <1>4, <1>8, <1>13, <1>14, <1>15 DEF nb, E

\* flush_backlog moves h messages of the backlog into the ring and announces them.
LEMMA LaneLand ==
    ASSUME NEW r, NEW b, NEW t, NEW f, NEW g, NEW k, NEW c,
           LaneOK(r, b, t, f, g, k, c), NEW h \in 0 .. Len(g), h <= RingCap - (t - (c - f))
    PROVE  LaneOK(r, b \o Append(SubSeq(g, 1, h), Announce(t + h)), t + h, f,
                  SubSeq(g, h + 1, Len(g)), k, c)
  <1> DEFINE l == SubSeq(g, 1, h)
             ng == SubSeq(g, h + 1, Len(g))
             nb == b \o Append(l, Announce(t + h))
             R == Len(r)
             G == Len(g)
  <1>1. t \in Nat /\ f \in Nat /\ k \in Nat /\ c \in Nat /\ t - (c - f) <= RingCap /\ c + R <= t
    BY DEF LaneOK
  <1>2. Numbered(r, c) /\ Pending(b, c + R, t) /\ Numbered(g, t)
    BY DEF LaneOK
  <1>3. R \in Nat /\ G \in Nat /\ h \in Nat
    BY <1>2 DEF Numbered
  <1>4. Numbered(l, t) /\ Len(l) = h /\ Numbered(ng, t + h) /\ Len(ng) = G - h
    BY <1>1, <1>2, NumberedSplit
  <1>5. k = t + G
    BY DEF LaneOK
  <1> HIDE DEF l, ng, R, G
  <1>6. c + R \in Nat
    BY <1>1, <1>3
  <1>7. Pending(nb, c + R, t + h)
    BY <1>1, <1>2, <1>4, <1>6, PendingStores
  <1>8. t + h \in Nat /\ k = t + h + (G - h) /\ c + R <= t + h /\ t + h - (c - f) <= RingCap
    BY <1>1, <1>3, <1>5, WakeAssumption
  <1> HIDE DEF nb
  <1>9. LaneOK(r, nb, t + h, f, ng, k, c)
    <2>1. k = (t + h) + Len(ng)
      BY <1>4, <1>8
    <2> QED
      BY <1>1, <1>2, <1>4, <1>7, <1>8, <2>1 DEF LaneOK, R
  <1> QED
    BY <1>9 DEF nb, l, ng

\* A message joins the backlog.
LEMMA LaneHold ==
    ASSUME NEW r, NEW b, NEW t, NEW f, NEW g, NEW k, NEW c,
           LaneOK(r, b, t, f, g, k, c), NEW kind \in Kind
    PROVE  LaneOK(r, b, t, f, Append(g, [kind |-> kind, n |-> k + 1]), k + 1, c)
  <1> DEFINE m == [kind |-> kind, n |-> k + 1]
             ng == Append(g, m)
             G == Len(g)
  <1>1. t \in Nat /\ k \in Nat /\ Numbered(g, t) /\ G \in Nat /\ k = t + G
    BY DEF LaneOK, Numbered
  <1>2. m \in Message /\ m.n = t + G + 1 /\ k + 1 \in Nat /\ k + 1 = t + (G + 1)
    BY <1>1 DEF Message
  <1> HIDE DEF m
  <1>3. Numbered(ng, t) /\ Len(ng) = G + 1
    BY <1>1, <1>2, NumberedAppend
  <1> HIDE DEF ng, G
  <1>4. LaneOK(r, b, t, f, ng, k + 1, c)
    BY <1>2, <1>3, Zenon DEF LaneOK
  <1> QED
    BY <1>4 DEF ng, m

\* send_to with a backlog or a full ring.
LEMMA LaneSpill ==
    ASSUME NEW r, NEW b, NEW t, NEW f, NEW g, NEW k, NEW c,
           LaneOK(r, b, t, f, g, k, c), NEW kind \in Kind
    PROVE  LaneOK(r, b \o <<Announce(t)>>, t, f, Append(g, [kind |-> kind, n |-> k + 1]), k + 1, c)
  <1> DEFINE ng == Append(g, [kind |-> kind, n |-> k + 1])
  <1>1. LaneOK(r, b, t, f, ng, k + 1, c)
    BY LaneHold
  <1> HIDE DEF ng
  <1>2. ng \in Seq(Message) /\ t \in Nat /\ c \in Nat /\ f \in Nat /\ t - (c - f) <= RingCap
    BY <1>1 DEF LaneOK, Numbered
  <1>3. 0 \in 0 .. Len(ng) /\ 0 <= RingCap - (t - (c - f)) /\ t + 0 = t /\ 0 + 1 = 1
    BY <1>2, WakeAssumption
  <1>4. SubSeq(ng, 1, 0) = <<>> /\ SubSeq(ng, 1, Len(ng)) = ng
    BY <1>2, SubSeqEmpty, SubSeqFull
  <1>5. \A x : Append(<<>>, x) = <<x>>
    OBVIOUS
  <1>6. LaneOK(r, b \o Append(SubSeq(ng, 1, 0), Announce(t + 0)), t + 0, f,
               SubSeq(ng, 0 + 1, Len(ng)), k + 1, c)
    BY <1>1, <1>3, LaneLand
  <1> QED
    BY <1>3, <1>4, <1>5, <1>6, Zenon DEF ng

\* send_to with room in the ring and no backlog.
LEMMA LanePush ==
    ASSUME NEW r, NEW b, NEW t, NEW f, NEW g, NEW k, NEW c,
           LaneOK(r, b, t, f, g, k, c), g = <<>>, RingCap - (t - (c - f)) # 0,
           NEW kind \in Kind
    PROVE  LaneOK(r, b \o <<[kind |-> kind, n |-> k + 1], Announce(k + 1)>>, t + 1, f, g, k + 1, c)
  <1> DEFINE m == [kind |-> kind, n |-> k + 1]
             ng == Append(g, m)
  <1>1. LaneOK(r, b, t, f, ng, k + 1, c)
    BY ZenonT(30), LaneHold
  <1>2. k = t /\ t \in Nat /\ c \in Nat /\ f \in Nat /\ t - (c - f) <= RingCap
    BY DEF LaneOK
  <1> HIDE DEF m
  <1>3. Len(ng) = 1 /\ SubSeq(ng, 1, 1) = <<m>> /\ SubSeq(ng, 2, 1) = <<>>
    <2>1. ng = <<m>> /\ <<m>> \in Seq({m}) /\ Len(<<m>>) = 1
      OBVIOUS
    <2>2. SubSeq(<<m>>, 1, Len(<<m>>)) = <<m>>
      BY ZenonT(30), <2>1, SubSeqFull
    <2> QED
      BY <2>1, <2>2, SubSeqEmpty
  <1>4. \A x : Append(<<m>>, x) = <<m, x>>
    BY AppendToOne
  <1> HIDE DEF ng
  <1>5. 1 \in 0 .. Len(ng) /\ 1 <= RingCap - (t - (c - f)) /\ 1 + 1 = 2
    BY <1>2, <1>3, WakeAssumption
  <1>6. LaneOK(r, b \o Append(SubSeq(ng, 1, 1), Announce(t + 1)), t + 1, f,
               SubSeq(ng, 1 + 1, Len(ng)), k + 1, c)
    BY <1>1, <1>5, LaneLand
  <1> QED
    BY <1>2, <1>3, <1>4, <1>5, <1>6, Zenon DEF m

\* A store reaches the receiver: a push enters the ring, a bit does not.
LEMMA LaneCommit ==
    ASSUME NEW r, NEW b, NEW t, NEW f, NEW g, NEW k, NEW c,
           LaneOK(r, b, t, f, g, k, c), b # <<>>
    PROVE  /\ Head(b).kind = "announce" => LaneOK(r, Tail(b), t, f, g, k, c)
           /\ Head(b).kind # "announce" => /\ LaneOK(Append(r, Head(b)), Tail(b), t, f, g, k, c)
                                           /\ Tail(b) # <<>>
  <1> DEFINE R == Len(r)
  <1>1. t \in Nat /\ c \in Nat /\ R \in Nat /\ Numbered(r, c) /\ Pending(b, c + R, t)
    BY DEF LaneOK, Numbered
  <1>2. c + R \in Nat
    BY <1>1
  <1>3. /\ Num(b, 1) \in Nat /\ Num(b, 1) <= t
        /\ Head(b) = b[1] /\ Head(b) \in Message \cup Announcement
        /\ Num(b, 1) = (c + R) + (IF Bell(b, 1) THEN 0 ELSE 1)
        /\ Pending(Tail(b), Num(b, 1), t)
        /\ ~ Bell(b, 1) => Tail(b) # <<>>
    BY ZenonT(30), <1>1, <1>2, PendingTail
  <1>4. ASSUME Head(b).kind = "announce" PROVE LaneOK(r, Tail(b), t, f, g, k, c)
    <2>1. Bell(b, 1)
      BY <1>3, <1>4 DEF Bell
    <2>2. Pending(Tail(b), c + R, t)
      BY <1>2, <1>3, <2>1
    <2> QED
      BY <2>2 DEF LaneOK
  <1>5. ASSUME Head(b).kind # "announce"
        PROVE  LaneOK(Append(r, Head(b)), Tail(b), t, f, g, k, c) /\ Tail(b) # <<>>
    <2> DEFINE e == Head(b)
    <2>1. ~ Bell(b, 1) /\ e.n = Num(b, 1)
      BY <1>3, <1>5 DEF Bell, Num
    <2>2. e \in Message
      BY <1>3, <1>5 DEF Announcement
    <2>3. Num(b, 1) = c + R + 1
      BY <1>3, <2>1
    <2>4. Numbered(Append(r, e), c) /\ Len(Append(r, e)) = R + 1
      BY <1>1, <2>1, <2>2, <2>3, NumberedAppend
    <2>5. c + (R + 1) = c + R + 1
      BY <1>1
    <2> HIDE DEF e, R
    <2>6. Pending(Tail(b), c + Len(Append(r, e)), t) /\ c + Len(Append(r, e)) <= t
      BY <1>3, <2>3, <2>4, <2>5
    <2>7. LaneOK(Append(r, e), Tail(b), t, f, g, k, c)
      BY <2>4, <2>6, Zenon DEF LaneOK
    <2> QED
      BY <1>3, <2>1, <2>7 DEF e
  <1> QED
    BY <1>4, <1>5

\* drain_inbound takes a message.
LEMMA LaneTake ==
    ASSUME NEW r, NEW b, NEW t, NEW f, NEW g, NEW k, NEW c,
           LaneOK(r, b, t, f, g, k, c), r # <<>>
    PROVE  /\ LaneOK(Tail(r), b, t, f + 1, g, k, c + 1)
           /\ Head(r).kind \in Kind
  <1> DEFINE R == Len(r)
             nr == Tail(r)
  <1>1. r \in Seq(Message) /\ R \in Nat /\ R # 0 /\ c \in Nat /\ t \in Nat /\ f \in Nat
    BY DEF LaneOK, Numbered
  <1>2. nr \in Seq(Message) /\ Len(nr) = R - 1 /\ Head(r) \in Message
    BY <1>1, HeadTailProperties
  <1>3. \A i \in 1 .. (R - 1) : nr[i] = r[i + 1]
    BY <1>1, <1>2, HeadTailProperties
  <1>4. \A i \in 1 .. R : r[i].n = c + i
    BY DEF LaneOK, Numbered, Num
  <1> HIDE DEF R, nr
  <1>5. ASSUME NEW i \in 1 .. (R - 1) PROVE Num(nr, i) = (c + 1) + i
    <2>1. i + 1 \in 1 .. R
      BY <1>1
    <2>2. nr[i].n = c + (i + 1)
      BY <1>3, <1>4, <2>1
    <2> QED
      BY <1>1, <2>2 DEF Num
  <1>6. Numbered(nr, c + 1)
    BY <1>2, <1>5 DEF Numbered
  <1>7. Pending(b, c + R, t) /\ c + R <= t /\ t - (c - f) <= RingCap
    BY DEF LaneOK, R
  <1>8. (c + 1) + (R - 1) = c + R /\ (c + 1) - (f + 1) = c - f /\ c + 1 \in Nat /\ f + 1 \in Nat
    BY <1>1
  <1>9. Pending(b, (c + 1) + Len(nr), t) /\ (c + 1) + Len(nr) <= t /\ t - ((c + 1) - (f + 1)) <= RingCap
    BY <1>2, <1>7, <1>8
  <1>10. LaneOK(nr, b, t, f + 1, g, k, c + 1)
    BY <1>6, <1>8, <1>9, Zenon DEF LaneOK
  <1> QED
    BY <1>2, <1>10 DEF Message, nr

\* The producer sees the pops of its consumer.
LEMMA LaneFreed ==
    ASSUME NEW r, NEW b, NEW t, NEW f, NEW g, NEW k, NEW c, LaneOK(r, b, t, f, g, k, c)
    PROVE  LaneOK(r, b, t, 0, g, k, c)
  <1>1. 0 \in Nat /\ t - (c - 0) <= RingCap
    BY WakeAssumption DEF LaneOK
  <1> QED
    BY <1>1, Zenon DEF LaneOK

\* What lies in a ring and what has been freed fit together.
LEMMA LaneBounds ==
    ASSUME NEW r, NEW b, NEW t, NEW f, NEW g, NEW k, NEW c, LaneOK(r, b, t, f, g, k, c)
    PROVE  /\ f \in 0 .. RingCap
           /\ RingCap - (t - (c - f)) \in Nat
           /\ Len(g) \in Nat /\ Len(r) + f <= RingCap
  <1>1. /\ Len(r) \in Nat /\ Len(g) \in Nat /\ t \in Nat /\ f \in Nat /\ c \in Nat
        /\ c + Len(r) <= t /\ t - (c - f) <= RingCap
    BY DEF LaneOK, Numbered
  <1> QED
    BY <1>1, WakeAssumption

-----------------------------------------------------------------------------
\* What the shared parts of the actions do to the lanes.

\* A pair is two different shards, in order.
LEMMA PairFacts ==
    /\ \A s, d \in Shard : s # d => <<s, d>> \in Pair
    /\ \A p \in Pair : p[1] \in Shard /\ p[2] \in Shard /\ p[1] # p[2] /\ p = <<p[1], p[2]>>
  BY DEF Pair

\* send_to changes the lane to its target, keeps it in order, and no other.
LEMMA SendToEffect ==
    ASSUME LaneInv, ShardType, NEW s \in Shard, NEW d \in Shard, s # d, NEW kind \in Kind,
           SendTo(s, d, kind)
    PROVE  LET p == <<s, d>>
           IN  /\ LaneOK(ring[p], buf'[p], tail'[p], freed[p], backlog'[p], sent'[p], rcvd[p])
               /\ Lanes(buf') /\ Lanes(tail') /\ Lanes(backlog') /\ Lanes(sent')
               /\ \A q \in Pair : q # p => /\ buf'[q] = buf[q] /\ tail'[q] = tail[q]
                                           /\ backlog'[q] = backlog[q] /\ sent'[q] = sent[q]
               /\ buf'[p] # <<>>
               /\ owes' = [owes EXCEPT ![s] = @ \cup {d}]
  <1> DEFINE p == <<s, d>>
             m == [kind |-> kind, n |-> sent[p] + 1]
  <1>1. p \in Pair
    BY PairFacts
  <1>2. LaneOK(ring[p], buf[p], tail[p], freed[p], backlog[p], sent[p], rcvd[p])
    BY <1>1 DEF LaneInv
  <1>3. /\ buf' = [buf EXCEPT ![p] = buf[p] \o Stores(p, m)]
        /\ tail' = [tail EXCEPT ![p] = IF Spills(p) THEN tail[p] ELSE tail[p] + 1]
        /\ backlog' = [backlog EXCEPT ![p] = IF Spills(p) THEN Append(backlog[p], m) ELSE backlog[p]]
        /\ sent' = [sent EXCEPT ![p] = sent[p] + 1]
    BY DEF SendTo
  <1>4. Lanes(buf) /\ Lanes(tail) /\ Lanes(backlog) /\ Lanes(sent)
    BY DEF LaneInv
  <1> HIDE DEF p, m
  <1> DEFINE nb == buf[p] \o Stores(p, m)
             nt == IF Spills(p) THEN tail[p] ELSE tail[p] + 1
             ng == IF Spills(p) THEN Append(backlog[p], m) ELSE backlog[p]
             nk == sent[p] + 1
  <1>5. Lanes(buf') /\ buf'[p] = nb /\ \A q \in Pair : q # p => buf'[q] = buf[q]
    <2>1. buf' = [buf EXCEPT ![p] = nb]
      BY <1>3
    <2> HIDE DEF nb
    <2> QED
      BY <1>1, <1>4, <2>1 DEF Lanes
  <1>6. Lanes(tail') /\ tail'[p] = nt /\ \A q \in Pair : q # p => tail'[q] = tail[q]
    <2>1. tail' = [tail EXCEPT ![p] = nt]
      BY <1>3
    <2> HIDE DEF nt
    <2> QED
      BY <1>1, <1>4, <2>1 DEF Lanes
  <1>7. Lanes(backlog') /\ backlog'[p] = ng /\ \A q \in Pair : q # p => backlog'[q] = backlog[q]
    <2>1. backlog' = [backlog EXCEPT ![p] = ng]
      BY <1>3
    <2> HIDE DEF ng
    <2> QED
      BY <1>1, <1>4, <2>1 DEF Lanes
  <1>8. Lanes(sent') /\ sent'[p] = nk /\ \A q \in Pair : q # p => sent'[q] = sent[q]
    <2>1. sent' = [sent EXCEPT ![p] = nk]
      BY <1>3
    <2> HIDE DEF nk
    <2> QED
      BY <1>1, <1>4, <2>1 DEF Lanes
  <1>9. LaneOK(ring[p], buf'[p], tail'[p], freed[p], backlog'[p], sent'[p], rcvd[p]) /\ buf'[p] # <<>>
    <2>1. CASE Spills(p)
      <3>1. Stores(p, m) = <<Announce(tail[p])>>
        BY <2>1 DEF Stores
      <3>2. LaneOK(ring[p], buf[p] \o <<Announce(tail[p])>>, tail[p], freed[p],
                   Append(backlog[p], m), sent[p] + 1, rcvd[p])
        BY <1>2, LaneSpill DEF m
      <3>3. LaneOK(ring[p], buf'[p], tail'[p], freed[p], backlog'[p], sent'[p], rcvd[p])
        BY <1>5, <1>6, <1>7, <1>8, <2>1, <3>1, <3>2, Zenon
      <3>4. buf[p] \in Seq(Message \cup Announcement) /\ tail[p] \in Nat
        BY <1>2 DEF LaneOK, Pending
      <3>5. buf[p] \o <<Announce(tail[p])>> # <<>>
        BY <3>4
      <3> QED
        BY <1>5, <3>1, <3>3, <3>5
    <2>2. CASE ~ Spills(p)
      <3>1. Stores(p, m) = <<m, Announce(sent[p] + 1)>>
        BY <2>2 DEF Stores, m
      <3>2. backlog[p] = <<>> /\ RingCap - (tail[p] - (rcvd[p] - freed[p])) # 0
        BY <2>2 DEF Spills, Room
      <3>3. LaneOK(ring[p], buf[p] \o <<m, Announce(sent[p] + 1)>>, tail[p] + 1, freed[p],
                   backlog[p], sent[p] + 1, rcvd[p])
        BY <1>2, <3>2, LanePush DEF m
      <3>4. LaneOK(ring[p], buf'[p], tail'[p], freed[p], backlog'[p], sent'[p], rcvd[p])
        BY <1>5, <1>6, <1>7, <1>8, <2>2, <3>1, <3>3, Zenon
      <3>5. buf[p] \in Seq(Message \cup Announcement)
        BY <1>2 DEF LaneOK, Pending
      <3>6. buf[p] \o <<m, Announce(sent[p] + 1)>> # <<>>
        BY <3>5
      <3> QED
        BY <1>5, <3>1, <3>4, <3>6
    <2> QED
      BY <2>1, <2>2
  <1>10. owes' = [owes EXCEPT ![s] = @ \cup {d}]
    BY DEF SendTo
  <1> QED
    BY <1>5, <1>6, <1>7, <1>8, <1>9, <1>10, Zenon DEF p

\* flush_backlog keeps every lane of its shard in order and changes no other.
LEMMA FlushBacklogEffect ==
    ASSUME LaneInv, ShardType, NEW s \in Shard, FlushBacklog(s)
    PROVE  /\ Lanes(buf') /\ Lanes(tail') /\ Lanes(backlog')
           /\ \A p \in Pair :
                  LaneOK(ring[p], buf'[p], tail'[p], freed[p], backlog'[p], sent[p], rcvd[p])
           /\ \A p \in Pair : p[1] # s => backlog'[p] = backlog[p] /\ buf'[p] = buf[p]
           /\ \A p \in Pair : buf[p] # <<>> => buf'[p] # <<>>
           /\ \A d \in Shard : d # s /\ buf'[<<s, d>>] # <<>> =>
                  buf[<<s, d>>] # <<>> \/ d \in owes'[s]
           /\ owes' \in [Shard -> SUBSET Shard]
           /\ owes[s] \subseteq owes'[s]
           /\ \A q \in Shard : q # s => owes'[q] = owes[q]
  <1>1. /\ buf' = [p \in Pair |-> IF p[1] = s THEN buf[p] \o Reannounced(p) ELSE buf[p]]
        /\ tail' = [p \in Pair |-> IF p[1] = s THEN tail[p] + Len(Landing(p)) ELSE tail[p]]
        /\ backlog' = [p \in Pair |-> IF p[1] = s THEN Remaining(p) ELSE backlog[p]]
        /\ owes' = [owes EXCEPT ![s] = @ \cup {d \in Shard \ {s} : Landing(<<s, d>>) # <<>>}]
    BY DEF FlushBacklog
  <1>2. Lanes(buf') /\ Lanes(tail') /\ Lanes(backlog')
    BY <1>1 DEF Lanes
  <1>3. /\ owes' \in [Shard -> SUBSET Shard] /\ owes[s] \subseteq owes'[s]
        /\ \A q \in Shard : q # s => owes'[q] = owes[q]
        /\ \A d \in Shard : d # s /\ Landing(<<s, d>>) # <<>> => d \in owes'[s]
    BY <1>1 DEF ShardType
  <1>4. ASSUME NEW p \in Pair
        PROVE  /\ LaneOK(ring[p], buf'[p], tail'[p], freed[p], backlog'[p], sent[p], rcvd[p])
               /\ buf[p] # <<>> => buf'[p] # <<>>
               /\ p[1] # s => backlog'[p] = backlog[p] /\ buf'[p] = buf[p]
               /\ buf'[p] # <<>> => buf[p] # <<>> \/ Landing(p) # <<>>
    <2>1. LaneOK(ring[p], buf[p], tail[p], freed[p], backlog[p], sent[p], rcvd[p])
      BY DEF LaneInv
    <2>2. CASE p[1] # s
      <3>1. buf'[p] = buf[p] /\ tail'[p] = tail[p] /\ backlog'[p] = backlog[p]
        BY <1>1, <2>2
      <3> QED
        BY <2>1, <2>2, <3>1
    <2>3. CASE p[1] = s
      <3> DEFINE g == backlog[p]
                 h == IF Len(g) < Room(p) THEN Len(g) ELSE Room(p)
      <3>1. g \in Seq(Message) /\ buf[p] \in Seq(Message \cup Announcement) /\ tail[p] \in Nat
        BY ZenonT(30), <2>1 DEF LaneOK, Numbered, Pending
      <3>2. Len(g) \in Nat /\ Room(p) \in Nat
        BY <2>1, LaneBounds DEF Room
      <3>3. h \in 0 .. Len(g) /\ h <= Room(p)
        BY <3>2
      <3>4. Landing(p) = SubSeq(g, 1, h)
        BY DEF Landing
      <3> HIDE DEF h
      <3>5. Len(Landing(p)) = h /\ Landing(p) \in Seq(Message)
        BY <3>1, <3>3, <3>4
      <3>6. Remaining(p) = SubSeq(g, h + 1, Len(g))
        BY <3>5 DEF Remaining
      <3>7. buf'[p] = buf[p] \o Reannounced(p) /\ tail'[p] = tail[p] + h /\ backlog'[p] = Remaining(p)
        BY <1>1, <2>3, <3>5
      <3>8. CASE h = 0
        <4>1. Landing(p) = <<>> /\ Reannounced(p) = <<>>
          BY <3>5, <3>8 DEF Reannounced
        <4>2. buf'[p] = buf[p]
          BY <3>1, <3>7, <4>1, ConcatEmptySeq
        <4>3. Remaining(p) = g
          BY <3>1, <3>6, <3>8, SubSeqFull
        <4>4. tail'[p] = tail[p]
          BY <3>1, <3>7, <3>8
        <4> QED
          BY ZenonT(30), <2>1, <2>3, <3>7, <4>2, <4>3, <4>4
      <3>9. CASE h # 0
        <4>1. Landing(p) # <<>>
          BY <3>5, <3>9
        <4>2. Reannounced(p) = Append(SubSeq(g, 1, h), Announce(tail[p] + h))
          BY <3>4, <3>5, <4>1 DEF Reannounced
        <4>3. h <= RingCap - (tail[p] - (rcvd[p] - freed[p]))
          BY <3>3 DEF Room
        <4>4. LaneOK(ring[p], buf[p] \o Append(SubSeq(g, 1, h), Announce(tail[p] + h)), tail[p] + h,
                     freed[p], SubSeq(g, h + 1, Len(g)), sent[p], rcvd[p])
          BY <2>1, <3>3, <4>3, LaneLand
        <4>5. LaneOK(ring[p], buf'[p], tail'[p], freed[p], backlog'[p], sent[p], rcvd[p])
          BY <3>6, <3>7, <4>2, <4>4, Zenon
        <4>6. Append(Landing(p), Announce(tail[p] + h)) \in Seq(Message \cup Announcement)
          <5>1. Announce(tail[p] + h) \in Announcement
            BY <3>1, <3>3 DEF Announce, Announcement
          <5> QED
            BY <3>5, <5>1
        <4>7. Reannounced(p) \in Seq(Message \cup Announcement)
          BY <3>4, <4>2, <4>6
        <4>8. buf[p] # <<>> => buf'[p] # <<>>
          BY <3>1, <3>7, <4>7, ConcatEqualIffEmpty
        <4> QED
          BY <2>3, <4>1, <4>5, <4>8
      <3> QED
        BY <3>8, <3>9
    <2> QED
      BY <2>2, <2>3
  <1>5. ASSUME NEW d \in Shard, d # s, buf'[<<s, d>>] # <<>>
        PROVE  buf[<<s, d>>] # <<>> \/ d \in owes'[s]
    <2>1. <<s, d>> \in Pair
      BY <1>5, PairFacts
    <2> QED
      BY <1>3, <1>4, <1>5, <2>1
  <1> QED
    BY <1>2, <1>3, <1>4, <1>5, Zenon

\* What the lanes' part of the invariant says of one lane, spelt out.
LEMMA LaneOrder ==
    ASSUME LaneInv, NEW p \in Pair
    PROVE  /\ ring[p] \in Seq(Message) /\ buf[p] \in Seq(Message \cup Announcement)
           /\ backlog[p] \in Seq(Message)
           /\ tail[p] \in Nat /\ sent[p] \in Nat /\ rcvd[p] \in Nat
           /\ freed[p] \in 0 .. RingCap
           /\ \A i \in 1 .. Len(ring[p]) : ring[p][i].n = rcvd[p] + i
           /\ \A i \in 1 .. Len(buf[p]) :
                  buf[p][i].n = Before(p, i) + (IF buf[p][i].kind = "announce" THEN 0 ELSE 1)
           /\ tail[p] = Before(p, Len(buf[p]) + 1)
           /\ \A i \in 1 .. Len(backlog[p]) : backlog[p][i].n = tail[p] + i
           /\ sent[p] = tail[p] + Len(backlog[p])
           /\ buf[p] # <<>> => buf[p][Len(buf[p])].kind = "announce"
  <1> DEFINE r == ring[p]
             b == buf[p]
             t == tail[p]
             f == freed[p]
             g == backlog[p]
             k == sent[p]
             c == rcvd[p]
             z == c + Len(r)
             L == Len(b)
  <1>1. LaneOK(r, b, t, f, g, k, c)
    BY DEF LaneInv
  <1>2. /\ t \in Nat /\ f \in Nat /\ k \in Nat /\ c \in Nat
        /\ Numbered(r, c) /\ Pending(b, z, t) /\ Numbered(g, t) /\ k = t + Len(g)
    BY <1>1 DEF LaneOK
  <1>3. f \in 0 .. RingCap
    BY <1>1, LaneBounds
  <1>4. r \in Seq(Message) /\ \A i \in 1 .. Len(r) : r[i].n = c + i
    BY <1>2 DEF Numbered, Num
  <1>5. g \in Seq(Message) /\ \A i \in 1 .. Len(g) : g[i].n = t + i
    BY <1>2 DEF Numbered, Num
  <1>6. /\ b \in Seq(Message \cup Announcement)
        /\ \A i \in 1 .. L :
              b[i].n = (IF i = 1 THEN z ELSE b[i - 1].n)
                       + (IF b[i].kind = "announce" THEN 0 ELSE 1)
        /\ L = 0 => t = z
        /\ L # 0 => t = b[L].n /\ b[L].kind = "announce"
    BY <1>2 DEF Pending, Num, Bell
  <1>7. L \in Nat /\ (b # <<>> => L # 0)
    BY <1>6, EmptySeq, LenProperties
  <1> HIDE DEF L
  <1>8. \A i : Before(p, i) = IF i = 1 THEN z ELSE b[i - 1].n
    BY DEF Before
  <1>9. t = Before(p, L + 1)
    <2>1. CASE L = 0
      BY <1>6, <1>8, <2>1
    <2>2. CASE L # 0
      <3>1. L + 1 # 1 /\ (L + 1) - 1 = L
        BY <1>7, <2>2
      <3>2. Before(p, L + 1) = b[L].n
        BY <1>8, <3>1
      <3> QED
        BY <1>6, <2>2, <3>2
    <2> QED
      BY <2>1, <2>2
  <1>10. \A i \in 1 .. L : b[i].n = Before(p, i) + (IF b[i].kind = "announce" THEN 0 ELSE 1)
    BY <1>6, <1>8
  <1>11. b # <<>> => b[L].kind = "announce"
    BY <1>6, <1>7
  <1> QED
    BY <1>2, <1>3, <1>4, <1>5, <1>6, <1>9, <1>10, <1>11 DEF L

-----------------------------------------------------------------------------
\* The whole protocol.

\* The wake of shard d by shard s is due or done.
Coming(s, d) == waker[d] \/ d \in owes[s] \/ d \in scan[s]

\* What a shard's place in its loop says of its mask, its wake scan and its flag.
LoopInv ==
    \A s \in Shard :
        /\ pc[s] \notin {"parkdrain", "drain"} => todo[s] = {}
        /\ pc[s] \in {"wakescan", "unparkscan"} <=> scan[s] # {}
        /\ pc[s] \in {"publish", "recheck", "parkdrain", "wait"} => flag[s]
        /\ pc[s] \in {"recheck", "parkdrain", "wait"} => parked[s]

\* The wakes of d by s.
WakeOK(s, d) ==
    /\ buf[<<s, d>>] # <<>> => d \in owes[s]
    /\ ring[<<s, d>>] # <<>> => s \in dirty[d] \/ s \in todo[d] \/ buf[<<s, d>>] # <<>>
    /\ pc[d] = "parkdrain" /\ ~ did[d] /\ s \in dirty[d] => Coming(s, d)
    /\ pc[d] = "wait" /\ ring[<<s, d>>] # <<>> => Coming(s, d)

WakeInv == \A s, d \in Shard : s # d => WakeOK(s, d)

\* Nothing to re-push and no request counted as unanswered.
Quiet(s) == inflight[s] = 0 /\ \A d \in Shard \ {s} : backlog[<<s, d>>] = <<>>

\* idle_spins reaches its limit only in quiet iterations, and nothing undoes
\* that on the way to the blocking wait.
QuietInv ==
    SpinLimit # 0 =>
        \A s \in Shard :
            /\ pc[s] \in {"publish", "recheck", "parkdrain", "wait"} => idle[s] = SpinLimit
            /\ pc[s] \in {"unpark", "unparkscan"} => idle[s] = 0
            /\ idle[s] = SpinLimit /\ (\/ pc[s] \in {"top", "publish", "recheck", "wait"}
                                       \/ pc[s] = "parkdrain" /\ ~ did[s]) => Quiet(s)

\* The inductive invariant.
Inv == LaneInv /\ ShardType /\ LoopInv /\ WakeInv /\ QuietInv

-----------------------------------------------------------------------------
\* What the steps have in common.

lanes == <<ring, buf, tail, freed, backlog, sent, rcvd>>

\* A step that leaves the lanes alone.
LEMMA LanesStay ==
    ASSUME LaneInv, UNCHANGED lanes
    PROVE  LaneInv'
  <1>1. UNCHANGED <<ring, buf, tail, freed, backlog, sent, rcvd>>
    BY DEF lanes
  <1> QED
    BY <1>1 DEF LaneInv

\* A message sent by a step that takes none.
LEMMA SendLanes ==
    ASSUME LaneInv, ShardType, NEW s \in Shard, NEW d \in Shard, s # d, NEW kind \in Kind,
           SendTo(s, d, kind), UNCHANGED <<ring, freed, rcvd>>
    PROVE  LaneInv'
  <1> DEFINE p == <<s, d>>
  <1>1. /\ LaneOK(ring[p], buf'[p], tail'[p], freed[p], backlog'[p], sent'[p], rcvd[p])
        /\ Lanes(buf') /\ Lanes(tail') /\ Lanes(backlog') /\ Lanes(sent')
        /\ \A q \in Pair : q # p => /\ buf'[q] = buf[q] /\ tail'[q] = tail[q]
                                    /\ backlog'[q] = backlog[q] /\ sent'[q] = sent[q]
    BY SendToEffect, Zenon
  <1> HIDE DEF p
  <1>2. ASSUME NEW q \in Pair
        PROVE  LaneOK(ring[q], buf'[q], tail'[q], freed[q], backlog'[q], sent'[q], rcvd[q])
    <2>1. CASE q = p
      BY ZenonT(30), <1>1, <2>1
    <2>2. CASE q # p
      BY <1>1, <2>2 DEF LaneInv
    <2> QED
      BY ZenonT(30), <2>1, <2>2
  <1> QED
    BY <1>1, <1>2 DEF LaneInv

\* The pairs a send leaves alone, and the one it does not.
LEMMA SendWake ==
    ASSUME LaneInv, ShardType, NEW s \in Shard, NEW d \in Shard, s # d, NEW kind \in Kind,
           SendTo(s, d, kind)
    PROVE  /\ buf'[<<s, d>>] # <<>> /\ d \in owes'[s]
           /\ \A a, e \in Shard : a # e /\ ~ (a = s /\ e = d) => buf'[<<a, e>>] = buf[<<a, e>>]
           /\ \A a, e \in Shard : a # e /\ a # s => backlog'[<<a, e>>] = backlog[<<a, e>>]
           /\ owes' \in [Shard -> SUBSET Shard]
           /\ \A q \in Shard : owes[q] \subseteq owes'[q]
  <1> DEFINE p == <<s, d>>
  <1>1. /\ \A q \in Pair : q # p => buf'[q] = buf[q] /\ backlog'[q] = backlog[q]
        /\ buf'[p] # <<>>
        /\ owes' = [owes EXCEPT ![s] = @ \cup {d}]
    BY SendToEffect, Zenon
  <1>2. \A a, e \in Shard : a # e => <<a, e>> \in Pair
    BY PairFacts
  <1>3. \A a, e : <<a, e>> = p <=> a = s /\ e = d
    OBVIOUS
  <1> HIDE DEF p
  <1>4. owes' \in [Shard -> SUBSET Shard] /\ d \in owes'[s] /\ \A q \in Shard : owes[q] \subseteq owes'[q]
    BY ZenonT(30), <1>1 DEF ShardType
  <1> QED
    BY <1>1, <1>2, <1>3, <1>4 DEF p

\* A flush of the backlogs by a step that takes no message.
LEMMA FlushLanes ==
    ASSUME LaneInv, ShardType, NEW s \in Shard, FlushBacklog(s),
           UNCHANGED <<ring, freed, sent, rcvd>>
    PROVE  LaneInv'
  <1>1. /\ Lanes(buf') /\ Lanes(tail') /\ Lanes(backlog')
        /\ \A p \in Pair :
               LaneOK(ring[p], buf'[p], tail'[p], freed[p], backlog'[p], sent[p], rcvd[p])
    BY FlushBacklogEffect
  <1> QED
    BY <1>1 DEF LaneInv

\* What a flush pushes is owed a wake, and what was pending stays so.
LEMMA FlushWake ==
    ASSUME LaneInv, ShardType, NEW s \in Shard, FlushBacklog(s)
    PROVE  /\ \A a, e \in Shard : a # e /\ a # s => /\ buf'[<<a, e>>] = buf[<<a, e>>]
                                                    /\ backlog'[<<a, e>>] = backlog[<<a, e>>]
           /\ \A a, e \in Shard : a # e /\ buf[<<a, e>>] # <<>> => buf'[<<a, e>>] # <<>>
           /\ \A e \in Shard : e # s /\ buf'[<<s, e>>] # <<>> => buf[<<s, e>>] # <<>> \/ e \in owes'[s]
           /\ owes' \in [Shard -> SUBSET Shard]
           /\ \A q \in Shard : owes[q] \subseteq owes'[q]
  <1>1. /\ \A p \in Pair : p[1] # s => backlog'[p] = backlog[p] /\ buf'[p] = buf[p]
        /\ \A p \in Pair : buf[p] # <<>> => buf'[p] # <<>>
    BY ZenonT(30), FlushBacklogEffect
  <1>2. /\ \A e \in Shard : e # s /\ buf'[<<s, e>>] # <<>> => buf[<<s, e>>] # <<>> \/ e \in owes'[s]
        /\ owes' \in [Shard -> SUBSET Shard]
        /\ owes[s] \subseteq owes'[s]
        /\ \A q \in Shard : q # s => owes'[q] = owes[q]
    BY ZenonT(30), FlushBacklogEffect
  <1>3. \A a, e \in Shard : a # e => <<a, e>> \in Pair /\ <<a, e>>[1] = a
    BY PairFacts
  <1>4. ASSUME NEW a \in Shard, NEW e \in Shard, a # e, a # s
        PROVE  buf'[<<a, e>>] = buf[<<a, e>>] /\ backlog'[<<a, e>>] = backlog[<<a, e>>]
    BY <1>1, <1>3, <1>4
  <1>5. ASSUME NEW a \in Shard, NEW e \in Shard, a # e, buf[<<a, e>>] # <<>>
        PROVE  buf'[<<a, e>>] # <<>>
    BY <1>1, <1>3, <1>5
  <1>6. \A q \in Shard : owes[q] \subseteq owes'[q]
    BY <1>2
  <1> QED
    BY <1>2, <1>4, <1>5, <1>6

-----------------------------------------------------------------------------
\* The steps that keep the invariant, in the order of the loop.

\* Shards start with empty lanes, at the top of their loop.
LEMMA InitInv == Init => Inv
  <1> SUFFICES ASSUME Init PROVE Inv
    OBVIOUS
  <1> USE DEF Init
  <1>1. Lanes(ring) /\ Lanes(buf) /\ Lanes(tail) /\ Lanes(freed) /\ Lanes(backlog) /\ Lanes(sent) /\ Lanes(rcvd)
    BY DEF Lanes
  <1>2. LaneOK(<<>>, <<>>, 0, 0, <<>>, 0, 0)
    BY WakeAssumption DEF LaneOK, Numbered, Pending
  <1>3. LaneInv
    <2>1. ASSUME NEW p \in Pair
          PROVE  LaneOK(ring[p], buf[p], tail[p], freed[p], backlog[p], sent[p], rcvd[p])
      <3>1. ring[p] = <<>> /\ buf[p] = <<>> /\ tail[p] = 0 /\ freed[p] = 0 /\ backlog[p] = <<>> /\ sent[p] = 0 /\ rcvd[p] = 0
        OBVIOUS
      <3> QED
        BY <1>2, <3>1
    <2> QED
      BY <1>1, <2>1 DEF LaneInv
  <1>4. ShardType
    BY WakeAssumption DEF ShardType, Loop
  <1>5. LoopInv
    BY DEF LoopInv
  <1>6. WakeInv
    BY PairFacts DEF WakeInv, WakeOK
  <1>7. QuietInv
    BY PairFacts DEF QuietInv
  <1> QED
    BY <1>3, <1>4, <1>5, <1>6, <1>7 DEF Inv

\* A poll that reports no client clears the parked flag.
LEMMA PollInv ==
    ASSUME Inv, NEW s \in Shard, Poll(s)
    PROVE  Inv'
  <1> USE DEF Poll, Goto, channel, draining, clients
  <1>1. LaneInv'
    BY LanesStay DEF Inv, lanes
  <1>2. ShardType'
    BY DEF Inv, ShardType, Loop
  <1>3. LoopInv'
    BY DEF Inv, ShardType, LoopInv, PollReturns
  <1>4. WakeInv'
    BY DEF Inv, ShardType, WakeInv, WakeOK, Coming
  <1>5. QuietInv'
    BY DEF Inv, ShardType, QuietInv, Quiet
  <1> QED
    BY <1>1, <1>2, <1>3, <1>4, <1>5 DEF Inv

\* publish_parked stores the flag after enough idle iterations, which were quiet.
LEMMA PublishParkedInv ==
    ASSUME Inv, NEW s \in Shard, PublishParked(s)
    PROVE  Inv'
  <1> USE DEF PublishParked, Goto, channel, draining, clients
  <1>1. LaneInv'
    BY ZenonT(30), LanesStay DEF Inv, lanes
  <1>2. ShardType'
    BY DEF Inv, ShardType, Loop
  <1>3. LoopInv'
    BY DEF Inv, ShardType, LoopInv
  <1>4. WakeInv'
    BY DEF Inv, ShardType, WakeInv, WakeOK, Coming
  <1>5. QuietInv'
    BY DEF Inv, ShardType, QuietInv, Quiet
  <1> QED
    BY ZenonT(30), <1>1, <1>2, <1>3, <1>4, <1>5 DEF Inv

\* The fence after it waits until the flag and every store are visible.
LEMMA PublishFenceInv ==
    ASSUME Inv, NEW s \in Shard, PublishFence(s)
    PROVE  Inv'
  <1> USE DEF PublishFence, FenceBeforeDrain, Fence, Goto, channel, draining, parking, clients
  <1>1. LaneInv'
    BY ZenonT(30), LanesStay DEF Inv, lanes
  <1>2. ShardType'
    BY ZenonT(30) DEF Inv, ShardType, Loop
  <1>3. LoopInv'
    BY ZenonT(30) DEF Inv, ShardType, LoopInv
  <1>4. WakeInv'
    BY ZenonT(30) DEF Inv, ShardType, WakeInv, WakeOK, Coming
  <1>5. QuietInv'
    BY DEF Inv, ShardType, QuietInv, Quiet
  <1> QED
    BY ZenonT(30), <1>1, <1>2, <1>3, <1>4, <1>5 DEF Inv

\* The recheck swaps the bitmap to zero: what was in it is in the mask now.
LEMMA RecheckInv ==
    ASSUME Inv, NEW s \in Shard, Recheck(s)
    PROVE  Inv'
  <1> USE DEF Recheck, DrainInbound, Goto, channel, draining, parking, clients
  <1>1. LaneInv'
    BY LanesStay DEF Inv, lanes
  <1>2. ShardType'
    BY WakeAssumption DEF Inv, ShardType, Loop
  <1>3. LoopInv'
    BY DEF Inv, ShardType, LoopInv
  <1>4. WakeInv'
    <2>1. todo[s] = {}
      BY ZenonT(30) DEF Inv, LoopInv
    <2>2. ASSUME NEW a \in Shard, NEW d \in Shard, a # d PROVE WakeOK(a, d)'
      <3>1. WakeOK(a, d)
        BY <2>2 DEF Inv, WakeInv
      <3>2. CASE d = s
        BY ZenonT(30), <2>1, <3>1, <3>2 DEF Inv, ShardType, WakeOK, Coming
      <3>3. CASE d # s
        BY <3>1, <3>3 DEF Inv, ShardType, WakeOK, Coming
      <3> QED
        BY <3>2, <3>3
    <2> QED
      BY <2>2 DEF WakeInv
  <1>5. QuietInv'
    BY DEF Inv, ShardType, QuietInv, Quiet
  <1> QED
    BY <1>1, <1>2, <1>3, <1>4, <1>5 DEF Inv

\* A recheck that took nothing: a bit set since then has its wake coming.
LEMMA RecheckEmptyInv ==
    ASSUME Inv, NEW s \in Shard, RecheckEmpty(s)
    PROVE  Inv'
  <1> USE DEF RecheckEmpty, Goto, channel, draining, parking, clients
  <1>1. LaneInv'
    BY ZenonT(30), LanesStay DEF Inv, lanes
  <1>2. ShardType'
    BY DEF Inv, ShardType, Loop
  <1>3. LoopInv'
    BY DEF Inv, ShardType, LoopInv
  <1>4. WakeInv'
    <2>1. ASSUME NEW a \in Shard, NEW d \in Shard, a # d PROVE WakeOK(a, d)'
      <3>1. WakeOK(a, d)
        BY <2>1 DEF Inv, WakeInv
      <3>2. CASE d = s
        BY <3>1, <3>2 DEF Inv, ShardType, WakeOK, Coming
      <3>3. CASE d # s
        BY ZenonT(30), <3>1, <3>3 DEF Inv, ShardType, WakeOK, Coming
      <3> QED
        BY ZenonT(30), <3>2, <3>3
    <2> QED
      BY ZenonT(30), <2>1 DEF WakeInv
  <1>5. QuietInv'
    BY DEF Inv, ShardType, QuietInv, Quiet
  <1> QED
    BY ZenonT(30), <1>1, <1>2, <1>3, <1>4, <1>5 DEF Inv

\* The drain of an iteration swaps the bitmap in the same way.
LEMMA LookInv ==
    ASSUME Inv, NEW s \in Shard, Look(s)
    PROVE  Inv'
  <1> USE DEF Look, DrainInbound, Goto, channel, draining, parking, clients
  <1>1. LaneInv'
    BY LanesStay DEF Inv, lanes
  <1>2. ShardType'
    BY WakeAssumption DEF Inv, ShardType, Loop
  <1>3. LoopInv'
    BY DEF Inv, ShardType, LoopInv
  <1>4. WakeInv'
    <2>1. todo[s] = {}
      BY ZenonT(30) DEF Inv, LoopInv
    <2>2. ASSUME NEW a \in Shard, NEW d \in Shard, a # d PROVE WakeOK(a, d)'
      <3>1. WakeOK(a, d)
        BY <2>2 DEF Inv, WakeInv
      <3>2. CASE d = s
        BY ZenonT(30), <2>1, <3>1, <3>2 DEF Inv, ShardType, WakeOK, Coming
      <3>3. CASE d # s
        BY ZenonT(30), <3>1, <3>3 DEF Inv, ShardType, WakeOK, Coming
      <3> QED
        BY <3>2, <3>3
    <2> QED
      BY <2>2 DEF WakeInv
  <1>5. QuietInv'
    BY ZenonT(30) DEF Inv, ShardType, QuietInv, Quiet
  <1> QED
    BY <1>1, <1>2, <1>3, <1>4, <1>5 DEF Inv

\* The mask of the drain is used up.
LEMMA DrainEndInv ==
    ASSUME Inv, NEW s \in Shard, DrainEnd(s)
    PROVE  Inv'
  <1> USE DEF DrainEnd, Goto, channel, draining, parking, clients
  <1>1. LaneInv'
    BY ZenonT(30), LanesStay DEF Inv, lanes
  <1>2. ShardType'
    BY DEF Inv, ShardType, Loop
  <1>3. LoopInv'
    BY DEF Inv, ShardType, LoopInv
  <1>4. WakeInv'
    BY ZenonT(30) DEF Inv, ShardType, WakeInv, WakeOK, Coming
  <1>5. QuietInv'
    BY ZenonT(30) DEF Inv, ShardType, QuietInv, Quiet
  <1> QED
    BY ZenonT(30), <1>1, <1>2, <1>3, <1>4, <1>5 DEF Inv

\* flush_wakes with nobody to wake.
LEMMA NoWakesInv ==
    ASSUME Inv, NEW s \in Shard, NoWakes(s)
    PROVE  Inv'
  <1> USE DEF NoWakes, AfterWakes, Goto, channel, draining, parking, clients
  <1>1. LaneInv'
    BY ZenonT(30), LanesStay DEF Inv, lanes
  <1>2. ShardType'
    BY DEF Inv, ShardType, Loop
  <1>3. LoopInv'
    BY DEF Inv, ShardType, LoopInv
  <1>4. WakeInv'
    BY ZenonT(30) DEF Inv, ShardType, WakeInv, WakeOK, Coming
  <1>5. QuietInv'
    BY DEF Inv, ShardType, QuietInv, Quiet
  <1> QED
    BY ZenonT(30), <1>1, <1>2, <1>3, <1>4, <1>5 DEF Inv

\* flush_wakes takes the owed wakes over into its scan, behind its fence.
LEMMA FlushWakesInv ==
    ASSUME Inv, NEW s \in Shard, FlushWakes(s)
    PROVE  Inv'
  <1> USE DEF FlushWakes, FenceBeforeWakeScan, Fence, Goto, channel, draining, parking, clients
  <1>1. LaneInv'
    BY LanesStay DEF Inv, lanes
  <1>2. ShardType'
    BY DEF Inv, ShardType, Loop
  <1>3. LoopInv'
    BY ZenonT(30) DEF Inv, ShardType, LoopInv
  <1>4. WakeInv'
    <2>1. ASSUME NEW a \in Shard, NEW d \in Shard, a # d PROVE WakeOK(a, d)'
      <3>1. WakeOK(a, d)
        BY <2>1 DEF Inv, WakeInv
      <3>2. CASE a = s
        <4>1. buf[<<s, d>>] = <<>>
          BY ZenonT(30), <2>1, <3>2
        <4> QED
          BY ZenonT(30), <3>1, <3>2, <4>1 DEF Inv, ShardType, LoopInv, WakeOK, Coming
      <3>3. CASE a # s
        BY ZenonT(30), <3>1, <3>3 DEF Inv, ShardType, WakeOK, Coming
      <3> QED
        BY ZenonT(30), <3>2, <3>3
    <2> QED
      BY ZenonT(30), <2>1 DEF WakeInv
  <1>5. QuietInv'
    BY ZenonT(30) DEF Inv, ShardType, QuietInv, Quiet
  <1> QED
    BY <1>1, <1>2, <1>3, <1>4, <1>5 DEF Inv

\* The end of an iteration counts it as idle only if the shard is quiet.
LEMMA EndIterationInv ==
    ASSUME Inv, NEW s \in Shard, EndIteration(s)
    PROVE  Inv'
  <1> USE DEF EndIteration, IdleAfter, Goto, channel, draining, parking, clients
  <1>1. LaneInv'
    BY LanesStay DEF Inv, lanes
  <1>2. ShardType'
    <2>1. idle' \in [Shard -> 0 .. SpinLimit]
      BY WakeAssumption DEF Inv, ShardType
    <2>2. pc' \in [Shard -> Loop]
      BY DEF Inv, ShardType, Loop
    <2> QED
      BY ZenonT(30), <2>1, <2>2 DEF Inv, ShardType
  <1>3. LoopInv'
    BY ZenonT(30) DEF Inv, ShardType, LoopInv
  <1>4. WakeInv'
    BY ZenonT(30) DEF Inv, ShardType, WakeInv, WakeOK, Coming
  <1>5. QuietInv'
    <2>1. ASSUME SpinLimit # 0, NEW q \in Shard
          PROVE  /\ pc'[q] \in {"publish", "recheck", "parkdrain", "wait"} => idle'[q] = SpinLimit
                 /\ pc'[q] \in {"unpark", "unparkscan"} => idle'[q] = 0
                 /\ idle'[q] = SpinLimit /\ (\/ pc'[q] \in {"top", "publish", "recheck", "wait"}
                                             \/ pc'[q] = "parkdrain" /\ ~ did'[q]) => Quiet(q)'
      <3>1. CASE q = s
        <4>1. pc'[s] = "top"
          BY DEF Inv, ShardType
        <4>2. idle'[s] # 0 => Quiet(s)
          <5>1. idle'[s] # 0 => /\ \A d \in Shard \ {s} : backlog[<<s, d>>] = <<>>
                                /\ ~ (inflight[s] > 0)
            BY ZenonT(30) DEF Inv, ShardType
          <5>2. inflight[s] \in Nat
            BY DEF Inv, ShardType
          <5> HIDE DEF EndIteration
          <5>3. ~ (inflight[s] > 0) => inflight[s] = 0
            BY <5>2
          <5> QED
            BY <5>1, <5>3, Zenon DEF Quiet
        <4>3. Quiet(s)' = Quiet(s)
          BY ZenonT(30) DEF Quiet
        <4> HIDE DEF EndIteration
        <4>4. pc'[q] \notin {"publish", "recheck", "parkdrain", "wait", "unpark", "unparkscan"}
          BY <3>1, <4>1
        <4>5. idle'[q] = SpinLimit => Quiet(q)'
          BY <2>1, <3>1, <4>2, <4>3, Zenon
        <4> QED
          BY <4>4, <4>5, SMTT(20)
      <3>2. CASE q # s
        BY ZenonT(30), <2>1, <3>2 DEF Inv, ShardType, QuietInv, Quiet
      <3> QED
        BY ZenonT(30), <3>1, <3>2
    <2> QED
      BY <2>1 DEF QuietInv
  <1> QED
    BY <1>1, <1>2, <1>3, <1>4, <1>5 DEF Inv

\* The flag of a shard becomes visible.
LEMMA CommitFlagInv ==
    ASSUME Inv, NEW s \in Shard, CommitFlag(s)
    PROVE  Inv'
  <1> USE DEF CommitFlag, channel, draining, clients
  <1>1. LaneInv'
    BY ZenonT(30), LanesStay DEF Inv, lanes
  <1>2. ShardType'
    BY DEF Inv, ShardType, Loop
  <1>3. LoopInv'
    BY ZenonT(30) DEF Inv, ShardType, LoopInv
  <1>4. WakeInv'
    BY ZenonT(30) DEF Inv, ShardType, WakeInv, WakeOK, Coming
  <1>5. QuietInv'
    BY ZenonT(30) DEF Inv, ShardType, QuietInv, Quiet
  <1> QED
    BY ZenonT(30), <1>1, <1>2, <1>3, <1>4, <1>5 DEF Inv

\* A source's ring is empty, so its bit may go.
LEMMA DrainNextInv ==
    ASSUME Inv, NEW s \in Shard, DrainNext(s)
    PROVE  Inv'
  <1>0. PICK src \in todo[s] :
        /\ pc[s] \in {"parkdrain", "drain"} /\ ring[<<src, s>>] = <<>>
        /\ todo' = [todo EXCEPT ![s] = @ \ {src}] /\ took' = [took EXCEPT ![s] = 0]
        /\ UNCHANGED <<pc, idle, channel, rcvd, did, scan, parking, inflight, clients>>
    BY ZenonT(30) DEF DrainNext, Lowest
  <1>1. src \in todo[s]
    OBVIOUS
  <1> USE DEF channel, parking, clients
  <1>2. LaneInv'
    BY ZenonT(30), <1>0, <1>1, LanesStay DEF Inv, lanes
  <1>3. ShardType'
    <2>1. took' \in [Shard -> 0 .. (DrainBudget - 1)]
      BY <1>0, WakeAssumption DEF Inv, ShardType
    <2>2. todo' \in [Shard -> SUBSET Shard] /\ \A q \in Shard : todo'[q] \subseteq todo[q]
      BY <1>0 DEF Inv, ShardType
    <2> QED
      BY ZenonT(30), <1>0, <2>1, <2>2 DEF Inv, ShardType
  <1>4. LoopInv'
    BY ZenonT(30), <1>0, <1>1 DEF Inv, ShardType, LoopInv
  <1>5. WakeInv'
    BY ZenonT(30), <1>0, <1>1 DEF Inv, ShardType, WakeInv, WakeOK, Coming
  <1>6. QuietInv'
    BY ZenonT(30), <1>0, <1>1 DEF Inv, ShardType, QuietInv, Quiet
  <1> QED
    BY <1>2, <1>3, <1>4, <1>5, <1>6 DEF Inv

\* One turn of the scan: a peer that blocks is seen parked, so it is woken.
LEMMA WakePeerInv ==
    ASSUME Inv, NEW s \in Shard, WakePeer(s)
    PROVE  Inv'
  <1>0. PICK e \in scan[s] :
        /\ pc[s] \in {"wakescan", "unparkscan"}
        /\ waker' = [waker EXCEPT ![e] = @ \/ parked[e]]
        /\ scan' = [scan EXCEPT ![s] = @ \ {e}]
        /\ pc' = [pc EXCEPT ![s] = IF scan[s] = {e} THEN AfterWakes(s) ELSE pc[s]]
        /\ UNCHANGED <<idle, channel, draining, did, flag, parked, inflight, clients>>
    BY ZenonT(30) DEF WakePeer, Goto, Lowest
  <1>1. e \in scan[s] /\ e \in Shard
    BY DEF Inv, ShardType
  <1> USE DEF channel, draining, clients
  <1>2. LaneInv'
    BY <1>0, <1>1, LanesStay DEF Inv, lanes
  <1>3. ShardType'
    <2>1. waker' \in [Shard -> BOOLEAN]
      BY <1>0, <1>1 DEF Inv, ShardType
    <2>2. scan' \in [Shard -> SUBSET Shard]
      BY <1>0 DEF Inv, ShardType
    <2>3. pc' \in [Shard -> Loop]
      BY <1>0 DEF Inv, ShardType, Loop, AfterWakes
    <2> QED
      BY ZenonT(30), <1>0, <2>1, <2>2, <2>3 DEF Inv, ShardType
  <1>4. LoopInv'
    BY <1>0, <1>1 DEF Inv, ShardType, LoopInv, AfterWakes
  <1>5. WakeInv'
    <2>1. ASSUME NEW a \in Shard, NEW d \in Shard, a # d PROVE WakeOK(a, d)'
      <3>1. WakeOK(a, d)
        BY <2>1 DEF Inv, WakeInv
      <3>2. pc'[d] \in {"parkdrain", "wait"} => pc[d] = pc'[d] /\ parked[d]
        BY ZenonT(30), <1>0, <1>1 DEF Inv, ShardType, LoopInv, AfterWakes
      <3>3. pc'[d] \in {"parkdrain", "wait"} /\ Coming(a, d) => Coming(a, d)'
        BY <1>0, <1>1, <3>2 DEF Inv, ShardType, Coming
      <3> QED
        BY ZenonT(30), <1>0, <1>1, <3>1, <3>2, <3>3 DEF WakeOK
    <2> QED
      BY <2>1 DEF WakeInv
  <1>6. QuietInv'
    BY ZenonT(30), <1>0, <1>1 DEF Inv, ShardType, QuietInv, Quiet, AfterWakes
  <1> QED
    BY <1>2, <1>3, <1>4, <1>5, <1>6 DEF Inv

\* The pops of a receiver become visible to its sender.
LEMMA CommitFreedInv ==
    ASSUME Inv, NEW p \in Pair, CommitFreed(p)
    PROVE  Inv'
  <1>1. /\ freed' = [freed EXCEPT ![p] = 0]
        /\ UNCHANGED <<pc, idle, ring, buf, tail, backlog, dirty, owes, sent, todo, took, rcvd,
                       did, scan, flag, parked, waker, inflight, asked, noted>>
    BY DEF CommitFreed, draining, parking, clients
  <1>2. LaneInv'
    <2>1. Lanes(freed') /\ freed'[p] = 0 /\ \A q \in Pair : q # p => freed'[q] = freed[q]
      BY <1>1 DEF Inv, LaneInv, Lanes
    <2>2. ASSUME NEW q \in Pair
          PROVE  LaneOK(ring[q], buf[q], tail[q], freed'[q], backlog[q], sent[q], rcvd[q])
      <3>1. LaneOK(ring[q], buf[q], tail[q], freed[q], backlog[q], sent[q], rcvd[q])
        BY DEF Inv, LaneInv
      <3>2. CASE q = p
        BY ZenonT(30), <2>1, <3>1, <3>2, LaneFreed
      <3>3. CASE q # p
        BY ZenonT(30), <2>1, <3>1, <3>3
      <3> QED
        BY ZenonT(30), <3>2, <3>3
    <2> QED
      BY <1>1, <2>1, <2>2 DEF Inv, LaneInv
  <1>3. ShardType' /\ LoopInv' /\ QuietInv'
    BY ZenonT(30), <1>1 DEF Inv, ShardType, LoopInv, QuietInv, Quiet
  <1>4. WakeInv'
    BY ZenonT(30), <1>1 DEF Inv, WakeInv, WakeOK, Coming
  <1> QED
    BY <1>2, <1>3, <1>4 DEF Inv

\* A push or an announcement becomes visible to its receiver.
LEMMA CommitStoreInv ==
    ASSUME Inv, NEW x \in Shard, NEW y \in Shard, x # y, CommitStore(<<x, y>>)
    PROVE  Inv'
  <1> DEFINE p == <<x, y>>
             e == Head(buf[p])
  <1>0. p \in Pair
    BY PairFacts
  <1>1. /\ buf[p] # <<>>
        /\ buf' = [buf EXCEPT ![p] = Tail(buf[p])]
        /\ UNCHANGED <<pc, idle, tail, freed, backlog, owes, sent, todo, took, rcvd, did, scan,
                       flag, parked, waker, inflight, asked, noted>>
    BY DEF CommitStore, draining, parking, clients
  <1>2. \/ /\ e.kind = "announce"
           /\ dirty' = [dirty EXCEPT ![y] = @ \cup {x}]
           /\ UNCHANGED ring
        \/ /\ e.kind # "announce"
           /\ ring' = [ring EXCEPT ![p] = Append(ring[p], e)]
           /\ UNCHANGED dirty
    BY DEF CommitStore
  <1>3. LaneOK(ring[p], buf[p], tail[p], freed[p], backlog[p], sent[p], rcvd[p])
    BY ZenonT(30), <1>0 DEF Inv, LaneInv
  <1>4. /\ e.kind = "announce" =>
             LaneOK(ring[p], Tail(buf[p]), tail[p], freed[p], backlog[p], sent[p], rcvd[p])
        /\ e.kind # "announce" =>
             /\ LaneOK(Append(ring[p], e), Tail(buf[p]), tail[p], freed[p], backlog[p], sent[p], rcvd[p])
             /\ Tail(buf[p]) # <<>>
    BY ZenonT(30), <1>1, <1>3, LaneCommit
  <1>p. \A a, d : <<a, d>> = p <=> a = x /\ d = y
    OBVIOUS
  <1> HIDE DEF e, p
  <1> DEFINE nr == Append(ring[p], e)
             nb == Tail(buf[p])
  <1>5. Lanes(buf') /\ buf'[p] = nb /\ \A q \in Pair : q # p => buf'[q] = buf[q]
    <2>1. buf' = [buf EXCEPT ![p] = nb]
      BY <1>1
    <2> HIDE DEF nb
    <2> QED
      BY <1>0, <2>1 DEF Inv, LaneInv, Lanes
  <1>6. Lanes(ring') /\ \A q \in Pair : q # p => ring'[q] = ring[q]
    BY <1>0, <1>2 DEF Inv, LaneInv, Lanes
  <1>7. ring'[p] = IF e.kind = "announce" THEN ring[p] ELSE nr
    BY ZenonT(30), <1>0, <1>2 DEF Inv, LaneInv, Lanes
  <1> HIDE DEF nr, nb
  <1>8. LaneInv'
    <2>1. ASSUME NEW q \in Pair
          PROVE  LaneOK(ring'[q], buf'[q], tail[q], freed[q], backlog[q], sent[q], rcvd[q])
      <3>1. CASE q = p
        BY ZenonT(30), <1>4, <1>5, <1>7, <3>1 DEF nr, nb
      <3>2. CASE q # p
        BY <1>5, <1>6, <3>2 DEF Inv, LaneInv
      <3> QED
        BY ZenonT(30), <3>1, <3>2
    <2> QED
      BY <1>1, <1>5, <1>6, <2>1 DEF Inv, LaneInv
  <1>d. dirty' = dirty \/ dirty' = [dirty EXCEPT ![y] = @ \cup {x}]
    BY <1>2, Zenon
  <1>9. ShardType'
    <2>1. dirty' \in [Shard -> SUBSET Shard] /\ \A s \in Shard : s \notin dirty'[s] \cup todo[s]
      BY <1>d DEF Inv, ShardType
    <2> QED
      BY <1>1, <2>1 DEF Inv, ShardType
  <1>10. LoopInv' /\ QuietInv'
    <2>1. UNCHANGED <<pc, todo, scan, flag, parked, idle, did, inflight, backlog>>
      BY <1>1
    <2> QED
      BY ZenonT(30), <2>1 DEF Inv, LoopInv, QuietInv, Quiet
  <1>11. WakeInv'
    <2>1. ASSUME NEW a \in Shard, NEW d \in Shard, a # d PROVE WakeOK(a, d)'
      <3>1. WakeOK(a, d)
        BY <2>1 DEF Inv, WakeInv
      <3>2. <<a, d>> \in Pair
        BY <2>1, PairFacts
      <3>3. CASE <<a, d>> = p
        <4>1. a = x /\ d = y
          BY <1>p, <3>3
        <4>2. d \in owes[a]
          BY <1>1, <3>1, <3>3 DEF WakeOK
        <4>3. Coming(a, d)' /\ owes'[a] = owes[a]
          BY <1>1, <4>2 DEF Coming
        <4>4. e.kind = "announce" => a \in dirty'[d]
          BY <1>2, <4>1 DEF Inv, ShardType
        <4>5. e.kind # "announce" => buf'[<<a, d>>] # <<>>
          BY ZenonT(30), <1>4, <1>5, <3>3 DEF nb
        <4> QED
          BY <4>2, <4>3, <4>4, <4>5 DEF WakeOK
      <3>4. CASE <<a, d>> # p
        <4>1. ring'[<<a, d>>] = ring[<<a, d>>] /\ buf'[<<a, d>>] = buf[<<a, d>>]
          BY <1>5, <1>6, <3>2, <3>4
        <4>2. a \in dirty'[d] <=> a \in dirty[d]
          <5>1. a # x \/ d # y
            BY <1>p, <3>4
          <5>2. dirty'[d] = dirty[d] \/ (d = y /\ dirty'[d] = dirty[d] \cup {x})
            BY <1>d DEF Inv, ShardType
          <5> QED
            BY <5>1, <5>2
        <4> QED
          BY ZenonT(30), <1>1, <3>1, <4>1, <4>2 DEF WakeOK, Coming
      <3> QED
        BY <3>3, <3>4
    <2> QED
      BY <2>1 DEF WakeInv
  <1> QED
    BY <1>8, <1>9, <1>10, <1>11 DEF Inv
=============================================================================

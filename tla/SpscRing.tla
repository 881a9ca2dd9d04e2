------------------------------ MODULE SpscRing ------------------------------
(***************************************************************************)
(* The single-producer single-consumer ring of crates/kevy-ring, the only  *)
(* channel between two shards.  The producer thread owns `tail' and        *)
(* head_cache, the consumer thread owns `head' and tail_cache; each reads  *)
(* the other's cursor.  A call is split at its accesses to shared memory:  *)
(* the load of the other's cursor, the access to the slot, the store of    *)
(* the own cursor.  Cursors are machine words and wrap.                    *)
(*                                                                         *)
(* Memory model.  A load of the other thread's cursor returns any value it *)
(* has held since the last one this thread loaded (coherence; nothing      *)
(* makes a load fresh).  `seen' counts the stores of the other's cursor    *)
(* that the thread has loaded, `synced' those whose Release store one of   *)
(* its Acquire loads has read, after which everything that preceded the    *)
(* store is visible.  A slot read beyond `synced' would be a data race and *)
(* returns anything.                                                       *)
(***************************************************************************)
EXTENDS Integers, Sequences

CONSTANTS
    Item,       \* what the ring carries
    Uninit,     \* the content of a slot never written
    WordBits,   \* width of usize
    Requested,  \* the argument of ring()
    MaxPush     \* bound: number of pushes of a behaviour

WordSize == 2 ^ WordBits

\* Ring::with_capacity: at least 2, rounded up to a power of two, and the
\* largest power of two a usize holds when rounding would overflow.
MaxCapacity == 2 ^ (WordBits - 1)

Capacity ==
    LET powers == {2 ^ i : i \in 0 .. (WordBits - 1)}
        fit    == {p \in powers : p >= Requested /\ p >= 2}
    IN  IF fit = {} THEN MaxCapacity ELSE CHOOSE p \in fit : \A q \in fit : p <= q

ASSUME RingAssumption ==
    /\ WordBits \in Nat \ {0}
    /\ Requested \in 0 .. (WordSize - 1)
    /\ Uninit \notin Item
    /\ MaxPush \in Nat

\* The shape of a Ring: its word and its capacity are numbers, it has at
\* least two slots, and the word size is a multiple (at least twice) of it.
ASSUME CapacityAssumption ==
    /\ WordSize \in Nat
    /\ Capacity \in Nat
    /\ Capacity >= 2
    /\ \E k \in 2 .. WordSize : WordSize = k * Capacity

VARIABLES
    head, tail,   \* the shared cursors, as stored
    buf,          \* the slots
    prod,         \* Producer: step, value, head_cache, seen, synced, room
    cons,         \* Consumer: step, value, tail_cache, seen, synced, items
    sent, rcvd,   \* history: items whose push / pop has completed
    dropped       \* history: items Drop for Ring disposed of

vars == <<head, tail, buf, prod, cons, sent, rcvd, dropped>>

Slot == 0 .. (Capacity - 1)
Word == 0 .. (WordSize - 1)

\* Step of a thread: between calls, about to access the slot, about to store
\* its cursor, or its half dropped.
Step == {"idle", "slot", "store", "gone"}

\* prod.room: is_full answered FALSE and no push followed.  cons.items: how
\* many items len or is_empty last said were there, less the pops since.
Init ==
    /\ head = 0
    /\ tail = 0
    /\ buf = [i \in Slot |-> Uninit]
    /\ prod = [step |-> "idle", val |-> Uninit, cache |-> 0,
               seen |-> 0, synced |-> 0, room |-> FALSE]
    /\ cons = [step |-> "idle", val |-> Uninit, cache |-> 0,
               seen |-> 0, synced |-> 0, items |-> 0]
    /\ sent = <<>>
    /\ rcvd = <<>>
    /\ dropped = <<>>

-----------------------------------------------------------------------------
\* Mutant: saturating instead of wrapping.
SaturatingSub(a, b) == IF a >= b THEN a - b ELSE 0
\* usize::wrapping_sub and wrapping_add(1), and the index of a cursor.
WrapSub(a, b) == (a + WordSize - b) % WordSize
WrapInc(a) == (a + 1) % WordSize
Index(a) == a % Capacity

\* Mutant: one item too many.
FullAboveCapacity(t, h) == WrapSub(t, h) > Capacity

\* `tail.wrapping_sub(head) > mask'
Full(t, h) == WrapSub(t, h) > Capacity - 1

\* The n-th value of a cursor.
Cursor(n) == n % WordSize

\* Mutant: a Relaxed load, which synchronises with nothing.
RelaxedLoad(thread, n) == [thread EXCEPT !.seen = n]

\* An Acquire load that reads the n-th value the other side stored, and
\* synchronises with its Release store.
Acquired(thread, n) == [thread EXCEPT !.seen = n, !.synced = n]

\* The loads of `head' the producer can make, and of `tail' the consumer can.
HeadLoads == prod.seen .. Len(rcvd)
TailLoads == cons.seen .. Len(sent)

-----------------------------------------------------------------------------
\* Producer::push(v), up to the slot access: the cached head says there is
\* room, or it is reloaded and says so.
PushRoom(v) ==
    /\ prod.step = "idle"
    /\ Len(sent) < MaxPush
    /\ \/ /\ ~Full(tail, prod.cache)
          /\ prod' = [prod EXCEPT !.step = "slot", !.val = v]
       \/ /\ Full(tail, prod.cache)
          /\ \E n \in HeadLoads :
                /\ ~Full(tail, Cursor(n))
                /\ prod' = [Acquired(prod, n) EXCEPT !.step = "slot", !.val = v,
                                                     !.cache = Cursor(n)]
    /\ UNCHANGED <<head, tail, buf, cons, sent, rcvd, dropped>>

\* Producer::push(v) = Err(v): full by the cache and full after the reload.
PushFull ==
    /\ prod.step = "idle"
    /\ Len(sent) < MaxPush
    /\ Full(tail, prod.cache)
    /\ \E n \in HeadLoads :
          /\ Full(tail, Cursor(n))
          /\ prod' = [Acquired(prod, n) EXCEPT !.cache = Cursor(n)]
    /\ UNCHANGED <<head, tail, buf, cons, sent, rcvd, dropped>>

\* The slot write of push.
PushSlot ==
    /\ prod.step = "slot"
    /\ buf' = [buf EXCEPT ![Index(tail)] = prod.val]
    /\ prod' = [prod EXCEPT !.step = "store"]
    /\ UNCHANGED <<head, tail, cons, sent, rcvd, dropped>>

\* The Release store of tail: push returns Ok.
PushStore ==
    /\ prod.step = "store"
    /\ tail' = WrapInc(tail)
    /\ sent' = Append(sent, prod.val)
    /\ prod' = [prod EXCEPT !.step = "idle", !.val = Uninit, !.room = FALSE]
    /\ UNCHANGED <<head, buf, cons, rcvd, dropped>>

\* Mutant: full only above the capacity.
IsFullOffByOne ==
    /\ prod.step = "idle"
    /\ \E n \in HeadLoads :
          prod' = [Acquired(prod, n) EXCEPT !.room = WrapSub(tail, Cursor(n)) <= Capacity]
    /\ UNCHANGED <<head, tail, buf, cons, sent, rcvd, dropped>>

\* Producer::is_full loads head and does not touch the cache.
IsFull ==
    /\ prod.step = "idle"
    /\ \E n \in HeadLoads :
          prod' = [Acquired(prod, n) EXCEPT !.room = ~Full(tail, Cursor(n))]
    /\ UNCHANGED <<head, tail, buf, cons, sent, rcvd, dropped>>

-----------------------------------------------------------------------------
\* Consumer::pop, up to the slot access.
PopSome ==
    /\ cons.step = "idle"
    /\ \/ /\ head # cons.cache
          /\ cons' = [cons EXCEPT !.step = "slot"]
       \/ /\ head = cons.cache
          /\ \E n \in TailLoads :
                /\ head # Cursor(n)
                /\ cons' = [Acquired(cons, n) EXCEPT !.step = "slot",
                                                     !.cache = Cursor(n)]
    /\ UNCHANGED <<head, tail, buf, prod, sent, rcvd, dropped>>

\* Consumer::pop = None.
PopNone ==
    /\ cons.step = "idle"
    /\ head = cons.cache
    /\ \E n \in TailLoads :
          /\ head = Cursor(n)
          /\ cons' = [Acquired(cons, n) EXCEPT !.cache = Cursor(n)]
    /\ UNCHANGED <<head, tail, buf, prod, sent, rcvd, dropped>>

\* What a read of slot i sees: the content, once the write is known to precede.
Reads(i) ==
    IF Len(rcvd) < cons.synced THEN {buf[i]} ELSE Item \cup {Uninit}

\* The slot read of pop.
PopSlot ==
    /\ cons.step = "slot"
    /\ \E v \in Reads(Index(head)) :
          cons' = [cons EXCEPT !.step = "store", !.val = v]
    /\ UNCHANGED <<head, tail, buf, prod, sent, rcvd, dropped>>

\* The Release store of head: pop returns the value.
PopStore ==
    /\ cons.step = "store"
    /\ head' = WrapInc(head)
    /\ rcvd' = Append(rcvd, cons.val)
    /\ cons' = [cons EXCEPT !.step = "idle", !.val = Uninit,
                            !.items = IF @ > 0 THEN @ - 1 ELSE 0]
    /\ UNCHANGED <<tail, buf, prod, sent, dropped>>

\* Consumer::len; is_empty asks the same two cursors whether it is zero.
Length ==
    /\ cons.step = "idle"
    /\ \E n \in TailLoads :
          cons' = [Acquired(cons, n) EXCEPT !.items = WrapSub(Cursor(n), head)]
    /\ UNCHANGED <<head, tail, buf, prod, sent, rcvd, dropped>>

IsEmpty ==
    /\ cons.step = "idle"
    /\ \E n \in TailLoads :
          cons' = [Acquired(cons, n) EXCEPT !.items = IF head = Cursor(n) THEN 0 ELSE 1]
    /\ UNCHANGED <<head, tail, buf, prod, sent, rcvd, dropped>>

-----------------------------------------------------------------------------
\* Mutant: every slot is dropped.
WholeBuffer == [i \in 1 .. Capacity |-> buf[Index(Cursor(head + i - 1))]]

\* Drop for Ring, run by whichever half goes last: the slots of [head, tail).
Drained == [i \in 1 .. WrapSub(tail, head) |-> buf[Index(Cursor(head + i - 1))]]

ProducerGone ==
    /\ prod.step = "idle"
    /\ prod' = [prod EXCEPT !.step = "gone"]
    /\ dropped' = IF cons.step = "gone" THEN Drained ELSE dropped
    /\ UNCHANGED <<head, tail, buf, cons, sent, rcvd>>

ConsumerGone ==
    /\ cons.step = "idle"
    /\ cons' = [cons EXCEPT !.step = "gone"]
    /\ dropped' = IF prod.step = "gone" THEN Drained ELSE dropped
    /\ UNCHANGED <<head, tail, buf, prod, sent, rcvd>>

Next ==
    \/ \E v \in Item : PushRoom(v)
    \/ PushFull
    \/ PushSlot
    \/ PushStore
    \/ IsFull
    \/ PopSome
    \/ PopNone
    \/ PopSlot
    \/ PopStore
    \/ Length
    \/ IsEmpty
    \/ ProducerGone
    \/ ConsumerGone

Spec == Init /\ [][Next]_vars

-----------------------------------------------------------------------------
\* Types of the cursors, the slots, the two halves and the histories.
TypeOK ==
    /\ head \in Word
    /\ tail \in Word
    /\ buf \in [Slot -> Item \cup {Uninit}]
    /\ prod \in [step : Step, val : Item \cup {Uninit}, cache : Word,
                 seen : Nat, synced : Nat, room : BOOLEAN]
    /\ cons \in [step : Step, val : Item \cup {Uninit}, cache : Word,
                 seen : Nat, synced : Nat, items : Nat]
    /\ sent \in Seq(Item)
    /\ rcvd \in Seq(Item)
    /\ dropped \in Seq(Item)

\* The SAFETY comments of push and pop: when the producer writes a slot, the
\* read of the item that was in it happened before; when the consumer reads a
\* slot, the write of the item happened before.  No access races.
NoRace ==
    /\ prod.step = "slot" => Len(sent) < prod.synced + Capacity
    /\ cons.step = "slot" => Len(rcvd) < cons.synced

\* "FIFO, nothing lost or reordered": pops return the pushed items, each once,
\* in the order of the pushes, wherever the two threads are in their calls and
\* whatever the cursors have wrapped through.
InOrder ==
    /\ Len(rcvd) <= Len(sent)
    /\ \A i \in 1 .. Len(rcvd) : rcvd[i] = sent[i]

\* Drop for Ring disposes of exactly the items pushed and never popped: no item
\* leaks and none is both popped and dropped.
DropsTheRest ==
    prod.step = "gone" /\ cons.step = "gone" => rcvd \o dropped = sent

\* After is_full answers FALSE the producer's next push is accepted, whatever
\* head its own cached copy or a late load shows.
RoomIsKept ==
    prod.step = "idle" /\ prod.room => \A n \in HeadLoads : ~Full(tail, Cursor(n))

\* After len answers n (or is_empty FALSE), n pops (one) find an item: the
\* answer never overstates what the consumer will see.
LenIsKept == \A n \in TailLoads : Len(rcvd) + cons.items <= n

\* What is_full, len and is_empty answer to the thread that owns the half stays
\* true until that thread's next push or pop, whatever the other thread does
\* and however late its stores are seen.
AdviceIsKept == RoomIsKept /\ LenIsKept

\* The ring implements the bounded channel of module Fifo.
Channel == INSTANCE Fifo
ImplementsFifo == Channel!Spec
=============================================================================

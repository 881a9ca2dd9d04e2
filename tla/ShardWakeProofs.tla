-------------------------- MODULE ShardWakeProofs ---------------------------
(***************************************************************************)
(* Proofs about ShardWake, second part: the steps that send, flush the     *)
(* backlogs or take a message keep the invariant Inv, and what follows     *)
(* from it for any number of shards, ring size, drain budget, spin limit   *)
(* and number of requests: the lanes are in order, every message in a      *)
(* ring is announced, no wake is lost, and a shard blocks only when it     *)
(* is quiet.                                                               *)
(*                                                                         *)
(* None of the theorems needs fairness. That every message is delivered    *)
(* in the end (Delivery) does, and that xshard_inflight never exceeds      *)
(* the requests unanswered (StaysHot) counts entries of sequences: both    *)
(* are model-checked only.                                                 *)
(***************************************************************************)
EXTENDS ShardStepProofs

\* A poll that reports a client sends its request.
LEMMA PollClientInv ==
    ASSUME Inv, NEW s \in Shard, PollClient(s)
    PROVE  Inv'
  <1>1. PICK d \in Shard \ {s} : SendTo(s, d, "request")
    BY DEF PollClient
  <1>2. PICK counted \in {0, 1} : inflight' = [inflight EXCEPT ![s] = @ + counted]
    BY DEF PollClient
  <1>3. /\ pc[s] \in {"top", "wait"} /\ asked[s] < MaxRequest
        /\ flag' = [flag EXCEPT ![s] = FALSE]
        /\ waker' = [waker EXCEPT ![s] = FALSE]
        /\ did' = [did EXCEPT ![s] = TRUE]
        /\ asked' = [asked EXCEPT ![s] = @ + 1]
        /\ pc' = [pc EXCEPT ![s] = "look"]
        /\ UNCHANGED <<idle, ring, freed, dirty, todo, took, rcvd, scan, parked, noted>>
    BY DEF PollClient, PollReturns, ClientSends, Goto, draining
  <1>4. "request" \in Kind /\ s # d /\ d \in Shard
    BY DEF Kind
  <1>5. LaneInv'
    BY <1>1, <1>3, <1>4, SendLanes DEF Inv
  <1>6. /\ buf'[<<s, d>>] # <<>> /\ d \in owes'[s]
        /\ \A a, e \in Shard : a # e /\ ~ (a = s /\ e = d) => buf'[<<a, e>>] = buf[<<a, e>>]
        /\ \A a, e \in Shard : a # e /\ a # s => backlog'[<<a, e>>] = backlog[<<a, e>>]
        /\ owes' \in [Shard -> SUBSET Shard]
        /\ \A q \in Shard : owes[q] \subseteq owes'[q]
    BY <1>1, <1>4, SendWake DEF Inv
  <1>7. ShardType'
    <2>1. owes' \in [Shard -> SUBSET Shard]
      BY <1>6
    <2>2. inflight' \in [Shard -> Nat]
      BY <1>2 DEF Inv, ShardType
    <2>3. asked' \in [Shard -> 0 .. MaxRequest]
      BY <1>3, WakeAssumption DEF Inv, ShardType
    <2>4. pc' \in [Shard -> Loop]
      BY <1>3 DEF Inv, ShardType, Loop
    <2> QED
      BY <1>3, <2>1, <2>2, <2>3, <2>4 DEF Inv, ShardType
  <1>8. LoopInv'
    BY <1>3 DEF Inv, ShardType, LoopInv
  <1>9. WakeInv'
    <2>1. ASSUME NEW a \in Shard, NEW e \in Shard, a # e PROVE WakeOK(a, e)'
      <3>1. WakeOK(a, e)
        BY <2>1 DEF Inv, WakeInv
      <3>2. pc'[e] \in {"parkdrain", "wait"} => /\ pc[e] = pc'[e] /\ did[e] = did'[e]
                                                /\ Coming(a, e) => Coming(a, e)'
        BY <1>3, <1>6 DEF Inv, ShardType, Coming
      <3>3. buf'[<<a, e>>] # <<>> => buf[<<a, e>>] # <<>> \/ e \in owes'[a]
        BY <1>6, <2>1
      <3>4. buf[<<a, e>>] # <<>> => buf'[<<a, e>>] # <<>>
        BY <1>6, <2>1
      <3> QED
        BY <1>3, <1>6, <3>1, <3>2, <3>3, <3>4 DEF WakeOK
    <2> QED
      BY <2>1 DEF WakeInv
  <1>10. QuietInv'
    <2>1. pc'[s] = "look" /\ \A q \in Shard : q # s => pc'[q] = pc[q] /\ did'[q] = did[q]
      BY <1>3 DEF Inv, ShardType
    <2>2. ASSUME NEW q \in Shard, q # s PROVE Quiet(q) => Quiet(q)'
      <3>1. inflight'[q] = inflight[q]
        BY <1>2, <2>2 DEF Inv, ShardType
      <3>2. \A e \in Shard \ {q} : backlog'[<<q, e>>] = backlog[<<q, e>>]
        BY <1>6, <2>2
      <3> QED
        BY <3>1, <3>2 DEF Quiet
    <2> QED
      BY <1>3, <2>1, <2>2 DEF Inv, QuietInv
  <1> QED
    BY <1>5, <1>7, <1>8, <1>9, <1>10 DEF Inv

\* A message sent after the wake scan is owed its wake in the next iteration.
LEMMA EndIterationSendingInv ==
    ASSUME Inv, NEW s \in Shard, EndIterationSending(s)
    PROVE  Inv'
  <1>1. PICK d \in Shard \ {s} : SendTo(s, d, "note")
    BY DEF EndIterationSending
  <1>2. /\ pc[s] = "tail" /\ noted[s] < MaxNote
        /\ noted' = [noted EXCEPT ![s] = @ + 1]
        /\ idle' = [idle EXCEPT ![s] =
                      IF did[s] \/ (\E e \in Shard \ {s} : backlog'[<<s, e>>] # <<>>) \/ inflight[s] > 0
                      THEN 0
                      ELSE IF @ = SpinLimit THEN SpinLimit ELSE @ + 1]
        /\ pc' = [pc EXCEPT ![s] = "top"]
        /\ UNCHANGED <<ring, freed, dirty, todo, took, rcvd, did, scan, flag, parked, waker,
                       inflight, asked>>
    BY DEF EndIterationSending, IdleAfter, Goto, draining, parking
  <1>3. "note" \in Kind /\ s # d /\ d \in Shard
    BY DEF Kind
  <1>4. LaneInv'
    BY <1>1, <1>2, <1>3, SendLanes DEF Inv
  <1>5. /\ buf'[<<s, d>>] # <<>> /\ d \in owes'[s]
        /\ \A a, e \in Shard : a # e /\ ~ (a = s /\ e = d) => buf'[<<a, e>>] = buf[<<a, e>>]
        /\ \A a, e \in Shard : a # e /\ a # s => backlog'[<<a, e>>] = backlog[<<a, e>>]
        /\ owes' \in [Shard -> SUBSET Shard]
        /\ \A q \in Shard : owes[q] \subseteq owes'[q]
    BY <1>1, <1>3, SendWake DEF Inv
  <1>6. ShardType'
    <2>1. owes' \in [Shard -> SUBSET Shard]
      BY <1>5
    <2>2. noted' \in [Shard -> 0 .. MaxNote]
      BY <1>2, WakeAssumption, SMTT(20) DEF Inv, ShardType
    <2>3. idle' \in [Shard -> 0 .. SpinLimit]
      BY <1>2, WakeAssumption, SMTT(20) DEF Inv, ShardType
    <2>4. pc' \in [Shard -> Loop]
      BY <1>2 DEF Inv, ShardType, Loop
    <2> QED
      BY <1>2, <2>1, <2>2, <2>3, <2>4 DEF Inv, ShardType
  <1>7. LoopInv'
    BY <1>2 DEF Inv, ShardType, LoopInv
  <1>8. WakeInv'
    <2>1. ASSUME NEW a \in Shard, NEW e \in Shard, a # e PROVE WakeOK(a, e)'
      <3>1. WakeOK(a, e)
        BY <2>1 DEF Inv, WakeInv
      <3>2. pc'[e] \in {"parkdrain", "wait"} => pc[e] = pc'[e]
        BY <1>2 DEF Inv, ShardType
      <3>3. Coming(a, e) => Coming(a, e)'
        BY <1>2, <1>5 DEF Coming
      <3>4. buf'[<<a, e>>] # <<>> => buf[<<a, e>>] # <<>> \/ e \in owes'[a]
        BY <1>5, <2>1
      <3>5. buf[<<a, e>>] # <<>> => buf'[<<a, e>>] # <<>>
        BY <1>5, <2>1
      <3> QED
        BY <1>2, <1>5, <3>1, <3>2, <3>3, <3>4, <3>5 DEF WakeOK
    <2> QED
      BY <2>1 DEF WakeInv
  <1>9. QuietInv'
    <2>1. ASSUME SpinLimit # 0, NEW q \in Shard
          PROVE  /\ pc'[q] \in {"publish", "recheck", "parkdrain", "wait"} => idle'[q] = SpinLimit
                 /\ pc'[q] \in {"unpark", "unparkscan"} => idle'[q] = 0
                 /\ idle'[q] = SpinLimit /\ (\/ pc'[q] \in {"top", "publish", "recheck", "wait"}
                                             \/ pc'[q] = "parkdrain" /\ ~ did'[q]) => Quiet(q)'
      <3>1. CASE q = s
        <4>1. pc'[s] = "top"
          BY <1>2 DEF Inv, ShardType
        <4>2. idle'[s] # 0 => /\ \A e \in Shard \ {s} : backlog'[<<s, e>>] = <<>>
                              /\ ~ (inflight[s] > 0)
          BY <1>2 DEF Inv, ShardType
        <4>3. inflight[s] \in Nat /\ inflight' = inflight
          BY <1>2 DEF Inv, ShardType
        <4>4. idle'[s] # 0 => Quiet(s)'
          BY <4>2, <4>3 DEF Quiet
        <4> QED
          BY <2>1, <3>1, <4>1, <4>4
      <3>2. CASE q # s
        <4>1. pc'[q] = pc[q] /\ idle'[q] = idle[q] /\ did' = did
          BY <1>2, <3>2 DEF Inv, ShardType
        <4>2. Quiet(q) => Quiet(q)'
          BY <1>2, <1>5, <3>2 DEF Quiet
        <4> QED
          BY <2>1, <4>1, <4>2 DEF Inv, QuietInv
      <3> QED
        BY <3>1, <3>2
    <2> QED
      BY <2>1 DEF QuietInv
  <1> QED
    BY <1>4, <1>6, <1>7, <1>8, <1>9 DEF Inv

\* The flush of the backlogs in an iteration.
LEMMA FlushInv ==
    ASSUME Inv, NEW s \in Shard, Flush(s)
    PROVE  Inv'
  <1>1. FlushBacklog(s)
    BY DEF Flush
  <1>2. /\ pc[s] = "flush" /\ pc' = [pc EXCEPT ![s] = "wake"]
        /\ UNCHANGED <<idle, ring, freed, dirty, sent, todo, took, rcvd, did, scan, flag, parked,
                       waker, inflight, asked, noted>>
    BY DEF Flush, Goto, draining, parking, clients
  <1>3. LaneInv'
    BY <1>1, <1>2, FlushLanes DEF Inv
  <1>4. /\ \A a, e \in Shard : a # e /\ a # s => /\ buf'[<<a, e>>] = buf[<<a, e>>]
                                                 /\ backlog'[<<a, e>>] = backlog[<<a, e>>]
        /\ \A a, e \in Shard : a # e /\ buf[<<a, e>>] # <<>> => buf'[<<a, e>>] # <<>>
        /\ \A e \in Shard : e # s /\ buf'[<<s, e>>] # <<>> => buf[<<s, e>>] # <<>> \/ e \in owes'[s]
        /\ \A q \in Shard : owes[q] \subseteq owes'[q]
    BY <1>1, FlushWake DEF Inv
  <1>5. ShardType'
    <2>1. owes' \in [Shard -> SUBSET Shard]
      BY <1>1, FlushWake DEF Inv
    <2> QED
      BY <1>2, <2>1 DEF Inv, ShardType, Loop
  <1>6. LoopInv'
    BY <1>2 DEF Inv, ShardType, LoopInv
  <1>7. WakeInv'
    <2>1. ASSUME NEW a \in Shard, NEW e \in Shard, a # e PROVE WakeOK(a, e)'
      <3>1. WakeOK(a, e)
        BY <2>1 DEF Inv, WakeInv
      <3>2. pc'[e] \in {"parkdrain", "wait"} => pc[e] = pc'[e]
        BY <1>2 DEF Inv, ShardType
      <3>3. Coming(a, e) => Coming(a, e)'
        BY <1>2, <1>4 DEF Coming
      <3>4. buf'[<<a, e>>] # <<>> => buf[<<a, e>>] # <<>> \/ e \in owes'[a]
        BY <1>4, <2>1
      <3>5. buf[<<a, e>>] # <<>> => buf'[<<a, e>>] # <<>>
        BY <1>4, <2>1
      <3> QED
        BY <1>2, <1>4, <3>1, <3>2, <3>3, <3>4, <3>5 DEF WakeOK
    <2> QED
      BY <2>1 DEF WakeInv
  <1>8. QuietInv'
    <2>1. pc'[s] = "wake" /\ \A q \in Shard : q # s => pc'[q] = pc[q]
      BY <1>2 DEF Inv, ShardType
    <2>2. ASSUME NEW q \in Shard, q # s PROVE Quiet(q) => Quiet(q)'
      BY <1>2, <1>4, <2>2 DEF Quiet
    <2> QED
      BY <1>2, <2>1, <2>2 DEF Inv, QuietInv
  <1> QED
    BY <1>3, <1>5, <1>6, <1>7, <1>8 DEF Inv

\* A recheck that took something gives up the park and flushes the backlogs.
LEMMA RecheckWorkedInv ==
    ASSUME Inv, NEW s \in Shard, RecheckWorked(s)
    PROVE  Inv'
  <1>1. FlushBacklog(s)
    BY DEF RecheckWorked
  <1>2. /\ pc[s] = "parkdrain" /\ todo[s] = {} /\ pc' = [pc EXCEPT ![s] = "unpark"]
        /\ flag' = [flag EXCEPT ![s] = FALSE] /\ idle' = [idle EXCEPT ![s] = 0]
        /\ UNCHANGED <<ring, freed, dirty, sent, todo, took, rcvd, did, scan, parked,
                       waker, inflight, asked, noted>>
    BY DEF RecheckWorked, Goto, draining, clients
  <1>3. LaneInv'
    BY <1>1, <1>2, FlushLanes DEF Inv
  <1>4. /\ \A a, e \in Shard : a # e /\ a # s => /\ buf'[<<a, e>>] = buf[<<a, e>>]
                                                 /\ backlog'[<<a, e>>] = backlog[<<a, e>>]
        /\ \A a, e \in Shard : a # e /\ buf[<<a, e>>] # <<>> => buf'[<<a, e>>] # <<>>
        /\ \A e \in Shard : e # s /\ buf'[<<s, e>>] # <<>> => buf[<<s, e>>] # <<>> \/ e \in owes'[s]
        /\ \A q \in Shard : owes[q] \subseteq owes'[q]
    BY <1>1, FlushWake DEF Inv
  <1>5. ShardType'
    <2>1. owes' \in [Shard -> SUBSET Shard]
      BY <1>1, FlushWake DEF Inv
    <2>2. pc' \in [Shard -> Loop] /\ idle' \in [Shard -> 0 .. SpinLimit]
      BY <1>2, WakeAssumption DEF Inv, ShardType, Loop
    <2> QED
      BY <1>2, <2>1, <2>2 DEF Inv, ShardType
  <1>6. LoopInv'
    BY <1>2 DEF Inv, ShardType, LoopInv
  <1>7. WakeInv'
    <2>1. ASSUME NEW a \in Shard, NEW e \in Shard, a # e PROVE WakeOK(a, e)'
      <3>1. WakeOK(a, e)
        BY <2>1 DEF Inv, WakeInv
      <3>2. pc'[e] \in {"parkdrain", "wait"} => pc[e] = pc'[e]
        BY <1>2 DEF Inv, ShardType
      <3>3. Coming(a, e) => Coming(a, e)'
        BY <1>2, <1>4 DEF Coming
      <3>4. buf'[<<a, e>>] # <<>> => buf[<<a, e>>] # <<>> \/ e \in owes'[a]
        BY <1>4, <2>1
      <3>5. buf[<<a, e>>] # <<>> => buf'[<<a, e>>] # <<>>
        BY <1>4, <2>1
      <3> QED
        BY <1>2, <1>4, <3>1, <3>2, <3>3, <3>4, <3>5 DEF WakeOK
    <2> QED
      BY <2>1 DEF WakeInv
  <1>8. QuietInv'
    <2>1. /\ pc'[s] = "unpark" /\ idle'[s] = 0
          /\ \A q \in Shard : q # s => pc'[q] = pc[q] /\ idle'[q] = idle[q]
      BY <1>2 DEF Inv, ShardType
    <2>2. ASSUME NEW q \in Shard, q # s PROVE Quiet(q) => Quiet(q)'
      BY <1>2, <1>4, <2>2 DEF Quiet
    <2> QED
      BY <1>2, <2>1, <2>2 DEF Inv, QuietInv
  <1> QED
    BY <1>3, <1>5, <1>6, <1>7, <1>8 DEF Inv

\* A drain takes one message, answers a request, and puts the bit of a source back
\* when its budget is spent.
LEMMA DrainOneInv ==
    ASSUME Inv, NEW s \in Shard, DrainOne(s)
    PROVE  Inv'
  <1>a. PICK src \in todo[s] :
          /\ pc[s] \in {"parkdrain", "drain"} /\ ring[<<src, s>>] # <<>>
          /\ Handle(s, src, Head(ring[<<src, s>>]).kind)
          /\ ring' = [ring EXCEPT ![<<src, s>>] = Tail(@)]
          /\ freed' = [freed EXCEPT ![<<src, s>>] = @ + 1]
          /\ rcvd' = [rcvd EXCEPT ![<<src, s>>] = @ + 1]
          /\ did' = [did EXCEPT ![s] = TRUE]
          /\ UNCHANGED <<pc, idle, scan, parking, clients>>
          /\ \/ /\ dirty' = [dirty EXCEPT ![s] = @ \cup {src}]
                /\ todo' = [todo EXCEPT ![s] = @ \ {src}]
                /\ took' = [took EXCEPT ![s] = 0]
             \/ /\ took[s] + 1 < DrainBudget
                /\ took' = [took EXCEPT ![s] = @ + 1]
                /\ UNCHANGED <<dirty, todo>>
    BY DEF DrainOne, Lowest, PutBack
  <1> DEFINE p == <<src, s>>
             kind == Head(ring[p]).kind
  <1>0. src \in todo[s] /\ src \in Shard /\ src # s
    BY DEF Inv, ShardType
  <1>1. /\ pc[s] \in {"parkdrain", "drain"} /\ ring[p] # <<>>
        /\ Handle(s, src, kind)
        /\ ring' = [ring EXCEPT ![p] = Tail(ring[p])]
        /\ freed' = [freed EXCEPT ![p] = freed[p] + 1]
        /\ rcvd' = [rcvd EXCEPT ![p] = rcvd[p] + 1]
        /\ did' = [did EXCEPT ![s] = TRUE]
        /\ UNCHANGED <<pc, idle, scan, flag, parked, waker, asked, noted>>
    BY <1>a DEF parking, clients
  <1>2. \/ /\ dirty' = [dirty EXCEPT ![s] = @ \cup {src}]
           /\ todo' = [todo EXCEPT ![s] = @ \ {src}]
           /\ took' = [took EXCEPT ![s] = 0]
        \/ /\ took[s] + 1 < DrainBudget
           /\ took' = [took EXCEPT ![s] = @ + 1]
           /\ UNCHANGED <<dirty, todo>>
    BY <1>a
  <1>3. p \in Pair
    BY <1>0, PairFacts
  <1>4. LaneOK(ring[p], buf[p], tail[p], freed[p], backlog[p], sent[p], rcvd[p])
    BY <1>3 DEF Inv, LaneInv
  <1>5. /\ LaneOK(Tail(ring[p]), buf[p], tail[p], freed[p] + 1, backlog[p], sent[p], rcvd[p] + 1)
        /\ kind \in Kind
    BY <1>1, <1>4, LaneTake
  <1>p. <<s, src>> # p /\ \A a, e : <<a, e>> = p <=> a = src /\ e = s
    BY <1>0
  <1> HIDE DEF p, kind
  \* The lane the message came by.
  <1>6. /\ Lanes(ring') /\ Lanes(freed') /\ Lanes(rcvd')
        /\ ring'[p] = Tail(ring[p]) /\ freed'[p] = freed[p] + 1 /\ rcvd'[p] = rcvd[p] + 1
        /\ \A q \in Pair : q # p => ring'[q] = ring[q] /\ freed'[q] = freed[q] /\ rcvd'[q] = rcvd[q]
    <2> DEFINE nr == Tail(ring[p])
               nf == freed[p] + 1
               nc == rcvd[p] + 1
    <2>1. ring' = [ring EXCEPT ![p] = nr] /\ freed' = [freed EXCEPT ![p] = nf] /\ rcvd' = [rcvd EXCEPT ![p] = nc]
      BY <1>1
    <2> HIDE DEF nr, nf, nc
    <2>2. Lanes(ring') /\ ring'[p] = nr /\ \A q \in Pair : q # p => ring'[q] = ring[q]
      BY <1>3, <2>1 DEF Inv, LaneInv, Lanes
    <2>3. Lanes(freed') /\ freed'[p] = nf /\ \A q \in Pair : q # p => freed'[q] = freed[q]
      BY <1>3, <2>1 DEF Inv, LaneInv, Lanes
    <2>4. Lanes(rcvd') /\ rcvd'[p] = nc /\ \A q \in Pair : q # p => rcvd'[q] = rcvd[q]
      BY <1>3, <2>1 DEF Inv, LaneInv, Lanes
    <2> QED
      BY <2>2, <2>3, <2>4 DEF nr, nf, nc
  \* The lane of the answer, if there is one.
  <1>7. /\ Lanes(buf') /\ Lanes(tail') /\ Lanes(backlog') /\ Lanes(sent')
        /\ buf'[p] = buf[p] /\ tail'[p] = tail[p] /\ backlog'[p] = backlog[p] /\ sent'[p] = sent[p]
        /\ \A q \in Pair : q # p =>
              LaneOK(ring[q], buf'[q], tail'[q], freed[q], backlog'[q], sent'[q], rcvd[q])
        /\ \A a, e \in Shard : a # e => /\ buf[<<a, e>>] # <<>> => buf'[<<a, e>>] # <<>>
                                        /\ buf'[<<a, e>>] # <<>> => buf[<<a, e>>] # <<>> \/ e \in owes'[a]
                                        /\ a # s => backlog'[<<a, e>>] = backlog[<<a, e>>]
        /\ owes' \in [Shard -> SUBSET Shard]
        /\ \A q \in Shard : owes[q] \subseteq owes'[q]
        /\ inflight' \in [Shard -> Nat]
        /\ \A q \in Shard : q # s => inflight'[q] = inflight[q]
    <2>1. CASE kind = "request"
      <3> DEFINE w == <<s, src>>
      <3>1. SendTo(s, src, "response") /\ UNCHANGED inflight
        BY <1>1, <2>1 DEF Handle
      <3>2. "response" \in Kind
        BY DEF Kind
      <3>3. /\ LaneOK(ring[w], buf'[w], tail'[w], freed[w], backlog'[w], sent'[w], rcvd[w])
            /\ Lanes(buf') /\ Lanes(tail') /\ Lanes(backlog') /\ Lanes(sent')
            /\ \A q \in Pair : q # w => /\ buf'[q] = buf[q] /\ tail'[q] = tail[q]
                                        /\ backlog'[q] = backlog[q] /\ sent'[q] = sent[q]
        BY <1>0, <3>1, <3>2, SendToEffect, Zenon DEF Inv
      <3>4. /\ buf'[<<s, src>>] # <<>> /\ src \in owes'[s]
            /\ \A a, e \in Shard : a # e /\ ~ (a = s /\ e = src) => buf'[<<a, e>>] = buf[<<a, e>>]
            /\ \A a, e \in Shard : a # e /\ a # s => backlog'[<<a, e>>] = backlog[<<a, e>>]
            /\ owes' \in [Shard -> SUBSET Shard]
            /\ \A q \in Shard : owes[q] \subseteq owes'[q]
        BY <1>0, <3>1, <3>2, SendWake DEF Inv
      <3>5. p # w
        BY <1>p
      <3> HIDE DEF w
      <3>6. ASSUME NEW q \in Pair
            PROVE  LaneOK(ring[q], buf'[q], tail'[q], freed[q], backlog'[q], sent'[q], rcvd[q])
        <4>1. CASE q = w
          BY <3>3, <4>1
        <4>2. CASE q # w
          BY <3>3, <4>2 DEF Inv, LaneInv
        <4> QED
          BY <4>1, <4>2
      <3>7. inflight' \in [Shard -> Nat] /\ inflight' = inflight
        BY <3>1 DEF Inv, ShardType
      <3>8. ASSUME NEW a \in Shard, NEW e \in Shard, a # e
            PROVE  /\ buf[<<a, e>>] # <<>> => buf'[<<a, e>>] # <<>>
                   /\ buf'[<<a, e>>] # <<>> => buf[<<a, e>>] # <<>> \/ e \in owes'[a]
        BY <3>4, <3>8
      <3>9. buf'[p] = buf[p] /\ tail'[p] = tail[p] /\ backlog'[p] = backlog[p] /\ sent'[p] = sent[p]
        BY <1>3, <3>3, <3>5
      <3> QED
        BY <3>3, <3>4, <3>6, <3>7, <3>8, <3>9, Zenon
    <2>2. CASE kind # "request"
      <3>1. UNCHANGED <<buf, tail, backlog, owes, sent>>
        BY <1>1, <2>2 DEF Handle
      <3>2. inflight' = inflight \/ inflight' = [inflight EXCEPT ![s] = IF @ = 0 THEN 0 ELSE @ - 1]
        BY <1>1, <2>2 DEF Handle
      <3>3. inflight' \in [Shard -> Nat] /\ \A q \in Shard : q # s => inflight'[q] = inflight[q]
        BY <3>2 DEF Inv, ShardType
      <3>4. owes \in [Shard -> SUBSET Shard]
        BY DEF Inv, ShardType
      <3> QED
        BY <3>1, <3>3, <3>4 DEF Inv, LaneInv
    <2> QED
      BY <2>1, <2>2
  <1>8. LaneInv'
    <2>1. ASSUME NEW q \in Pair
          PROVE  LaneOK(ring'[q], buf'[q], tail'[q], freed'[q], backlog'[q], sent'[q], rcvd'[q])
      <3>1. CASE q = p
        BY <1>5, <1>6, <1>7, <3>1
      <3>2. CASE q # p
        BY <1>6, <1>7, <3>2
      <3> QED
        BY <3>1, <3>2
    <2> QED
      BY <1>6, <1>7, <2>1 DEF LaneInv
  <1>9. ShardType'
    <2>1. owes' \in [Shard -> SUBSET Shard] /\ inflight' \in [Shard -> Nat]
      BY <1>7
    <2>2. /\ dirty' \in [Shard -> SUBSET Shard] /\ todo' \in [Shard -> SUBSET Shard]
          /\ \A q \in Shard : q \notin dirty'[q] \cup todo'[q]
      BY <1>0, <1>2 DEF Inv, ShardType
    <2>3. took' \in [Shard -> 0 .. (DrainBudget - 1)]
      BY <1>2, WakeAssumption DEF Inv, ShardType
    <2> QED
      BY <1>1, <2>1, <2>2, <2>3 DEF Inv, ShardType
  <1>10. LoopInv'
    <2>1. \A q \in Shard : q # s => todo'[q] = todo[q]
      BY <1>2 DEF Inv, ShardType
    <2>2. UNCHANGED <<pc, scan, flag, parked>>
      BY <1>1
    <2> QED
      BY <1>1, <2>1, <2>2 DEF Inv, LoopInv
  <1>11. WakeInv'
    <2>1. ASSUME NEW a \in Shard, NEW e \in Shard, a # e PROVE WakeOK(a, e)'
      <3>1. WakeOK(a, e)
        BY <2>1 DEF Inv, WakeInv
      <3>2. /\ buf[<<a, e>>] # <<>> => buf'[<<a, e>>] # <<>>
            /\ buf'[<<a, e>>] # <<>> => buf[<<a, e>>] # <<>> \/ e \in owes'[a]
            /\ owes[a] \subseteq owes'[a]
        BY <1>7, <2>1
      <3>3. Coming(a, e) => Coming(a, e)'
        BY <1>1, <3>2 DEF Coming
      <3>4. did'[s] /\ \A q \in Shard : q # s => did'[q] = did[q] /\ dirty'[q] = dirty[q] /\ todo'[q] = todo[q]
        BY <1>1, <1>2 DEF Inv, ShardType
      <3>5. a \in dirty[e] \/ a \in todo[e] => a \in dirty'[e] \/ a \in todo'[e]
        BY <1>2 DEF Inv, ShardType
      <3>6. pc' = pc /\ pc[s] # "wait"
        BY <1>1
      <3>7. e # s => ring'[<<a, e>>] = ring[<<a, e>>]
        BY <1>6, <1>p, <2>1, PairFacts
      <3>8. ring'[<<a, e>>] # <<>> => ring[<<a, e>>] # <<>>
        BY <1>1, <1>6, <1>p, <2>1, PairFacts
      <3>9. CASE e = s
        BY <3>1, <3>2, <3>3, <3>4, <3>5, <3>6, <3>8, <3>9 DEF WakeOK
      <3>10. CASE e # s
        BY <3>1, <3>2, <3>3, <3>4, <3>6, <3>7, <3>10 DEF WakeOK
      <3> QED
        BY <3>9, <3>10
    <2> QED
      BY <2>1 DEF WakeInv
  <1>12. QuietInv'
    <2>1. UNCHANGED <<pc, idle>> /\ did'[s] /\ \A q \in Shard : q # s => did'[q] = did[q]
      BY <1>1 DEF Inv, ShardType
    <2>2. ASSUME NEW q \in Shard, q # s PROVE Quiet(q) => Quiet(q)'
      BY <1>7, <2>2 DEF Quiet
    <2>3. pc[s] \in {"parkdrain", "drain"}
      BY <1>1
    <2> QED
      BY <2>1, <2>2, <2>3 DEF Inv, QuietInv
  <1> QED
    BY <1>8, <1>9, <1>10, <1>11, <1>12 DEF Inv

-----------------------------------------------------------------------------
\* The theorems.

\* The inductive step, by the actions of the shards and of their stores.
LEMMA NextInv ==
    ASSUME Inv, [Next]_vars
    PROVE  Inv'
  <1>1. CASE UNCHANGED vars
    <2>1. /\ UNCHANGED <<ring, buf, tail, freed, backlog, sent, rcvd>>
          /\ UNCHANGED <<pc, idle, dirty, todo, took, did, owes, scan>>
          /\ UNCHANGED <<flag, parked, waker, inflight, asked, noted>>
      BY <1>1 DEF vars
    <2>2. LaneInv'
      BY <2>1 DEF Inv, LaneInv
    <2>3. ShardType' /\ LoopInv'
      BY <2>1 DEF Inv, ShardType, LoopInv
    <2>4. WakeInv'
      BY <2>1 DEF Inv, WakeInv, WakeOK, Coming
    <2>5. QuietInv'
      BY <2>1 DEF Inv, QuietInv, Quiet
    <2> QED
      BY <2>2, <2>3, <2>4, <2>5 DEF Inv
  <1>2. CASE Next
    <2>1. PICK s \in Shard : ShardStep(s) \/ PollClient(s) \/ StoreStep(s)
      BY <1>2 DEF Next
    <2>2. CASE ShardStep(s)
      BY <2>2, PollInv, PublishParkedInv, PublishFenceInv, RecheckInv, RecheckEmptyInv,
         RecheckWorkedInv, LookInv, DrainOneInv, DrainNextInv, DrainEndInv, FlushInv,
         NoWakesInv, FlushWakesInv, WakePeerInv, EndIterationInv, EndIterationSendingInv, Zenon
         DEF ShardStep
    <2>3. CASE PollClient(s)
      BY <2>3, PollClientInv
    <2>4. CASE CommitFlag(s)
      BY <2>4, CommitFlagInv
    <2>5. ASSUME NEW d \in Shard \ {s}, CommitStore(<<s, d>>)
          PROVE  Inv'
      BY <2>5, CommitStoreInv
    <2>6. ASSUME NEW d \in Shard \ {s}, CommitFreed(<<d, s>>)
          PROVE  Inv'
      <3>1. <<d, s>> \in Pair
        BY PairFacts
      <3> QED
        BY <2>6, <3>1, CommitFreedInv
    <2> QED
      BY <2>1, <2>2, <2>3, <2>4, <2>5, <2>6 DEF StoreStep
  <1> QED
    BY <1>1, <1>2

\* The invariant of the lanes, the loop and the wakes holds in every state of
\* the shards, whatever their number, the rings' size and the drain's budget.
THEOREM InvHolds == Spec => []Inv
  <1>1. Init => Inv
    BY InitInv
  <1>2. Inv /\ [Next]_vars => Inv'
    BY NextInv
  <1> QED
    BY <1>1, <1>2, PTL DEF Spec

\* Nothing sent between two shards is lost, doubled or reordered, however the
\* sends, the overflow to the backlog, its flushes and the drains interleave,
\* and the state stays well formed.
THEOREM LanesInOrder == Spec => []LaneInOrder
  <1>1. ASSUME Inv PROVE LaneInOrder
    <2>1. LaneInv
      BY <1>1 DEF Inv
    <2>2. TypeOK
      <3>1. ring \in [Pair -> Seq(Message)]
        BY <2>1, LaneOrder DEF LaneInv, Lanes
      <3>2. buf \in [Pair -> Seq(Message \cup Announcement)]
        BY <2>1, LaneOrder DEF LaneInv, Lanes
      <3>3. backlog \in [Pair -> Seq(Message)]
        BY <2>1, LaneOrder DEF LaneInv, Lanes
      <3>4. tail \in [Pair -> Nat]
        BY <2>1, LaneOrder DEF LaneInv, Lanes
      <3>5. sent \in [Pair -> Nat]
        BY <2>1, LaneOrder DEF LaneInv, Lanes
      <3>6. rcvd \in [Pair -> Nat]
        BY <2>1, LaneOrder DEF LaneInv, Lanes
      <3>7. freed \in [Pair -> 0 .. RingCap]
        BY <2>1, LaneOrder DEF LaneInv, Lanes
      <3> QED
        BY <1>1, <3>1, <3>2, <3>3, <3>4, <3>5, <3>6, <3>7 DEF TypeOK, Inv, ShardType
    <2> QED
      BY <2>1, <2>2, LaneOrder DEF LaneInOrder
  <1> QED
    BY <1>1, InvHolds, PTL

\* Neither a drain that clears the bitmap, nor one that stops at its budget,
\* leaves a message in a ring that nothing points to.
THEOREM EveryRingAnnounced == Spec => []Announced
  <1>1. ASSUME Inv PROVE Announced
    <2>1. ASSUME NEW p \in Pair
          PROVE  /\ ring[p] # <<>> => \/ p[1] \in dirty[p[2]] \cup todo[p[2]]
                                      \/ \E i \in 1 .. Len(buf[p]) : buf[p][i].kind = "announce"
                 /\ buf[p] # <<>> => buf[p][Len(buf[p])].kind = "announce"
      <3>1. buf[p] \in Seq(Message \cup Announcement)
            /\ (buf[p] # <<>> => buf[p][Len(buf[p])].kind = "announce")
        BY <1>1, LaneOrder DEF Inv
      <3>2. buf[p] # <<>> => Len(buf[p]) \in 1 .. Len(buf[p])
        BY <3>1, EmptySeq
      <3>3. PICK x, y \in Shard : p = <<x, y>> /\ x # y
        BY DEF Pair
      <3>4. ring[p] # <<>> => x \in dirty[y] \/ x \in todo[y] \/ buf[p] # <<>>
        BY <1>1, <3>3 DEF Inv, WakeInv, WakeOK
      <3> QED
        BY <3>1, <3>2, <3>3, <3>4
    <2> QED
      BY <2>1 DEF Announced
  <1> QED
    BY <1>1, InvHolds, PTL

\* No wake is lost between a shard that publishes its parked flag and looks at
\* its bitmap once more and one that pushes, announces and then reads the flag.
THEOREM NoWakeIsLost == Spec => []NoLostWake
  <1>1. ASSUME Inv PROVE NoLostWake
    <2>1. ASSUME NEW p \in Pair, pc[p[2]] = "wait", ring[p] # <<>>
          PROVE  waker[p[2]] \/ p[2] \in owes[p[1]] \cup scan[p[1]]
      <3>1. PICK x, y \in Shard : p = <<x, y>> /\ x # y
        BY DEF Pair
      <3>2. pc[y] = "wait" /\ ring[<<x, y>>] # <<>> => Coming(x, y)
        BY <1>1, <3>1 DEF Inv, WakeInv, WakeOK
      <3> QED
        BY <2>1, <3>1, <3>2 DEF Coming
    <2> QED
      BY <2>1 DEF NoLostWake
  <1> QED
    BY <1>1, InvHolds, PTL

\* A shard that spins at all before it parks blocks only when it has nothing
\* to re-push and counts no request as unanswered.
THEOREM BlocksOnlyWhenQuiet ==
    ASSUME SpinLimit # 0
    PROVE  Spec => []BlocksQuiet
  <1>1. ASSUME Inv PROVE BlocksQuiet
    BY <1>1 DEF Inv, QuietInv, Quiet, BlocksQuiet
  <1> QED
    BY <1>1, InvHolds, PTL
=============================================================================

---------------------------- MODULE ChannelsProofs ----------------------------
(***************************************************************************)
(* Theorems about Channels, for any number of threads, slots, capacities   *)
(* and values.                                                             *)
(***************************************************************************)
EXTENDS Channels, TLAPS

(***************************************************************************)
(* The inductive invariant.                                                *)
(***************************************************************************)
CallRecs ==
    [op : {"idle", "new", "done"}]
    \cup [op : {"sender", "wait", "wait_wait", "take", "close", "free"}, h : Handles]
    \cup [op : {"send", "send_wait"}, h : Handles, v : 1 .. MaxSends]
    \cup [op : {"joined"}, k : Threads \X (1 .. NThr - 1), r : Threads]
Rings == {<<>>} \cup UNION {[0 .. n - 1 -> Nat] : n \in Nat}
ChanRecs ==
    [used : BOOLEAN, q : Rings, head : Nat, count : Nat, cap : Nat,
     sopen : BOOLEAN, ropen : BOOLEAN, taken : BOOLEAN]
ThrRecs == [used : BOOLEAN, who : Threads, res : Threads]

Shape ==
    /\ chan \in [Slots -> ChanRecs]
    /\ thr \in [1 .. NThr - 1 -> ThrRecs]
    /\ call \in [Threads -> CallRecs]
    /\ holds \in [Threads -> SUBSET Handles]
    /\ ready \in SUBSET Handles
    /\ sent \in [Slots -> Seq(Nat)]
    /\ got \in [Slots -> Seq(Nat)]
    /\ kids \in [Threads -> SUBSET (Threads \X (1 .. NThr - 1))]

\* Which end a call is on: the odd handle sends, the even one receives.
Sides ==
    \A t \in Threads :
        /\ call[t].op \in {"send", "send_wait"} => call[t].h % 2 = 1
        /\ call[t].op \in {"sender", "wait", "wait_wait", "take"} => call[t].h % 2 = 0

\* What is held is open, by one thread, and a call is on an end its thread holds.
HoldInv ==
    /\ \A t \in Threads : \A h \in holds[t] : EndOpen(h)
    /\ \A t \in Threads : \A u \in Threads \ {t} : holds[t] \cap holds[u] = {}
    /\ \A t \in Threads : call[t].op \in InsideCalls => call[t].h \in holds[t]
    /\ \A i \in Slots : chan[i].used /\ ~chan[i].taken => chan[i].sopen

\* One thread releases a slot, after both ends are closed.
FreeInv ==
    /\ \A t \in Threads : call[t].op = "free" =>
          LET c == chan[SlotOf(call[t].h)] IN c.used /\ ~c.sopen /\ ~c.ropen
    /\ \A t, u \in Threads : call[t].op = "free" /\ call[u].op = "free" /\ SlotOf(call[t].h) = SlotOf(call[u].h) => t = u

\* What a call found when it was entered is so until its section.
RuleInv ==
    /\ \A t \in Threads :
          /\ call[t].op = "sender" => ~chan[SlotOf(call[t].h)].taken
          /\ call[t].op = "take" => chan[SlotOf(call[t].h)].count > 0
    /\ \A h \in ready : h % 2 = 0 /\ EndOpen(h) /\ chan[SlotOf(h)].count > 0

\* The ring of an open channel holds what was sent and not yet taken, in order.
RingOf(cap, head, n, q, s, m) ==
    /\ cap \in Nat \ {0} /\ q \in [0 .. cap - 1 -> Nat]
    /\ head \in 0 .. cap - 1 /\ n \in 0 .. cap
    /\ m \in Nat /\ Len(s) = m + n
    /\ \A k \in 0 .. n - 1 : q[(head + k) % cap] = s[m + 1 + k]
Ring(c, s, g) == RingOf(c.cap, c.head, c.count, c.q, s, Len(g))
RingInv == \A i \in Slots : chan[i].used => Ring(chan[i], sent[i], got[i])

\* A handle of a thread stands for one entry, which its parent alone gives back.
KidEntries == \A t \in Threads : \A k \in kids[t] : thr[k[2]].used /\ thr[k[2]].who = k[1]
KidsApart == \A t, u \in Threads : \A k \in kids[t], l \in kids[u] : k[2] = l[2] => t = u
JoinedKid == \A t \in Threads : call[t].op = "joined" => call[t].k \in kids[t] /\ call[t].r = call[t].k[1]
DoneResult == \A j \in 1 .. NThr - 1 : thr[j].used /\ call[thr[j].who].op = "done" => thr[j].res = thr[j].who
KidInv == KidEntries /\ KidsApart /\ JoinedKid /\ DoneResult /\ JoinGivesOwnResult

ChanInv == Shape /\ Sides /\ HoldInv /\ FreeInv /\ NoLostWakeup /\ RuleInv /\ RingInv /\ KidInv /\ RuleKeepersDoNotTrap

-----------------------------------------------------------------------------
(***************************************************************************)
(* Handles and the modulus.                                                *)
(***************************************************************************)
LEMMA HandleFacts ==
    /\ \A h \in Handles :
          /\ h \in Nat /\ SlotOf(h) \in Slots /\ h % 2 \in {0, 1}
          /\ h % 2 = 0 => h = 2 * SlotOf(h)
          /\ h % 2 = 1 => h = 2 * SlotOf(h) + 1
    /\ \A i \in Slots :
          /\ 2 * i \in Handles /\ SlotOf(2 * i) = i /\ (2 * i) % 2 = 0
          /\ 2 * i + 1 \in Handles /\ SlotOf(2 * i + 1) = i /\ (2 * i + 1) % 2 = 1
BY ChannelsAssumption DEF Handles, Slots, SlotOf

\* Two handles of one slot and one side are one handle.
LEMMA SameEnd ==
    ASSUME NEW g \in Handles, NEW h \in Handles, SlotOf(g) = SlotOf(h), g % 2 = h % 2
    PROVE  g = h
BY HandleFacts

\* The ring index wraps at most once.
LEMMA WrapOnce ==
    ASSUME NEW n \in Nat \ {0}, NEW a \in 0 .. 2 * n - 1
    PROVE  a % n = IF a < n THEN a ELSE a - n
OBVIOUS

-----------------------------------------------------------------------------
(***************************************************************************)
(* The shapes of calls.                                                    *)
(***************************************************************************)
LEMMA CallFields ==
    ASSUME NEW r \in CallRecs
    PROVE  /\ r.op \in Calls
           /\ r.op \in InsideCalls \cup {"free"} => r.h \in Handles
           /\ r.op \in {"send", "send_wait"} => r.v \in 1 .. MaxSends
           /\ r.op = "joined" => r.k \in Threads \X (1 .. NThr - 1) /\ r.r \in Threads
BY DEF CallRecs, Calls, InsideCalls

\* A call that returned is a call.
LEMMA IdleRec == Idle \in CallRecs /\ Idle.op = "idle"
BY DEF Idle, CallRecs

\* A woken call keeps its handle.
LEMMA Wakes ==
    ASSUME NEW r \in CallRecs, r.op \in {"send_wait", "wait_wait"}
    PROVE  LET s == [r EXCEPT !.op = IF @ = "send_wait" THEN "send" ELSE "wait"] IN
           /\ s \in CallRecs /\ s.h = r.h
           /\ s.op = IF r.op = "send_wait" THEN "send" ELSE "wait"
<1>1. CASE r.op = "send_wait"
  BY <1>1 DEF CallRecs
<1>2. CASE r.op = "wait_wait"
  BY <1>2 DEF CallRecs
<1> QED BY <1>1, <1>2

\* A call that goes to sleep keeps its handle.
LEMMA Sleeps ==
    ASSUME NEW r \in CallRecs, r.op \in {"send", "wait"}
    PROVE  LET w == IF r.op = "send" THEN "send_wait" ELSE "wait_wait"
               s == [r EXCEPT !.op = w] IN
           s \in CallRecs /\ s.h = r.h /\ s.op = w
<1>1. CASE r.op = "send"
  BY <1>1 DEF CallRecs
<1>2. CASE r.op = "wait"
  BY <1>2 DEF CallRecs
<1> QED BY <1>1, <1>2

-----------------------------------------------------------------------------
(***************************************************************************)
(* Steps that change one thread's call and what is ready.                  *)
(***************************************************************************)
\* What the invariant asks of a call c of thread t.
Sound(t, c) ==
    /\ c.op \in {"send", "send_wait"} => c.h % 2 = 1
    /\ c.op \in {"sender", "wait", "wait_wait", "take"} => c.h % 2 = 0
    /\ c.op \in InsideCalls => c.h \in holds[t]
    /\ c.op \notin {"free", "done"}
    /\ c.op = "send_wait" => chan[SlotOf(c.h)].ropen /\ chan[SlotOf(c.h)].count = chan[SlotOf(c.h)].cap
    /\ c.op = "wait_wait" => chan[SlotOf(c.h)].sopen /\ chan[SlotOf(c.h)].count = 0
    /\ c.op = "sender" => ~chan[SlotOf(c.h)].taken
    /\ c.op = "take" => chan[SlotOf(c.h)].count > 0
    /\ c.op = "joined" => c.k \in kids[t] /\ c.r = c.k[1]

\* A step that moves one thread to a sound call keeps the invariant.
LEMMA CallStep ==
    ASSUME ChanInv, NEW t \in Threads, NEW c \in CallRecs, Sound(t, c),
           call' = [call EXCEPT ![t] = c],
           ready' \in SUBSET Handles,
           \A h \in ready' : h % 2 = 0 /\ EndOpen(h) /\ chan[SlotOf(h)].count > 0,
           UNCHANGED <<chan, thr, holds, sent, got, kids, joined, trap>>
    PROVE  ChanInv'
<1>0. /\ call' \in [Threads -> CallRecs] /\ call'[t] = c
      /\ \A u \in Threads \ {t} : call'[u] = call[u]
  BY DEF ChanInv, Shape
<1>1. Shape'
  BY <1>0 DEF ChanInv, Shape
<1>2. Sides'
  BY <1>0 DEF ChanInv, Sides, Sound
<1>3. HoldInv'
  BY <1>0 DEF ChanInv, HoldInv, Sound, EndOpen
<1>4. FreeInv'
  BY <1>0 DEF ChanInv, FreeInv, Sound
<1>5. NoLostWakeup'
  BY <1>0 DEF ChanInv, NoLostWakeup, Sound
<1>6. RuleInv'
  BY <1>0 DEF ChanInv, RuleInv, Sound, EndOpen
<1>7. RingInv'
  BY DEF ChanInv, RingInv
<1>8. KidInv'
  <2>1. \A j \in 1 .. NThr - 1 : thr[j].who \in Threads
    BY DEF ChanInv, Shape, ThrRecs
  <2> QED
    BY <1>0, <2>1 DEF ChanInv, KidInv, KidEntries, KidsApart, JoinedKid, DoneResult, Sound, JoinGivesOwnResult
<1>9. RuleKeepersDoNotTrap'
  BY DEF ChanInv, RuleKeepersDoNotTrap
<1> QED
  BY <1>1, <1>2, <1>3, <1>4, <1>5, <1>6, <1>7, <1>8, <1>9 DEF ChanInv

\* A full table ends the process and keeps the invariant.
LEMMA TrapStep ==
    ASSUME ChanInv, NEW why \in {"chan_new: too many open channels",
                 "thr_spawn: too many running threads", "thr_spawn: cannot start a thread"},
           Trap(why)
    PROVE  ChanInv'
<1>1. UNCHANGED <<chan, thr, call, holds, ready, sent, got, kids, joined>> /\ trap' = why
  BY DEF Trap
<1>2. Shape' /\ Sides' /\ FreeInv' /\ RingInv' /\ NoLostWakeup'
  BY <1>1 DEF ChanInv, Shape, Sides, FreeInv, RingInv, NoLostWakeup
<1>3. HoldInv' /\ RuleInv'
  BY <1>1 DEF ChanInv, HoldInv, RuleInv, EndOpen
<1>4. KidInv'
  <2>1. thr' = thr /\ call' = call /\ kids' = kids /\ joined' = joined /\ KidInv
    BY <1>1 DEF ChanInv
  <2> QED
    <3>1. KidEntries'
      BY <2>1 DEF KidInv, KidEntries
    <3>2. KidsApart'
      BY <2>1 DEF KidInv, KidsApart
    <3>3. JoinedKid'
      BY <2>1 DEF KidInv, JoinedKid
    <3>4. DoneResult'
      BY <2>1 DEF KidInv, DoneResult
    <3>5. JoinGivesOwnResult'
      BY <2>1 DEF KidInv, JoinGivesOwnResult
    <3> QED BY <3>1, <3>2, <3>3, <3>4, <3>5 DEF KidInv
<1>5. RuleKeepersDoNotTrap'
  BY <1>1 DEF RuleKeepersDoNotTrap
<1> QED
  BY <1>2, <1>3, <1>4, <1>5 DEF ChanInv

-----------------------------------------------------------------------------
(***************************************************************************)
(* Who is inside a call, and who sleeps.                                   *)
(***************************************************************************)
LEMMA Inside ==
    ASSUME ChanInv, NEW u \in Threads, call[u].op \in InsideCalls
    PROVE  /\ call[u].h \in Handles /\ SlotOf(call[u].h) \in Slots
           /\ call[u].h \in holds[u] /\ EndOpen(call[u].h)
           /\ chan[SlotOf(call[u].h)] \in ChanRecs /\ chan[SlotOf(call[u].h)].used
<1>1. call[u] \in CallRecs
  BY DEF ChanInv, Shape
<1>2. call[u].h \in Handles /\ call[u].h \in holds[u]
  BY <1>1, CallFields DEF ChanInv, HoldInv
<1> QED
  BY <1>2, HandleFacts DEF ChanInv, HoldInv, Shape, EndOpen

\* No other thread is inside a call on the same end.
LEMMA Alone ==
    ASSUME ChanInv, NEW t \in Threads, NEW u \in Threads, t # u,
           NEW g \in holds[t], NEW h \in holds[u], g % 2 = h % 2
    PROVE  SlotOf(g) # SlotOf(h)
<1>1. g \in Handles /\ h \in Handles /\ g # h
  BY DEF ChanInv, Shape, HoldInv
<1> QED
  BY <1>1, SameEnd

\* The end is one thread's, so no two sleep on it, and a signal wakes all.
LEMMA SignalWakesAll ==
    ASSUME ChanInv, NEW t, NEW c, NEW i \in Slots, NEW op \in {"send_wait", "wait_wait"},
           Signal(t, c, Sleepers(op, i))
    PROVE  call' = Woken(t, c, Sleepers(op, i))
<1>1. ASSUME NEW u \in Sleepers(op, i), NEW w \in Sleepers(op, i), u # w PROVE FALSE
  <2>1. /\ u \in Threads /\ w \in Threads /\ call[u].op = op /\ call[w].op = op
        /\ SlotOf(call[u].h) = i /\ SlotOf(call[w].h) = i
    BY DEF Sleepers
  <2>2. call[u].h \in holds[u] /\ call[w].h \in holds[w] /\ call[u].h % 2 = call[w].h % 2
    BY <2>1, Inside DEF InsideCalls, ChanInv, Sides
  <2> QED
    BY <1>1, <2>1, <2>2, Alone
<1>2. ASSUME NEW u \in Sleepers(op, i) PROVE Sleepers(op, i) = {u}
  BY <1>1
<1> QED
  BY <1>2 DEF Signal

\* Waking changes the state of sleeping calls alone.
LEMMA WokenCalls ==
    ASSUME call \in [Threads -> CallRecs], NEW t \in Threads, NEW c \in CallRecs,
           NEW op \in {"send_wait", "wait_wait"}, NEW i,
           call' = Woken(t, c, Sleepers(op, i))
    PROVE  /\ call' \in [Threads -> CallRecs] /\ call'[t] = c
           /\ \A u \in Threads \ {t} :
                 \/ call'[u] = call[u] /\ ~(call[u].op = op /\ SlotOf(call[u].h) = i)
                 \/ /\ call[u].op = op /\ call'[u].h = call[u].h
                    /\ call'[u].op = IF op = "send_wait" THEN "send" ELSE "wait"
<1>1. ASSUME NEW u \in Threads \ {t}, u \in Sleepers(op, i)
      PROVE  /\ call'[u] \in CallRecs /\ call[u].op = op /\ call'[u].h = call[u].h
             /\ call'[u].op = IF op = "send_wait" THEN "send" ELSE "wait"
  <2>1. call[u] \in CallRecs /\ call[u].op = op
    BY <1>1 DEF Sleepers
  <2>2. call'[u] = [call[u] EXCEPT !.op = IF @ = "send_wait" THEN "send" ELSE "wait"]
    BY <1>1 DEF Woken
  <2> QED
    BY <2>1, <2>2, Wakes
<1>2. ASSUME NEW u \in Threads \ {t}, u \notin Sleepers(op, i)
      PROVE  call'[u] = call[u] /\ ~(call[u].op = op /\ SlotOf(call[u].h) = i)
  BY <1>2 DEF Woken, Sleepers
<1>3. call'[t] = c
  BY DEF Woken
<1>4. call' = [u \in Threads |-> call'[u]]
  BY DEF Woken
<1> QED
  BY <1>1, <1>2, <1>3, <1>4

-----------------------------------------------------------------------------
(***************************************************************************)
(* The first state, and the steps that only move one thread.               *)
(***************************************************************************)
LEMMA InitInv == Init => ChanInv
<1> SUFFICES ASSUME Init PROVE ChanInv
  OBVIOUS
<1>1. \A t \in Threads : call[t].op \in {"idle", "new"}
  BY DEF Init, Idle
<1>2. Shape
  <2>1. NoChan \in ChanRecs
    BY DEF NoChan, ChanRecs, Rings
  <2>2. NoThr \in ThrRecs
    BY ChannelsAssumption DEF NoThr, ThrRecs
  <2>3. call \in [Threads -> CallRecs]
    BY IdleRec DEF Init, CallRecs
  <2> QED
    BY <2>1, <2>2, <2>3 DEF Init, Shape
<1>3. Sides /\ NoLostWakeup
  BY <1>1 DEF Sides, NoLostWakeup
<1>4. HoldInv
  BY <1>1 DEF Init, HoldInv, InsideCalls, NoChan
<1>5. FreeInv
  BY <1>1 DEF FreeInv
<1>6. RuleInv /\ RingInv
  BY <1>1 DEF Init, RuleInv, RingInv, NoChan
<1>7. KidInv
  BY <1>1 DEF Init, KidInv, KidEntries, KidsApart, JoinedKid, DoneResult, JoinGivesOwnResult, NoThr
<1>8. RuleKeepersDoNotTrap
  BY DEF Init, RuleKeepersDoNotTrap
<1> QED
  BY <1>2, <1>3, <1>4, <1>5, <1>6, <1>7, <1>8 DEF ChanInv

\* An end that is ready to take from has a value in its ring.
LEMMA Ready ==
    ASSUME ChanInv
    PROVE  /\ ready \in SUBSET Handles
           /\ \A h \in ready : h % 2 = 0 /\ EndOpen(h) /\ chan[SlotOf(h)].count > 0
BY DEF ChanInv, Shape, RuleInv

\* A held end is open, so its lookup succeeds.
LEMMA ChanOfStep ==
    ASSUME ChanInv, NEW t \in Threads, NEW c \in CallRecs, Sound(t, c), chan_of(t, c)
    PROVE  ChanInv'
<1>1. EndOpen(c.h)
  BY DEF ChanInv, HoldInv, chan_of
<1>2. chan[SlotOf(c.h)].used
  BY <1>1 DEF EndOpen
<1>3. /\ call' = [call EXCEPT ![t] = c]
      /\ UNCHANGED <<chan, thr, holds, ready, stop, sent, got, opens, kids, joined, trap>>
  BY <1>2 DEF chan_of
<1> QED
  BY <1>3, Ready, CallStep

\* id_chan_of, for each call, keeps the invariant.
LEMMA EnterStep ==
    ASSUME ChanInv, NEW t \in Threads, NEW h \in holds[t],
           \/ EnterSender(t, h) \/ EnterSend(t, h) \/ EnterWait(t, h) \/ EnterTake(t, h) \/ EnterClose(t, h)
    PROVE  ChanInv'
<1>0. h \in Handles /\ SlotOf(h) \in Slots
  BY HandleFacts DEF ChanInv, Shape
<1>1. CASE EnterSender(t, h)
  <2> DEFINE c == [op |-> "sender", h |-> h]
  <2>1. c \in CallRecs /\ Sound(t, c)
    BY <1>0, <1>1 DEF CallRecs, Sound, EnterSender
  <2> QED
    BY <1>1, <2>1, ChanOfStep DEF EnterSender
<1>2. CASE EnterSend(t, h)
  <2> DEFINE c == [op |-> "send", h |-> h, v |-> Len(sent[SlotOf(h)]) + 1]
  <2>1. Len(sent[SlotOf(h)]) + 1 \in 1 .. MaxSends
    BY <1>0, <1>2, ChannelsAssumption DEF EnterSend, ChanInv, Shape
  <2>2. c \in CallRecs /\ Sound(t, c)
    BY <1>0, <1>2, <2>1 DEF CallRecs, Sound, EnterSend
  <2> QED
    BY <1>2, <2>2, ChanOfStep DEF EnterSend
<1>3. CASE EnterWait(t, h)
  <2> DEFINE c == [op |-> "wait", h |-> h]
  <2>1. c \in CallRecs /\ Sound(t, c)
    BY <1>0, <1>3 DEF CallRecs, Sound, EnterWait
  <2> QED
    BY <1>3, <2>1, ChanOfStep DEF EnterWait
<1>4. CASE EnterTake(t, h)
  <2> DEFINE c == [op |-> "take", h |-> h]
  <2>1. c \in CallRecs /\ Sound(t, c)
    BY <1>0, <1>4, Ready DEF CallRecs, Sound, EnterTake
  <2> QED
    BY <1>4, <2>1, ChanOfStep DEF EnterTake
<1>5. CASE EnterClose(t, h)
  <2> DEFINE c == [op |-> "close", h |-> h]
  <2>1. c \in CallRecs /\ Sound(t, c)
    BY <1>0, <1>5 DEF CallRecs, Sound, EnterClose
  <2> QED
    BY <1>5, <2>1, ChanOfStep DEF EnterClose
<1> QED
  BY <1>1, <1>2, <1>3, <1>4, <1>5

\* A spurious wake-up keeps the invariant.
LEMMA WakeStep ==
    ASSUME ChanInv, NEW t \in Threads, SpuriousWake(t)
    PROVE  ChanInv'
<1> DEFINE c == [call[t] EXCEPT !.op = IF @ = "send_wait" THEN "send" ELSE "wait"]
<1>1. call[t] \in CallRecs /\ call[t].op \in {"send_wait", "wait_wait"}
  BY DEF ChanInv, Shape, SpuriousWake
<1>2. /\ c \in CallRecs /\ c.h = call[t].h
      /\ c.op = IF call[t].op = "send_wait" THEN "send" ELSE "wait"
  BY <1>1, Wakes
<1>3. call[t].h \in holds[t]
  BY <1>1, Inside DEF InsideCalls
<1>4. Sound(t, c)
  BY <1>1, <1>2, <1>3 DEF Sound, ChanInv, Sides
<1>5. call' = [call EXCEPT ![t] = c] /\ UNCHANGED <<chan, thr, holds, ready, sent, got, kids, joined, trap>>
  BY <1>1 DEF SpuriousWake, ChanInv, Shape
<1> QED
  BY <1>2, <1>4, <1>5, Ready, CallStep

\* A thread outside any call claims nothing.
LEMMA IdleSound ==
    ASSUME NEW t \in Threads
    PROVE  Idle \in CallRecs /\ Sound(t, Idle)
BY IdleRec DEF Sound, InsideCalls

\* id_chan_wait keeps the invariant.
LEMMA WaitStep ==
    ASSUME ChanInv, NEW t \in Threads, chan_wait(t)
    PROVE  ChanInv'
<1> DEFINE h == call[t].h
           c == chan[SlotOf(h)]
<1>1. call[t] \in CallRecs /\ call[t].op = "wait" /\ h % 2 = 0
  BY DEF ChanInv, Shape, Sides, chan_wait, Running
<1>2. h \in Handles /\ h \in holds[t] /\ EndOpen(h) /\ c \in ChanRecs
  BY <1>1, Inside DEF InsideCalls
<1>3. CASE c.count = 0 /\ c.sopen
  <2> DEFINE s == [call[t] EXCEPT !.op = "wait_wait"]
  <2>1. s \in CallRecs /\ s.h = h /\ s.op = "wait_wait"
    BY <1>1, Sleeps
  <2>2. Sound(t, s)
    BY <1>1, <1>2, <1>3, <2>1 DEF Sound
  <2>3. call' = [call EXCEPT ![t] = s] /\ UNCHANGED <<chan, thr, holds, ready, sent, got, kids, joined, trap>>
    BY <1>3 DEF chan_wait
  <2> QED
    BY <2>1, <2>2, <2>3, Ready, CallStep
<1>4. CASE ~(c.count = 0 /\ c.sopen)
  <2>1. /\ call' = [call EXCEPT ![t] = Idle]
        /\ ready' = IF Ok(c) THEN ready \cup {h} ELSE ready
        /\ UNCHANGED <<chan, thr, holds, sent, got, kids, joined, trap>>
    BY <1>4 DEF chan_wait, Return
  <2>2. /\ ready' \in SUBSET Handles
        /\ \A g \in ready' : g % 2 = 0 /\ EndOpen(g) /\ chan[SlotOf(g)].count > 0
    BY <1>1, <1>2, <2>1, Ready DEF Ok
  <2> QED
    BY <2>1, <2>2, IdleSound, CallStep
<1> QED
  BY <1>3, <1>4

-----------------------------------------------------------------------------
(***************************************************************************)
(* Steps that wake: t goes on to c, the sleepers of one end are woken.     *)
(***************************************************************************)
\* What is left of each part once the calls are t's new one and the others',
\* woken or not.
LEMMA WokenParts ==
    ASSUME ChanInv, NEW t \in Threads, NEW c \in CallRecs, c.op \in {"idle", "free"},
           NEW op \in {"send_wait", "wait_wait"}, NEW i,
           call' = Woken(t, c, Sleepers(op, i))
    PROVE  /\ call' \in [Threads -> CallRecs] /\ call'[t] = c
           /\ Sides'
           /\ \A u \in Threads : call'[u].op \in InsideCalls =>
                 u # t /\ call[u].op \in InsideCalls /\ call'[u].h = call[u].h
           /\ \A u \in Threads : call'[u].op \in {"sender", "take"} => call[u].op = call'[u].op
           /\ \A u \in Threads : call'[u].op \in {"send_wait", "wait_wait"} =>
                 call'[u] = call[u] /\ ~(call[u].op = op /\ SlotOf(call[u].h) = i)
           /\ \A u \in Threads \ {t} : call'[u].op = "free" => call'[u] = call[u]
<1>1. /\ call' \in [Threads -> CallRecs] /\ call'[t] = c
      /\ \A u \in Threads \ {t} :
            \/ call'[u] = call[u] /\ ~(call[u].op = op /\ SlotOf(call[u].h) = i)
            \/ /\ call[u].op = op /\ call'[u].h = call[u].h
               /\ call'[u].op = IF op = "send_wait" THEN "send" ELSE "wait"
  BY WokenCalls DEF ChanInv, Shape
<1>2. Sides'
  BY <1>1 DEF ChanInv, Sides
<1> QED
  BY <1>1, <1>2 DEF InsideCalls

\* Waking leaves what is known of joins.
LEMMA WokenKids ==
    ASSUME ChanInv, NEW t \in Threads, NEW c \in CallRecs, c.op \in {"idle", "free"},
           NEW op \in {"send_wait", "wait_wait"}, NEW i,
           call' = Woken(t, c, Sleepers(op, i)),
           UNCHANGED <<thr, kids, joined>>
    PROVE  KidInv'
<1>1. /\ call'[t] = c
      /\ \A u \in Threads \ {t} :
            \/ call'[u] = call[u]
            \/ call'[u].op = IF op = "send_wait" THEN "send" ELSE "wait"
  BY WokenCalls DEF ChanInv, Shape
<1>2. KidEntries' /\ KidsApart' /\ JoinGivesOwnResult'
  BY DEF ChanInv, KidInv, KidEntries, KidsApart, JoinGivesOwnResult
<1>3. JoinedKid'
  BY <1>1 DEF ChanInv, KidInv, JoinedKid
<1>4. DoneResult'
  <2>1. \A j \in 1 .. NThr - 1 : thr[j].who \in Threads
    BY DEF ChanInv, Shape, ThrRecs
  <2> QED
    BY <1>1, <2>1 DEF ChanInv, KidInv, DoneResult
<1> QED
  BY <1>2, <1>3, <1>4 DEF KidInv

\* Whoever is inside a call with t on the same slot is on the other end.
LEMMA OtherEnd ==
    ASSUME ChanInv, NEW t \in Threads, NEW u \in Threads \ {t},
           call[t].op \in InsideCalls, call[u].op \in InsideCalls,
           SlotOf(call[t].h) = SlotOf(call[u].h)
    PROVE  call[t].h % 2 # call[u].h % 2
BY Inside, Alone

(***************************************************************************)
(* chan_send                                                               *)
(***************************************************************************)
LEMMA SentRing ==
    ASSUME NEW cap \in Nat \ {0}, NEW head \in 0 .. cap - 1, NEW n \in 0 .. cap - 1,
           NEW q \in [0 .. cap - 1 -> Nat], NEW s \in Seq(Nat), NEW m \in Nat, NEW v \in Nat,
           RingOf(cap, head, n, q, s, m)
    PROVE  RingOf(cap, head, n + 1, [q EXCEPT ![(head + n) % cap] = v], Append(s, v), m)
<1>0. Len(s) = m + n
  BY DEF RingOf
<1> DEFINE at(k) == (head + k) % cap
           r == [q EXCEPT ![at(n)] = v]
<1>1. \A k \in 0 .. n : (head + k < cap => at(k) = head + k) /\ (head + k >= cap => at(k) = head + k - cap)
  <2> TAKE k \in 0 .. n
  <2> DEFINE a == head + k
  <2>1. a \in 0 .. 2 * cap - 1
    OBVIOUS
  <2>2. a % cap = IF a < cap THEN a ELSE a - cap
    <3> HIDE DEF a
    <3> QED BY <2>1, WrapOnce
  <2> QED BY <2>2
<1>2. \A k \in 0 .. n - 1 : q[at(k)] = s[m + 1 + k]
  BY DEF RingOf
<1> HIDE DEF at
<1>3. at(n) \in 0 .. cap - 1
  <2>1. CASE head + n < cap
    BY <1>1, <2>1
  <2>2. CASE head + n >= cap
    BY <1>1, <2>2
  <2> QED BY <2>1, <2>2
<1>4. \A k \in 0 .. n - 1 : at(k) \in 0 .. cap - 1 /\ at(k) # at(n)
  <2> TAKE k \in 0 .. n - 1
  <2>0. k \in 0 .. n /\ k < n
    OBVIOUS
  <2>1. CASE head + n < cap
    <3>1. at(k) = head + k /\ at(n) = head + n
      BY <1>1, <2>0, <2>1
    <3> QED BY <2>0, <2>1, <3>1
  <2>2. CASE head + n >= cap /\ head + k < cap
    <3>1. at(k) = head + k /\ at(n) = head + n - cap
      BY <1>1, <2>0, <2>2
    <3> QED BY <2>0, <2>2, <3>1
  <2>3. CASE head + n >= cap /\ head + k >= cap
    BY <1>1, <2>3, SMTT(30)
  <2> QED BY <2>1, <2>2, <2>3
<1>5. /\ Len(s) \in Nat /\ Len(Append(s, v)) = Len(s) + 1 /\ Append(s, v)[Len(s) + 1] = v
      /\ \A k \in 1 .. Len(s) : Append(s, v)[k] = s[k]
  OBVIOUS
<1>6. \A k \in 0 .. n : r[at(k)] = Append(s, v)[m + 1 + k]
  <2> TAKE k \in 0 .. n
  <2>1. CASE k = n
    <3>1. r[at(n)] = v
      BY <1>3
    <3>2. m + 1 + k = Len(s) + 1
      BY <1>0, <2>1
    <3> QED
      BY <1>5, <2>1, <3>1, <3>2
  <2>2. CASE k # n
    <3>1. k \in 0 .. n - 1 /\ m + 1 + k \in 1 .. Len(s)
      BY <1>0, <2>2
    <3>2. r[at(k)] = q[at(k)]
      BY <1>3, <1>4, <3>1
    <3> QED
      BY <1>2, <1>5, <3>1, <3>2
  <2> QED BY <2>1, <2>2
<1>7. r \in [0 .. cap - 1 -> Nat]
  BY <1>3
<1>8. Len(Append(s, v)) = m + (n + 1) /\ n + 1 \in 0 .. cap
  BY <1>0, <1>5
<1> HIDE DEF r
<1>9. \A k \in 0 .. (n + 1) - 1 : r[at(k)] = Append(s, v)[m + 1 + k]
  <2>1. (n + 1) - 1 = n
    OBVIOUS
  <2> QED BY <1>6, <2>1
<1>10. /\ r \in [0 .. cap - 1 -> Nat]
       /\ n + 1 \in 0 .. cap /\ Len(Append(s, v)) = m + (n + 1)
       /\ \A k \in 0 .. (n + 1) - 1 : r[(head + k) % cap] = Append(s, v)[m + 1 + k]
  BY <1>7, <1>8, <1>9, Zenon DEF at
<1>11. RingOf(cap, head, n + 1, r, Append(s, v), m)
  BY <1>10, Zenon DEF RingOf
<1> QED
  BY <1>11 DEF r, at

\* A value is put in the ring of the sender's slot.
LEMMA SendEffect ==
    ASSUME ChanInv, NEW t \in Threads, chan_send(t),
           chan[SlotOf(call[t].h)].ropen, ~Full(chan[SlotOf(call[t].h)])
    PROVE  LET i == SlotOf(call[t].h)
               c == chan[i]
           IN /\ i \in Slots /\ c \in ChanRecs /\ call[t].v \in 1 .. MaxSends
              /\ chan' \in [Slots -> ChanRecs] /\ sent' \in [Slots -> Seq(Nat)]
              /\ \A j \in Slots \ {i} : chan'[j] = chan[j] /\ sent'[j] = sent[j]
              /\ chan'[i].used = c.used /\ chan'[i].sopen = c.sopen /\ chan'[i].ropen = c.ropen
              /\ chan'[i].taken = c.taken /\ chan'[i].cap = c.cap /\ chan'[i].head = c.head
              /\ chan'[i].count = c.count + 1 /\ c.count \in 0 .. c.cap - 1
              /\ sent'[i] = Append(sent[i], call[t].v)
              /\ call' = Woken(t, Idle, Sleepers("wait_wait", i))
              /\ Ring(chan'[i], sent'[i], got[i])
              /\ UNCHANGED <<thr, holds, ready, got, opens, kids, joined, trap>>
<1> DEFINE i == SlotOf(call[t].h)
           c == chan[i]
           v == call[t].v
<1>1. call[t] \in CallRecs /\ call[t].op = "send"
  BY DEF ChanInv, Shape, chan_send, Running
<1>2. v \in 1 .. MaxSends /\ v \in Nat
  BY <1>1, CallFields, ChannelsAssumption
<1>3. i \in Slots /\ c \in ChanRecs /\ c.used
  BY <1>1, Inside DEF InsideCalls
<1>4. /\ chan' = [chan EXCEPT ![i] = [c EXCEPT !.q = [c.q EXCEPT ![Cell(c)] = v], !.count = c.count + 1]]
      /\ sent' = [sent EXCEPT ![i] = Append(sent[i], v)]
      /\ Signal(t, Idle, Sleepers("wait_wait", i))
      /\ UNCHANGED <<thr, holds, ready, got, opens, kids, joined, trap>>
  BY DEF chan_send
<1>5. Ring(c, sent[i], got[i])
  BY <1>3 DEF ChanInv, RingInv
<1>6. /\ c.cap \in Nat \ {0} /\ c.head \in 0 .. c.cap - 1 /\ c.count \in 0 .. c.cap - 1
      /\ c.q \in [0 .. c.cap - 1 -> Nat] /\ Len(got[i]) \in Nat
  <2>1. /\ c.cap \in Nat \ {0} /\ c.q \in [0 .. c.cap - 1 -> Nat]
        /\ c.head \in 0 .. c.cap - 1 /\ c.count \in 0 .. c.cap /\ Len(got[i]) \in Nat
    BY <1>5, Zenon DEF Ring, RingOf
  <2>2. c.count # c.cap
    BY DEF Full
  <2> HIDE DEF c
  <2> QED BY <2>1, <2>2
<1>7. chan \in [Slots -> ChanRecs] /\ sent[i] \in Seq(Nat) /\ sent \in [Slots -> Seq(Nat)]
  BY <1>3 DEF ChanInv, Shape
<1> DEFINE r == [c.q EXCEPT ![(c.head + c.count) % c.cap] = v]
           d == [c EXCEPT !.q = r, !.count = c.count + 1]
<1>8. RingOf(c.cap, c.head, c.count + 1, r, Append(sent[i], v), Len(got[i])) 
  <2> HIDE DEF c, i, v
  <2> QED BY <1>2, <1>5, <1>6, <1>7, SentRing DEF Ring
<1>9. d \in ChanRecs
  <2>1. r \in Rings
    <3> HIDE DEF r
    <3> QED BY <1>6, <1>8 DEF Rings, RingOf
  <2>2. c.count + 1 \in Nat
    BY <1>6
  <2> HIDE DEF r
  <2> QED BY <1>3, <2>1, <2>2 DEF ChanRecs
<1>10. /\ d.used = c.used /\ d.sopen = c.sopen /\ d.ropen = c.ropen /\ d.taken = c.taken
       /\ d.cap = c.cap /\ d.head = c.head /\ d.count = c.count + 1 /\ d.q = r
  <2> HIDE DEF r
  <2> QED BY <1>3 DEF ChanRecs
<1>11. Ring(d, Append(sent[i], v), got[i])
  <2> HIDE DEF d, r, c, i, v
  <2> QED BY <1>8, <1>10 DEF Ring
<1>12. chan'[i] = d /\ chan' \in [Slots -> ChanRecs] /\ \A j \in Slots \ {i} : chan'[j] = chan[j]
  <2>1. chan' = [chan EXCEPT ![i] = d]
    BY <1>4 DEF Cell
  <2> HIDE DEF d
  <2> QED BY <1>3, <1>7, <1>9, <2>1
<1>13. sent'[i] = Append(sent[i], v) /\ sent' \in [Slots -> Seq(Nat)] /\ \A j \in Slots \ {i} : sent'[j] = sent[j]
  BY <1>2, <1>3, <1>4, <1>7
<1>14. call' = Woken(t, Idle, Sleepers("wait_wait", i))
  <2> HIDE DEF i
  <2> QED BY <1>3, <1>4, SignalWakesAll
<1> HIDE DEF d, r
<1> QED
  BY <1>2, <1>3, <1>4, <1>6, <1>10, <1>11, <1>12, <1>13, <1>14

\* A step on the ring of a slot leaves the ends of all channels as they are.
LEMMA FlagsStep ==
    ASSUME ChanInv, NEW t \in Threads, NEW op \in {"send_wait", "wait_wait"}, NEW i,
           call' = Woken(t, Idle, Sleepers(op, i)),
           \A j \in Slots : /\ chan'[j].used = chan[j].used /\ chan'[j].sopen = chan[j].sopen
                            /\ chan'[j].ropen = chan[j].ropen /\ chan'[j].taken = chan[j].taken,
           UNCHANGED <<thr, holds, kids, joined, trap>>
    PROVE  /\ Sides' /\ HoldInv' /\ FreeInv' /\ KidInv' /\ RuleKeepersDoNotTrap'
           /\ \A h \in Handles : EndOpen(h) => EndOpen(h)'
<1>1. /\ call' \in [Threads -> CallRecs] /\ call'[t] = Idle /\ Sides'
      /\ \A u \in Threads : call'[u].op \in InsideCalls =>
            u # t /\ call[u].op \in InsideCalls /\ call'[u].h = call[u].h
      /\ \A u \in Threads \ {t} : call'[u].op = "free" => call'[u] = call[u]
  BY IdleRec, WokenParts
<1>2. KidInv'
  BY IdleRec, WokenKids
<1>3. \A h \in Handles : EndOpen(h) => EndOpen(h)'
  BY HandleFacts DEF EndOpen
<1>4. HoldInv'
  <2>1. \A u \in Threads : holds[u] \subseteq Handles
    BY DEF ChanInv, Shape
  <2>2. (\A u \in Threads : \A h \in holds[u] : EndOpen(h))'
    BY <1>3, <2>1 DEF ChanInv, HoldInv
  <2>3. (\A u \in Threads : call[u].op \in InsideCalls => call[u].h \in holds[u])'
    BY <1>1 DEF ChanInv, HoldInv
  <2> QED
    BY <2>2, <2>3 DEF ChanInv, HoldInv
<1>5. FreeInv'
  <2>1. \A u \in Threads : call'[u].op = "free" => call'[u] = call[u] /\ SlotOf(call[u].h) \in Slots
    <3>1. \A u \in Threads : call'[u].op = "free" => call'[u] = call[u]
      BY <1>1, IdleRec
    <3>2. \A u \in Threads : call[u].op = "free" => call[u].h \in Handles
      BY CallFields DEF ChanInv, Shape
    <3> QED
      BY <3>1, <3>2, HandleFacts
  <2> QED
    BY <2>1 DEF ChanInv, FreeInv
<1> QED
  BY <1>1, <1>2, <1>3, <1>4, <1>5 DEF ChanInv, RuleKeepersDoNotTrap

\* id_chan_send with room in the ring keeps the invariant.
LEMMA SentStep ==
    ASSUME ChanInv, NEW t \in Threads, chan_send(t),
           chan[SlotOf(call[t].h)].ropen, ~Full(chan[SlotOf(call[t].h)])
    PROVE  ChanInv'
<1> DEFINE i == SlotOf(call[t].h)
           c == chan[i]
<1>1. /\ i \in Slots /\ c \in ChanRecs
      /\ chan' \in [Slots -> ChanRecs] /\ sent' \in [Slots -> Seq(Nat)]
      /\ \A j \in Slots \ {i} : chan'[j] = chan[j] /\ sent'[j] = sent[j]
      /\ chan'[i].used = c.used /\ chan'[i].sopen = c.sopen /\ chan'[i].ropen = c.ropen
      /\ chan'[i].taken = c.taken
      /\ chan'[i].count = c.count + 1 /\ c.count \in Nat
      /\ call' = Woken(t, Idle, Sleepers("wait_wait", i))
      /\ Ring(chan'[i], sent'[i], got[i])
      /\ UNCHANGED <<thr, holds, ready, got, kids, joined, trap>>
  BY SendEffect DEF ChanRecs
<1>2. call[t].op = "send" /\ call[t].h % 2 = 1
  BY DEF ChanInv, Sides, chan_send, Running
<1>3. /\ Sides' /\ HoldInv' /\ FreeInv' /\ KidInv' /\ RuleKeepersDoNotTrap'
      /\ \A h \in Handles : EndOpen(h) => EndOpen(h)'
  BY <1>1, FlagsStep
<1>4. /\ call' \in [Threads -> CallRecs]
      /\ \A u \in Threads : call'[u].op \in InsideCalls =>
            u # t /\ call[u].op \in InsideCalls /\ call'[u].h = call[u].h
      /\ \A u \in Threads : call'[u].op \in {"sender", "take"} => call[u].op = call'[u].op
      /\ \A u \in Threads : call'[u].op \in {"send_wait", "wait_wait"} =>
            call'[u] = call[u] /\ ~(call[u].op = "wait_wait" /\ SlotOf(call[u].h) = i)
  <2>1. call' = Woken(t, Idle, Sleepers("wait_wait", i))
    BY <1>1
  <2> HIDE DEF i
  <2> QED BY <2>1, IdleRec, WokenParts
<1>5. \A u \in Threads : call[u].op \in InsideCalls => SlotOf(call[u].h) \in Slots
  BY Inside
<1>6. \A h \in ready : h \in Handles /\ SlotOf(h) \in Slots
  BY Ready, HandleFacts
<1> HIDE DEF i
<1>7. Shape'
  BY <1>1, <1>4 DEF ChanInv, Shape
<1>8. NoLostWakeup'
  <2>1. ASSUME NEW u \in Threads, call'[u].op \in {"send_wait", "wait_wait"}
        PROVE  call'[u] = call[u] /\ chan'[SlotOf(call[u].h)] = chan[SlotOf(call[u].h)]
    <3>1. /\ u # t /\ call[u].op \in InsideCalls /\ call'[u] = call[u]
          /\ ~(call[u].op = "wait_wait" /\ SlotOf(call[u].h) = i)
      BY <1>4, <2>1 DEF InsideCalls
    <3>2. call[u].op = "send_wait" => call[u].h % 2 = 1
      BY DEF ChanInv, Sides
    <3>3. call[u].op = "send_wait" => SlotOf(call[u].h) # SlotOf(call[t].h)
      BY <1>2, <3>1, <3>2, OtherEnd DEF InsideCalls
    <3>4. SlotOf(call[u].h) \in Slots \ {i}
      BY <1>5, <2>1, <3>1, <3>3 DEF i
    <3> QED BY <1>1, <3>1, <3>4
  <2> QED
    BY <2>1 DEF ChanInv, NoLostWakeup
<1>9. RuleInv'
  <2>1. ASSUME NEW j \in Slots, chan[j].count > 0 PROVE chan'[j].count > 0
    <3>1. CASE j = i
      BY <1>1, <3>1
    <3>2. CASE j # i
      BY <1>1, <2>1, <3>2
    <3> QED BY <3>1, <3>2
  <2>2. \A j \in Slots : chan'[j].taken = chan[j].taken
    BY <1>1
  <2>3. \A u \in Threads : call'[u].op \in {"sender", "take"} =>
           call[u].op = call'[u].op /\ call'[u].h = call[u].h /\ SlotOf(call[u].h) \in Slots
    BY <1>4, <1>5 DEF InsideCalls
  <2>4. (\A h \in ready : h % 2 = 0 /\ EndOpen(h) /\ chan[SlotOf(h)].count > 0)'
    BY <1>1, <1>3, <1>6, <2>1, Ready
  <2>5. (\A u \in Threads : /\ call[u].op = "sender" => ~chan[SlotOf(call[u].h)].taken
                            /\ call[u].op = "take" => chan[SlotOf(call[u].h)].count > 0)'
    BY <2>1, <2>2, <2>3 DEF ChanInv, RuleInv
  <2> QED BY <2>4, <2>5 DEF RuleInv
<1>10. RingInv'
  BY <1>1 DEF ChanInv, RingInv
<1> QED
  BY <1>3, <1>7, <1>8, <1>9, <1>10 DEF ChanInv

\* id_chan_send keeps the invariant.
LEMMA SendStep ==
    ASSUME ChanInv, NEW t \in Threads, chan_send(t)
    PROVE  ChanInv'
<1> DEFINE h == call[t].h
           c == chan[SlotOf(h)]
<1>1. call[t] \in CallRecs /\ call[t].op = "send" /\ h % 2 = 1
  BY DEF ChanInv, Shape, Sides, chan_send, Running
<1>2. h \in holds[t]
  BY <1>1, Inside DEF InsideCalls
<1>3. CASE c.ropen /\ Full(c)
  <2> DEFINE s == [call[t] EXCEPT !.op = "send_wait"]
  <2>1. s \in CallRecs /\ s.h = h /\ s.op = "send_wait"
    BY <1>1, Sleeps
  <2>2. Sound(t, s)
    BY <1>1, <1>2, <1>3, <2>1 DEF Sound, Full
  <2>3. call' = [call EXCEPT ![t] = s] /\ UNCHANGED <<chan, thr, holds, ready, sent, got, kids, joined, trap>>
    BY <1>3 DEF chan_send
  <2> QED
    BY <2>1, <2>2, <2>3, Ready, CallStep
<1>4. CASE c.ropen /\ ~Full(c)
  BY <1>4, SentStep
<1>5. CASE ~c.ropen
  <2>1. call' = [call EXCEPT ![t] = Idle] /\ UNCHANGED <<chan, thr, holds, ready, sent, got, kids, joined, trap>>
    BY <1>5 DEF chan_send, Return
  <2> QED
    BY <2>1, IdleSound, Ready, CallStep
<1> QED
  BY <1>3, <1>4, <1>5

(***************************************************************************)
(* chan_take                                                               *)
(***************************************************************************)
IsOldest(x, s, m) == x = s[m + 1]
\* A ring whose head moves on holds the rest of what was sent.
LEMMA TakenRing ==
    ASSUME NEW cap \in Nat \ {0}, NEW head \in 0 .. cap - 1, NEW n \in 1 .. cap,
           NEW q \in [0 .. cap - 1 -> Nat], NEW s \in Seq(Nat), NEW m \in Nat,
           RingOf(cap, head, n, q, s, m)
    PROVE  /\ RingOf(cap, (head + 1) % cap, n - 1, q, s, m + 1)
           /\ IsOldest(q[head], s, m)
<1> DEFINE at(a) == a % cap
<1>1. \A a \in 0 .. 2 * cap - 1 : (a < cap => at(a) = a) /\ (a >= cap => at(a) = a - cap)
  <2> TAKE a \in 0 .. 2 * cap - 1
  <2>1. a % cap = IF a < cap THEN a ELSE a - cap
    BY WrapOnce
  <2> QED BY <2>1
<1>2. \A k \in 0 .. n - 1 : q[at(head + k)] = s[m + 1 + k]
  BY DEF RingOf
<1>3. Len(s) = m + n
  BY DEF RingOf
<1> HIDE DEF at
<1>4. q[head] = s[m + 1]
  <2>1. at(head) = head
    BY <1>1
  <2>2. head + 0 = head /\ m + 1 + 0 = m + 1 /\ 0 \in 0 .. n - 1
    OBVIOUS
  <2>3. q[at(head + 0)] = s[m + 1 + 0]
    BY <1>2, <2>2
  <2> QED BY <2>1, <2>2, <2>3, Zenon
<1>5. at(head + 1) \in 0 .. cap - 1 /\ at(head + 1) \in {head + 1, head + 1 - cap}
  <2>1. CASE head + 1 < cap
    BY <1>1, <2>1
  <2>2. CASE head + 1 >= cap
    BY <1>1, <2>2
  <2> QED BY <2>1, <2>2
<1>6. ASSUME NEW k \in 0 .. (n - 1) - 1 PROVE q[at(at(head + 1) + k)] = s[(m + 1) + 1 + k]
  <2>1. k + 1 \in 0 .. n - 1 /\ m + 1 + (k + 1) = (m + 1) + 1 + k
    OBVIOUS
  <2>2. q[at(head + (k + 1))] = s[m + 1 + (k + 1)]
    BY <1>2, <2>1
  <2>3. at(at(head + 1) + k) = at(head + (k + 1))
    <3>1. head + (k + 1) \in 0 .. 2 * cap - 1
      OBVIOUS
    <3>2. CASE head + 1 < cap
      <4>1. at(head + 1) = head + 1
        BY <1>1, <3>2
      <4>2. at(head + 1) + k = head + (k + 1)
        BY <4>1
      <4> QED BY <4>2
    <3>3. CASE head + 1 >= cap
      <4>1. at(head + 1) = head + 1 - cap
        BY <1>1, <3>3
      <4>2. (head + (k + 1)) - cap \in 0 .. cap - 1
        BY <3>3
      <4>3. at(head + 1) + k = (head + (k + 1)) - cap
        BY <4>1
      <4>4. at((head + (k + 1)) - cap) = (head + (k + 1)) - cap
        BY <1>1, <4>2
      <4>5. at(head + (k + 1)) = (head + (k + 1)) - cap
        BY <1>1, <3>1, <3>3
      <4> QED BY <4>3, <4>4, <4>5
    <3> QED BY <3>2, <3>3
  <2> QED BY <2>1, <2>2, <2>3
<1>7. Len(s) = (m + 1) + (n - 1) /\ n - 1 \in 0 .. cap /\ m + 1 \in Nat
  BY <1>3
<1>8. RingOf(cap, at(head + 1), n - 1, q, s, m + 1)
  <2>1. \A k \in 0 .. (n - 1) - 1 : q[(at(head + 1) + k) % cap] = s[(m + 1) + 1 + k]
    BY <1>6, Zenon DEF at
  <2> QED BY <1>5, <1>7, <2>1, Zenon DEF RingOf
<1> QED
  BY <1>4, <1>8 DEF at, IsOldest

\* The oldest value is taken from the ring of the receiver's slot.
LEMMA TakeEffect ==
    ASSUME ChanInv, NEW t \in Threads, chan_take(t)
    PROVE  LET i == SlotOf(call[t].h)
               c == chan[i]
           IN /\ i \in Slots /\ c \in ChanRecs /\ c.count \in Nat \ {0}
              /\ chan' \in [Slots -> ChanRecs] /\ got' \in [Slots -> Seq(Nat)]
              /\ \A j \in Slots \ {i} : chan'[j] = chan[j] /\ got'[j] = got[j]
              /\ chan'[i].used = c.used /\ chan'[i].sopen = c.sopen /\ chan'[i].ropen = c.ropen
              /\ chan'[i].taken = c.taken /\ chan'[i].cap = c.cap
              /\ got' = [got EXCEPT ![i] = Append(got[i], sent[i][Len(got[i]) + 1])]
              /\ Len(got[i]) < Len(sent[i])
              /\ call' = Woken(t, Idle, Sleepers("send_wait", i))
              /\ Ring(chan'[i], sent[i], got'[i])
              /\ ready' = ready \ {call[t].h}
              /\ UNCHANGED <<thr, holds, sent, opens, kids, joined, trap>>
<1> DEFINE i == SlotOf(call[t].h)
           c == chan[i]
<1>1. call[t].op = "take"
  BY DEF chan_take, Running
<1>2. i \in Slots /\ c \in ChanRecs /\ c.used
  BY <1>1, Inside DEF InsideCalls
<1>3. c.count > 0 /\ c.count \in Nat
  BY <1>1, <1>2 DEF ChanInv, RuleInv, ChanRecs
<1>4. /\ got' = [got EXCEPT ![i] = Append(got[i], c.q[c.head])]
      /\ chan' = [chan EXCEPT ![i] = [c EXCEPT !.head = (c.head + 1) % c.cap, !.count = c.count - 1]]
      /\ ready' = ready \ {call[t].h}
      /\ Signal(t, Idle, Sleepers("send_wait", i))
      /\ UNCHANGED <<thr, holds, sent, opens, kids, joined, trap>>
  <2>1. /\ got' = [got EXCEPT ![i] = Append(@, c.q[c.head])]
        /\ chan' = [chan EXCEPT ![i].head = (c.head + 1) % c.cap, ![i].count = @ - 1]
        /\ ready' = ready \ {call[t].h}
        /\ Signal(t, Idle, Sleepers("send_wait", i))
        /\ UNCHANGED <<thr, holds, sent, opens, kids, joined, trap>>
    <3>1. c.count # 0
      BY <1>3
    <3> QED BY <3>1, Zenon DEF chan_take, NotFull
  <2> DEFINE x == (c.head + 1) % c.cap
  <2> HIDE DEF x
  <2>2. chan' = [chan EXCEPT ![i].head = x, ![i].count = @ - 1]
    BY <2>1 DEF x
  <2>3. chan' = [chan EXCEPT ![i] = [c EXCEPT !.head = x, !.count = c.count - 1]]
    BY <1>2, <2>2
  <2>4. got' = [got EXCEPT ![i] = Append(got[i], c.q[c.head])]
    BY <2>1
  <2> QED BY <2>1, <2>3, <2>4 DEF x
<1>5. Ring(c, sent[i], got[i])
  BY <1>2 DEF ChanInv, RingInv
<1>6. /\ c.cap \in Nat \ {0} /\ c.head \in 0 .. c.cap - 1 /\ c.count \in 1 .. c.cap
      /\ c.q \in [0 .. c.cap - 1 -> Nat] /\ Len(got[i]) \in Nat /\ Len(sent[i]) = Len(got[i]) + c.count
  <2>1. /\ c.cap \in Nat \ {0} /\ c.q \in [0 .. c.cap - 1 -> Nat]
        /\ c.head \in 0 .. c.cap - 1 /\ c.count \in 0 .. c.cap /\ Len(got[i]) \in Nat
        /\ Len(sent[i]) = Len(got[i]) + c.count
    BY <1>5, Zenon DEF Ring, RingOf
  <2> HIDE DEF c
  <2> QED BY <1>3, <2>1
<1>7. chan \in [Slots -> ChanRecs] /\ sent[i] \in Seq(Nat) /\ got[i] \in Seq(Nat) /\ got \in [Slots -> Seq(Nat)]
  BY <1>2 DEF ChanInv, Shape
<1> DEFINE d == [c EXCEPT !.head = (c.head + 1) % c.cap, !.count = c.count - 1]
           v == c.q[c.head]
<1>8. /\ RingOf(c.cap, (c.head + 1) % c.cap, c.count - 1, c.q, sent[i], Len(got[i]) + 1)
      /\ c.q[c.head] = sent[i][Len(got[i]) + 1] /\ v \in Nat
  <2> HIDE DEF c, i
  <2>1. v \in Nat
    BY <1>6
  <2>2. RingOf(c.cap, c.head, c.count, c.q, sent[i], Len(got[i]))
    BY <1>5 DEF Ring
  <2>3. /\ RingOf(c.cap, (c.head + 1) % c.cap, c.count - 1, c.q, sent[i], Len(got[i]) + 1)
        /\ c.q[c.head] = sent[i][Len(got[i]) + 1]
    <3> DEFINE cap == c.cap  head == c.head  n == c.count  q == c.q  m == Len(got[i])  s == sent[i]
    <3>1. /\ cap \in Nat \ {0} /\ head \in 0 .. cap - 1 /\ n \in 1 .. cap
          /\ q \in [0 .. cap - 1 -> Nat] /\ s \in Seq(Nat) /\ m \in Nat
          /\ RingOf(cap, head, n, q, s, m)
      BY <1>6, <1>7, <2>2
    <3> HIDE DEF cap, head, n, q, m, s
    <3>2. RingOf(cap, (head + 1) % cap, n - 1, q, s, m + 1)
      BY <3>1, TakenRing
    <3>3. IsOldest(q[head], s, m)
      BY <3>1, TakenRing
    <3> QED BY <3>2, <3>3 DEF IsOldest, cap, head, n, q, m, s
  <2> QED BY <2>1, <2>3
<1>9. (c.head + 1) % c.cap \in Nat /\ c.count - 1 \in Nat
  <2>1. (c.head + 1) % c.cap \in 0 .. c.cap - 1
    BY <1>8, Zenon DEF RingOf
  <2> HIDE DEF c
  <2> QED BY <1>6, <2>1
<1>10. d \in ChanRecs
  <2> DEFINE x == (c.head + 1) % c.cap
  <2>1. x \in Nat
    BY <1>9
  <2> HIDE DEF x
  <2>2. [c EXCEPT !.head = x, !.count = c.count - 1] \in ChanRecs
    BY <1>2, <1>9, <2>1 DEF ChanRecs
  <2> QED BY <2>2 DEF x
<1>11. /\ d.used = c.used /\ d.sopen = c.sopen /\ d.ropen = c.ropen /\ d.taken = c.taken
       /\ d.cap = c.cap /\ d.head = (c.head + 1) % c.cap /\ d.count = c.count - 1 /\ d.q = c.q
  <2> DEFINE x == (c.head + 1) % c.cap
  <2> HIDE DEF x
  <2>1. LET e == [c EXCEPT !.head = x, !.count = c.count - 1] IN
        /\ e.used = c.used /\ e.sopen = c.sopen /\ e.ropen = c.ropen /\ e.taken = c.taken
        /\ e.cap = c.cap /\ e.head = x /\ e.count = c.count - 1 /\ e.q = c.q
    BY <1>2 DEF ChanRecs
  <2> QED BY <2>1 DEF x
<1>12. got'[i] = Append(got[i], v) /\ got' \in [Slots -> Seq(Nat)] /\ \A j \in Slots \ {i} : got'[j] = got[j]
  <2> HIDE DEF v, i
  <2>1. got' = [got EXCEPT ![i] = Append(got[i], v)]
    BY <1>4 DEF v
  <2> QED BY <1>2, <1>7, <1>8, <2>1
<1>13. Len(got'[i]) = Len(got[i]) + 1
  <2> HIDE DEF v
  <2>1. got[i] \in Seq(Nat) /\ v \in Nat
    BY <1>7, <1>8
  <2> QED BY <1>12, <2>1, SMTT(30)
<1>14. Ring(d, sent[i], got'[i])
  <2> HIDE DEF d, c, i
  <2> QED BY <1>8, <1>11, <1>13 DEF Ring
<1>15. chan'[i] = d /\ chan' \in [Slots -> ChanRecs] /\ \A j \in Slots \ {i} : chan'[j] = chan[j]
  <2> HIDE DEF d
  <2>1. chan' = [chan EXCEPT ![i] = d]
    BY <1>4 DEF d
  <2> QED BY <1>2, <1>7, <1>10, <2>1
<1>16. call' = Woken(t, Idle, Sleepers("send_wait", i))
  <2> HIDE DEF i
  <2> QED BY <1>2, <1>4, SignalWakesAll
<1>17. Len(got[i]) < Len(sent[i]) /\ c.count \in Nat \ {0}
  <2> HIDE DEF c, i
  <2> QED BY <1>6
<1>18. got' = [got EXCEPT ![i] = Append(got[i], sent[i][Len(got[i]) + 1])]
  BY <1>4, <1>8
<1> HIDE DEF d, v
<1> QED
  BY <1>2, <1>4, <1>11, <1>12, <1>14, <1>15, <1>16, <1>17, <1>18

\* id_chan_take keeps the invariant.
LEMMA TakeStep ==
    ASSUME ChanInv, NEW t \in Threads, chan_take(t)
    PROVE  ChanInv'
<1> DEFINE i == SlotOf(call[t].h)
           c == chan[i]
<1>1. /\ i \in Slots /\ c \in ChanRecs
      /\ chan' \in [Slots -> ChanRecs] /\ got' \in [Slots -> Seq(Nat)]
      /\ \A j \in Slots \ {i} : chan'[j] = chan[j] /\ got'[j] = got[j]
      /\ chan'[i].used = c.used /\ chan'[i].sopen = c.sopen /\ chan'[i].ropen = c.ropen
      /\ chan'[i].taken = c.taken
      /\ call' = Woken(t, Idle, Sleepers("send_wait", i))
      /\ Ring(chan'[i], sent[i], got'[i])
      /\ ready' = ready \ {call[t].h}
      /\ UNCHANGED <<thr, holds, sent, kids, joined, trap>>
  BY TakeEffect
<1>2. call[t].op = "take" /\ call[t].h % 2 = 0 /\ call[t].h \in Handles
  BY Inside DEF ChanInv, Sides, chan_take, Running, InsideCalls
<1>3. /\ Sides' /\ HoldInv' /\ FreeInv' /\ KidInv' /\ RuleKeepersDoNotTrap'
      /\ \A h \in Handles : EndOpen(h) => EndOpen(h)'
  BY <1>1, FlagsStep
<1>4. /\ call' \in [Threads -> CallRecs]
      /\ \A u \in Threads : call'[u].op \in InsideCalls =>
            u # t /\ call[u].op \in InsideCalls /\ call'[u].h = call[u].h
      /\ \A u \in Threads : call'[u].op \in {"sender", "take"} => call[u].op = call'[u].op
      /\ \A u \in Threads : call'[u].op \in {"send_wait", "wait_wait"} =>
            call'[u] = call[u] /\ ~(call[u].op = "send_wait" /\ SlotOf(call[u].h) = i)
  BY <1>1, IdleRec, WokenParts
<1>5. \A u \in Threads : call[u].op \in InsideCalls => SlotOf(call[u].h) \in Slots
  BY Inside
<1>6. \A h \in ready' : h \in ready /\ h \in Handles /\ h % 2 = 0 /\ SlotOf(h) \in Slots \ {i}
  BY <1>1, <1>2, Ready, HandleFacts, SameEnd
\* The other threads on the receiving end of this slot: none.
<1>7. ASSUME NEW u \in Threads \ {t}, call[u].op \in {"wait_wait", "take"} PROVE SlotOf(call[u].h) \in Slots \ {i}
  <2>1. call[u].h % 2 = 0
    BY <1>7 DEF ChanInv, Sides
  <2> QED BY <1>2, <1>5, <1>7, <2>1, OtherEnd DEF InsideCalls
<1> HIDE DEF i
<1>8. Shape'
  BY <1>1, <1>4 DEF ChanInv, Shape
<1>9. NoLostWakeup'
  <2>1. ASSUME NEW u \in Threads, call'[u].op \in {"send_wait", "wait_wait"}
        PROVE  call'[u] = call[u] /\ chan'[SlotOf(call[u].h)] = chan[SlotOf(call[u].h)]
    <3>1. /\ u # t /\ call[u].op \in InsideCalls /\ call'[u] = call[u]
          /\ ~(call[u].op = "send_wait" /\ SlotOf(call[u].h) = i)
      BY <1>4, <2>1 DEF InsideCalls
    <3>2. SlotOf(call[u].h) \in Slots \ {i}
      BY <1>5, <1>7, <2>1, <3>1
    <3> QED BY <1>1, <3>1, <3>2
  <2> QED
    BY <2>1 DEF ChanInv, NoLostWakeup
<1>10. RuleInv'
  <2>1. \A j \in Slots : chan'[j].taken = chan[j].taken
    BY <1>1
  <2>2. \A u \in Threads : call'[u].op \in {"sender", "take"} =>
           u # t /\ call[u].op = call'[u].op /\ call'[u].h = call[u].h /\ SlotOf(call[u].h) \in Slots
    BY <1>4, <1>5 DEF InsideCalls
  <2>3. \A u \in Threads : call'[u].op = "take" => chan'[SlotOf(call[u].h)] = chan[SlotOf(call[u].h)]
    BY <1>1, <1>7, <2>2
  <2>4. (\A h \in ready : h % 2 = 0 /\ EndOpen(h) /\ chan[SlotOf(h)].count > 0)'
    BY <1>1, <1>3, <1>6, Ready
  <2>5. (\A u \in Threads : /\ call[u].op = "sender" => ~chan[SlotOf(call[u].h)].taken
                            /\ call[u].op = "take" => chan[SlotOf(call[u].h)].count > 0)'
    BY <2>1, <2>2, <2>3 DEF ChanInv, RuleInv
  <2> QED BY <2>4, <2>5 DEF RuleInv
<1>11. RingInv'
  BY <1>1 DEF ChanInv, RingInv
<1> QED
  BY <1>3, <1>8, <1>9, <1>10, <1>11 DEF ChanInv

-----------------------------------------------------------------------------
(***************************************************************************)
(* Steps after which t is idle and no other call has changed.              *)
(***************************************************************************)
LEMMA ReturnParts ==
    ASSUME ChanInv, NEW t \in Threads, call' = [call EXCEPT ![t] = Idle]
    PROVE  /\ call' \in [Threads -> CallRecs] /\ call'[t] = Idle
           /\ \A u \in Threads \ {t} : call'[u] = call[u]
           /\ \A u \in Threads : call'[u].op # "idle" => u # t /\ call'[u] = call[u]
           /\ Sides'
           /\ UNCHANGED <<thr, kids, joined>> => KidInv'
<1>1. /\ call' \in [Threads -> CallRecs] /\ call'[t] = Idle
      /\ \A u \in Threads \ {t} : call'[u] = call[u]
  BY IdleRec DEF ChanInv, Shape
<1>2. \A u \in Threads : call'[u].op # "idle" => u # t /\ call'[u] = call[u]
  BY <1>1, IdleRec
<1>3. Sides'
  BY <1>2 DEF ChanInv, Sides
<1>4. ASSUME UNCHANGED <<thr, kids, joined>> PROVE KidInv'
  <2>1. KidEntries' /\ KidsApart' /\ JoinGivesOwnResult'
    BY <1>4 DEF ChanInv, KidInv, KidEntries, KidsApart, JoinGivesOwnResult
  <2>2. JoinedKid'
    BY <1>2, <1>4 DEF ChanInv, KidInv, JoinedKid
  <2>3. DoneResult'
    <3>1. \A j \in 1 .. NThr - 1 : thr[j].who \in Threads
      BY DEF ChanInv, Shape, ThrRecs
    <3> QED BY <1>2, <1>4, <3>1 DEF ChanInv, KidInv, DoneResult
  <2> QED BY <2>1, <2>2, <2>3 DEF KidInv
<1> QED
  BY <1>1, <1>2, <1>3, <1>4

\* What is held or ready or being used belongs to an open channel.
LEMMA InUse ==
    ASSUME ChanInv
    PROVE  /\ \A u \in Threads : \A h \in holds[u] : h \in Handles /\ SlotOf(h) \in Slots /\ EndOpen(h)
           /\ \A u \in Threads : call[u].op \in InsideCalls =>
                 call[u].h \in Handles /\ SlotOf(call[u].h) \in Slots /\ EndOpen(call[u].h)
           /\ \A h \in ready : h \in Handles /\ SlotOf(h) \in Slots /\ EndOpen(h)
           /\ \A u \in Threads : call[u].op = "free" => call[u].h \in Handles /\ SlotOf(call[u].h) \in Slots
<1>1. \A u \in Threads : \A h \in holds[u] : h \in Handles /\ SlotOf(h) \in Slots /\ EndOpen(h)
  BY HandleFacts DEF ChanInv, Shape, HoldInv
<1>2. \A u \in Threads : call[u].op = "free" => call[u].h \in Handles /\ SlotOf(call[u].h) \in Slots
  <2> TAKE u \in Threads
  <2>1. call[u] \in CallRecs
    BY DEF ChanInv, Shape
  <2> QED BY <2>1, CallFields, HandleFacts
<1> QED
  BY <1>1, <1>2, Inside, Ready, HandleFacts

(***************************************************************************)
(* chan_sender                                                             *)
(***************************************************************************)
LEMMA SenderStep ==
    ASSUME ChanInv, NEW t \in Threads, chan_sender(t)
    PROVE  ChanInv'
<1> DEFINE h == call[t].h
           i == SlotOf(h)
           c == chan[i]
<1>1. call[t].op = "sender" /\ h % 2 = 0
  BY DEF ChanInv, Sides, chan_sender, Running
<1>2. h \in Handles /\ i \in Slots /\ h \in holds[t] /\ EndOpen(h) /\ c \in ChanRecs /\ c.used
  BY <1>1, Inside DEF InsideCalls
<1>3. ~c.taken
  BY <1>1 DEF ChanInv, RuleInv
<1>4. /\ chan' = [chan EXCEPT ![i] = [c EXCEPT !.taken = TRUE]]
      /\ holds' = [holds EXCEPT ![t] = holds[t] \cup {h + 1}]
      /\ call' = [call EXCEPT ![t] = Idle]
      /\ UNCHANGED <<thr, ready, sent, got, kids, joined, trap>>
  BY <1>3 DEF chan_sender, Return
<1>5. h + 1 \in Handles /\ SlotOf(h + 1) = i /\ (h + 1) % 2 = 1
  BY <1>1, <1>2, HandleFacts
<1>6. /\ chan' \in [Slots -> ChanRecs] /\ \A j \in Slots \ {i} : chan'[j] = chan[j]
      /\ chan'[i].used = c.used /\ chan'[i].sopen = c.sopen /\ chan'[i].ropen = c.ropen
      /\ chan'[i].taken = TRUE /\ chan'[i].cap = c.cap /\ chan'[i].head = c.head
      /\ chan'[i].count = c.count /\ chan'[i].q = c.q
  BY <1>2, <1>4 DEF ChanInv, Shape, ChanRecs
<1>7. /\ holds' \in [Threads -> SUBSET Handles] /\ holds'[t] = holds[t] \cup {h + 1}
      /\ \A u \in Threads \ {t} : holds'[u] = holds[u]
  BY <1>4, <1>5 DEF ChanInv, Shape
<1> HIDE DEF h, i, c
<1>8. /\ call' \in [Threads -> CallRecs]
      /\ \A u \in Threads : call'[u].op # "idle" => u # t /\ call'[u] = call[u]
      /\ Sides' /\ KidInv'
  BY <1>4, ReturnParts
<1>9. Shape'
  BY <1>4, <1>6, <1>7, <1>8 DEF ChanInv, Shape
<1>10. \A g \in Handles : EndOpen(g) => EndOpen(g)'
  <2> SUFFICES ASSUME NEW g \in Handles, EndOpen(g) PROVE EndOpen(g)'
    OBVIOUS
  <2>1. SlotOf(g) \in Slots
    BY HandleFacts
  <2>2. CASE SlotOf(g) = i
    BY <1>6, <2>2 DEF EndOpen, c
  <2>3. CASE SlotOf(g) # i
    BY <1>6, <2>1, <2>3 DEF EndOpen
  <2> QED BY <2>2, <2>3
<1>11. HoldInv'
  <2>1. ASSUME NEW g \in Handles, g = h + 1 PROVE EndOpen(g)'
    <3>1. c.sopen
      BY <1>2, <1>3 DEF ChanInv, HoldInv, c
    <3>2. SlotOf(g) = i /\ g % 2 = 1
      BY <1>5, <2>1, Zenon
    <3>3. g % 2 # 0
      BY <3>2
    <3>4. chan'[i].used /\ chan'[i].taken /\ chan'[i].sopen
      BY <1>2, <1>6, <3>1
    <3> QED BY <3>2, <3>3, <3>4, Zenon DEF EndOpen
  <2>2. (\A u \in Threads : \A g \in holds[u] : EndOpen(g))'
    BY <1>5, <1>7, <1>10, <2>1, InUse
  <2>3. ~EndOpen(h + 1)
    BY <1>3, <1>5 DEF EndOpen, c
  <2>4. \A u \in Threads : h + 1 \notin holds[u]
    BY <2>3, InUse
  <2>5. (\A u \in Threads : \A w \in Threads \ {u} : holds[u] \cap holds[w] = {})'
    BY <1>7, <2>4 DEF ChanInv, HoldInv
  <2>6. (\A u \in Threads : call[u].op \in InsideCalls => call[u].h \in holds[u])'
    BY <1>7, <1>8 DEF ChanInv, HoldInv, InsideCalls
  <2>7. (\A j \in Slots : chan[j].used /\ ~chan[j].taken => chan[j].sopen)'
    BY <1>6 DEF ChanInv, HoldInv
  <2> QED BY <2>2, <2>5, <2>6, <2>7 DEF HoldInv
<1>12. FreeInv'
  <2>1. \A u \in Threads : call'[u].op = "free" => call'[u] = call[u] /\ SlotOf(call[u].h) \in Slots
    BY <1>8, InUse
  <2>2. \A j \in Slots : chan'[j].used = chan[j].used /\ chan'[j].sopen = chan[j].sopen /\ chan'[j].ropen = chan[j].ropen
    BY <1>6 DEF c
  <2> QED BY <2>1, <2>2 DEF ChanInv, FreeInv
<1>13. \A j \in Slots : /\ chan'[j].ropen = chan[j].ropen /\ chan'[j].sopen = chan[j].sopen
                        /\ chan'[j].count = chan[j].count /\ chan'[j].cap = chan[j].cap
  BY <1>6 DEF c
<1>14. NoLostWakeup'
  <2>1. \A u \in Threads : call'[u].op \in {"send_wait", "wait_wait"} => call'[u] = call[u] /\ SlotOf(call[u].h) \in Slots
    BY <1>8, InUse DEF InsideCalls
  <2> QED BY <1>13, <2>1 DEF ChanInv, NoLostWakeup
<1>15. RuleInv'
  <2>1. \A u \in Threads : call'[u].op \in {"sender", "take"} => u # t /\ call'[u] = call[u] /\ SlotOf(call[u].h) \in Slots
    BY <1>8, InUse DEF InsideCalls
  <2>2. ASSUME NEW u \in Threads, call'[u].op = "sender" PROVE SlotOf(call[u].h) # i
    <3>1. u # t /\ call[u].op = "sender"
      BY <2>1, <2>2
    <3>2. call[u].h % 2 = 0
      BY <3>1 DEF ChanInv, Sides
    <3> QED BY <1>1, <3>1, <3>2, OtherEnd DEF InsideCalls, h, i
  <2>3. (\A g \in ready : g % 2 = 0 /\ EndOpen(g) /\ chan[SlotOf(g)].count > 0)'
    BY <1>4, <1>10, <1>13, Ready, InUse
  <2>4. (\A u \in Threads : /\ call[u].op = "sender" => ~chan[SlotOf(call[u].h)].taken
                            /\ call[u].op = "take" => chan[SlotOf(call[u].h)].count > 0)'
    BY <1>6, <1>13, <2>1, <2>2 DEF ChanInv, RuleInv
  <2> QED BY <2>3, <2>4 DEF RuleInv
<1>16. RingInv'
  BY <1>4, <1>6 DEF ChanInv, RingInv, Ring, c
<1>17. RuleKeepersDoNotTrap'
  BY <1>4 DEF ChanInv, RuleKeepersDoNotTrap
<1> QED
  BY <1>8, <1>9, <1>11, <1>12, <1>14, <1>15, <1>16, <1>17 DEF ChanInv

(***************************************************************************)
(* chan_close and the release of a slot                                    *)
(***************************************************************************)
LEMMA CloseEffect ==
    ASSUME ChanInv, NEW t \in Threads, chan_close(t)
    PROVE  LET h == call[t].h
               i == SlotOf(h)
               c == chan[i]
               op == IF h % 2 = 1 THEN "wait_wait" ELSE "send_wait"
               d == IF ~chan'[i].sopen /\ ~chan'[i].ropen THEN [op |-> "free", h |-> h] ELSE Idle
           IN /\ h \in Handles /\ i \in Slots /\ h \in holds[t] /\ EndOpen(h) /\ c \in ChanRecs /\ c.used
              /\ chan' \in [Slots -> ChanRecs] /\ \A j \in Slots \ {i} : chan'[j] = chan[j]
              /\ chan'[i].used = c.used /\ chan'[i].taken = c.taken /\ chan'[i].cap = c.cap
              /\ chan'[i].head = c.head /\ chan'[i].count = c.count /\ chan'[i].q = c.q
              /\ h % 2 = 1 => chan'[i].sopen = FALSE /\ chan'[i].ropen = c.ropen
              /\ h % 2 = 0 => chan'[i].ropen = FALSE /\ chan'[i].sopen = c.sopen
              /\ d \in CallRecs /\ call' = Woken(t, d, Sleepers(op, i))
              /\ holds' \in [Threads -> SUBSET Handles] /\ holds'[t] = holds[t] \ {h}
              /\ \A u \in Threads \ {t} : holds'[u] = holds[u]
              /\ ready' = ready \ {h}
              /\ UNCHANGED <<thr, sent, got, opens, kids, joined, trap>>
<1> DEFINE h == call[t].h
           i == SlotOf(h)
           c == chan[i]
           ns == c.sopen /\ h % 2 = 0
           nr == c.ropen /\ h % 2 = 1
<1>1. call[t].op = "close"
  BY DEF chan_close, Running
<1>2. h \in Handles /\ i \in Slots /\ h \in holds[t] /\ EndOpen(h) /\ c \in ChanRecs /\ c.used
  BY <1>1, Inside DEF InsideCalls
<1>3. /\ chan' = [chan EXCEPT ![i] = [c EXCEPT !.sopen = ns, !.ropen = nr]]
      /\ call' = Woken(t, IF ~ns /\ ~nr THEN [op |-> "free", h |-> h] ELSE Idle,
                       Sleepers(IF h % 2 = 1 THEN "wait_wait" ELSE "send_wait", i))
      /\ holds' = [holds EXCEPT ![t] = holds[t] \ {h}]
      /\ ready' = ready \ {h}
      /\ UNCHANGED <<thr, sent, got, opens, kids, joined, trap>>
  BY DEF chan_close, LastEnd, Broadcast, Closed
<1>4. /\ chan' \in [Slots -> ChanRecs] /\ \A j \in Slots \ {i} : chan'[j] = chan[j]
      /\ chan'[i].used = c.used /\ chan'[i].taken = c.taken /\ chan'[i].cap = c.cap
      /\ chan'[i].head = c.head /\ chan'[i].count = c.count /\ chan'[i].q = c.q
      /\ chan'[i].sopen = ns /\ chan'[i].ropen = nr
  <2>1. ns \in BOOLEAN /\ nr \in BOOLEAN
    OBVIOUS
  <2>2. chan \in [Slots -> ChanRecs]
    BY DEF ChanInv, Shape
  <2> HIDE DEF ns, nr
  <2> QED BY <1>2, <1>3, <2>1, <2>2 DEF ChanRecs
<1>5. /\ h % 2 = 1 => chan'[i].sopen = FALSE /\ chan'[i].ropen = c.ropen
      /\ h % 2 = 0 => chan'[i].ropen = FALSE /\ chan'[i].sopen = c.sopen
  <2>1. c.sopen \in BOOLEAN /\ c.ropen \in BOOLEAN
    BY <1>2 DEF ChanRecs
  <2>2. h % 2 = 1 => ns = FALSE /\ nr = c.ropen
    BY <2>1
  <2>3. h % 2 = 0 => nr = FALSE /\ ns = c.sopen
    BY <2>1
  <2> HIDE DEF ns, nr
  <2> QED BY <1>4, <2>2, <2>3
<1>6. /\ holds' \in [Threads -> SUBSET Handles] /\ holds'[t] = holds[t] \ {h}
      /\ \A u \in Threads \ {t} : holds'[u] = holds[u]
  BY <1>3 DEF ChanInv, Shape
<1>7. [op |-> "free", h |-> h] \in CallRecs /\ Idle \in CallRecs
  BY <1>2, IdleRec DEF CallRecs
<1>8. (~ns /\ ~nr) = (~chan'[i].sopen /\ ~chan'[i].ropen)
  <2> HIDE DEF ns, nr
  <2> QED BY <1>4
<1> HIDE DEF ns, nr
<1> QED
  BY <1>2, <1>3, <1>4, <1>5, <1>6, <1>7, <1>8

\* id_chan_close keeps the invariant.
LEMMA CloseStep ==
    ASSUME ChanInv, NEW t \in Threads, chan_close(t)
    PROVE  ChanInv'
<1> DEFINE h == call[t].h
           i == SlotOf(h)
           c == chan[i]
           op == IF h % 2 = 1 THEN "wait_wait" ELSE "send_wait"
           d == IF ~chan'[i].sopen /\ ~chan'[i].ropen THEN [op |-> "free", h |-> h] ELSE Idle
<1>1. /\ h \in Handles /\ i \in Slots /\ h \in holds[t] /\ EndOpen(h) /\ c \in ChanRecs /\ c.used
      /\ chan' \in [Slots -> ChanRecs] /\ \A j \in Slots \ {i} : chan'[j] = chan[j]
      /\ chan'[i].used = c.used /\ chan'[i].taken = c.taken /\ chan'[i].cap = c.cap
      /\ chan'[i].head = c.head /\ chan'[i].count = c.count /\ chan'[i].q = c.q
      /\ h % 2 = 1 => chan'[i].sopen = FALSE /\ chan'[i].ropen = c.ropen
      /\ h % 2 = 0 => chan'[i].ropen = FALSE /\ chan'[i].sopen = c.sopen
      /\ d \in CallRecs /\ call' = Woken(t, d, Sleepers(op, i))
      /\ holds' \in [Threads -> SUBSET Handles] /\ holds'[t] = holds[t] \ {h}
      /\ \A u \in Threads \ {t} : holds'[u] = holds[u]
      /\ ready' = ready \ {h}
      /\ UNCHANGED <<thr, sent, got, opens, kids, joined, trap>>
  BY CloseEffect
<1>2. call[t].op = "close" /\ call[t].op \in InsideCalls
  BY DEF chan_close, Running, InsideCalls
<1>3. h % 2 \in {0, 1}
  BY <1>1, HandleFacts
<1>4. /\ op \in {"send_wait", "wait_wait"} /\ d.op \in {"idle", "free"}
      /\ d.op = "free" => d.h = h /\ ~chan'[i].sopen /\ ~chan'[i].ropen
  <2>1. op \in {"send_wait", "wait_wait"}
    OBVIOUS
  <2>2. CASE ~chan'[i].sopen /\ ~chan'[i].ropen
    <3> HIDE DEF h, i
    <3>1. d = [op |-> "free", h |-> h]
      BY <2>2
    <3> HIDE DEF d
    <3> QED BY <2>1, <2>2, <3>1
  <2>3. CASE ~(~chan'[i].sopen /\ ~chan'[i].ropen)
    <3>1. d = Idle
      BY <2>3
    <3> HIDE DEF d
    <3> QED BY <2>1, <3>1, IdleRec
  <2> QED BY <2>2, <2>3
<1> HIDE DEF d, op
<1>5. /\ call' \in [Threads -> CallRecs] /\ call'[t] = d /\ Sides'
      /\ \A u \in Threads : call'[u].op \in InsideCalls =>
            u # t /\ call[u].op \in InsideCalls /\ call'[u].h = call[u].h
      /\ \A u \in Threads : call'[u].op \in {"sender", "take"} => call[u].op = call'[u].op
      /\ \A u \in Threads : call'[u].op \in {"send_wait", "wait_wait"} =>
            call'[u] = call[u] /\ ~(call[u].op = op /\ SlotOf(call[u].h) = i)
      /\ \A u \in Threads \ {t} : call'[u].op = "free" => call'[u] = call[u]
  <2> HIDE DEF c, i, h
  <2>1. d \in CallRecs /\ call' = Woken(t, d, Sleepers(op, i))
    BY <1>1
  <2> QED BY <1>4, <2>1, WokenParts
<1>6. KidInv'
  BY <1>1, <1>4, WokenKids
<1>7. c.sopen \/ c.ropen
  BY <1>1 DEF EndOpen
<1>8. h % 2 = 1 => c.taken
  BY <1>1 DEF EndOpen
\* An end that is not h stays open.
<1>9. \A g \in Handles : g # h /\ EndOpen(g) => EndOpen(g)'
  <2> SUFFICES ASSUME NEW g \in Handles, g # h, EndOpen(g) PROVE EndOpen(g)'
    OBVIOUS
  <2>1. SlotOf(g) \in Slots /\ g % 2 \in {0, 1}
    BY HandleFacts
  <2>2. CASE SlotOf(g) # i
    BY <1>1, <2>1, <2>2 DEF EndOpen
  <2>3. CASE SlotOf(g) = i
    <3>1. g % 2 # h % 2
      BY <1>1, <2>3, SameEnd
    <3>2. CASE g % 2 = 0
      <4>1. h % 2 = 1
        BY <1>3, <3>1, <3>2
      <4> QED BY <1>1, <2>3, <3>2, <4>1 DEF EndOpen
    <3>3. CASE g % 2 = 1
      <4>1. h % 2 = 0
        BY <1>3, <3>1, <3>3
      <4> QED BY <1>1, <2>3, <3>3, <4>1 DEF EndOpen
    <3> QED BY <2>1, <3>2, <3>3
  <2> QED BY <2>2, <2>3
<1>10. \A j \in Slots : /\ chan'[j].used = chan[j].used /\ chan'[j].taken = chan[j].taken /\ chan'[j].cap = chan[j].cap
                        /\ chan'[j].head = chan[j].head /\ chan'[j].count = chan[j].count /\ chan'[j].q = chan[j].q
  BY <1>1
<1> HIDE DEF c, i, h
<1>11. Shape'
  BY <1>1, <1>5 DEF ChanInv, Shape
<1>12. HoldInv'
  <2>1. \A u \in Threads \ {t} : h \notin holds[u]
    BY <1>1 DEF ChanInv, HoldInv
  <2>2. (\A u \in Threads : \A g \in holds[u] : EndOpen(g))'
    <3> SUFFICES ASSUME NEW u \in Threads, NEW g \in holds'[u] PROVE EndOpen(g)'
      OBVIOUS
    <3>1. g \in holds[u] /\ g # h
      BY <1>1, <2>1
    <3> QED BY <1>9, <3>1, InUse
  <2>3. (\A u \in Threads : \A w \in Threads \ {u} : holds[u] \cap holds[w] = {})'
    BY <1>1 DEF ChanInv, HoldInv
  <2>4. (\A u \in Threads : call[u].op \in InsideCalls => call[u].h \in holds[u])'
    BY <1>1, <1>5 DEF ChanInv, HoldInv
  <2>5. ASSUME NEW j \in Slots, chan'[j].used, ~chan'[j].taken PROVE chan'[j].sopen
    <3>1. chan[j].used /\ ~chan[j].taken
      BY <1>10, <2>5
    <3>2. chan[j].sopen
      BY <3>1 DEF ChanInv, HoldInv
    <3>3. CASE j = i
      BY <1>1, <1>3, <1>8, <3>1, <3>2, <3>3 DEF c
    <3>4. CASE j # i
      BY <1>1, <3>2, <3>4
    <3> QED BY <3>3, <3>4
  <2> QED BY <2>2, <2>3, <2>4, <2>5 DEF HoldInv
<1>13. FreeInv'
  <2>1. ASSUME NEW u \in Threads \ {t}, call'[u].op = "free"
        PROVE  call'[u] = call[u] /\ SlotOf(call[u].h) \in Slots \ {i}
    <3>1. call'[u] = call[u] /\ call[u].op = "free" /\ SlotOf(call[u].h) \in Slots
      BY <1>5, <2>1, InUse
    <3>2. ~chan[SlotOf(call[u].h)].sopen /\ ~chan[SlotOf(call[u].h)].ropen
      BY <3>1 DEF ChanInv, FreeInv
    <3> QED BY <1>7, <3>1, <3>2 DEF c
  <2>2. call'[t].op = "free" => SlotOf(call'[t].h) = i /\ ~chan'[i].sopen /\ ~chan'[i].ropen /\ chan'[i].used
    BY <1>1, <1>4, <1>5 DEF i
  <2>3. (\A u \in Threads : call[u].op = "free" =>
            LET e == chan[SlotOf(call[u].h)] IN e.used /\ ~e.sopen /\ ~e.ropen)'
    <3> SUFFICES ASSUME NEW u \in Threads, call'[u].op = "free"
                 PROVE  LET e == chan'[SlotOf(call'[u].h)] IN e.used /\ ~e.sopen /\ ~e.ropen
      OBVIOUS
    <3>1. CASE u = t
      BY <2>2, <3>1
    <3>2. CASE u # t
      BY <1>1, <2>1, <3>2 DEF ChanInv, FreeInv
    <3> QED BY <3>1, <3>2
  <2>4. (\A u, w \in Threads : call[u].op = "free" /\ call[w].op = "free" /\ SlotOf(call[u].h) = SlotOf(call[w].h) => u = w)'
    BY <2>1, <2>2 DEF ChanInv, FreeInv
  <2> QED BY <2>3, <2>4 DEF FreeInv
<1>14. NoLostWakeup'
  <2>1. ASSUME NEW u \in Threads, call'[u].op \in {"send_wait", "wait_wait"}
        PROVE  call'[u] = call[u] /\ chan'[SlotOf(call[u].h)] = chan[SlotOf(call[u].h)]
    <3>1. /\ u # t /\ call[u].op \in InsideCalls /\ call'[u] = call[u] /\ SlotOf(call[u].h) \in Slots
          /\ ~(call[u].op = op /\ SlotOf(call[u].h) = i)
      BY <1>5, <2>1, InUse DEF InsideCalls
    <3>2. ASSUME call[u].op # op PROVE SlotOf(call[u].h) # i
      <4>1. call[u].h % 2 = h % 2
        BY <1>3, <2>1, <3>1, <3>2 DEF ChanInv, Sides, op
      <4> QED BY <1>2, <3>1, <4>1, OtherEnd DEF h, i
    <3> QED BY <1>1, <3>1, <3>2
  <2> QED
    BY <2>1 DEF ChanInv, NoLostWakeup
<1>15. RuleInv'
  <2>1. \A u \in Threads : call'[u].op \in {"sender", "take"} =>
           call[u].op = call'[u].op /\ call'[u].h = call[u].h /\ SlotOf(call[u].h) \in Slots
    BY <1>5, InUse DEF InsideCalls
  <2>2. (\A g \in ready : g % 2 = 0 /\ EndOpen(g) /\ chan[SlotOf(g)].count > 0)'
    BY <1>1, <1>9, <1>10, Ready, InUse
  <2>3. (\A u \in Threads : /\ call[u].op = "sender" => ~chan[SlotOf(call[u].h)].taken
                            /\ call[u].op = "take" => chan[SlotOf(call[u].h)].count > 0)'
    BY <1>10, <2>1 DEF ChanInv, RuleInv
  <2> QED BY <2>2, <2>3 DEF RuleInv
<1>16. RingInv'
  BY <1>1, <1>10 DEF ChanInv, RingInv, Ring
<1>17. RuleKeepersDoNotTrap'
  BY <1>1 DEF ChanInv, RuleKeepersDoNotTrap
<1> QED
  BY <1>5, <1>6, <1>11, <1>12, <1>13, <1>14, <1>15, <1>16, <1>17 DEF ChanInv

\* The release of a slot keeps the invariant.
LEMMA FreeStep ==
    ASSUME ChanInv, NEW t \in Threads, chan_free(t)
    PROVE  ChanInv'
<1> DEFINE i == SlotOf(call[t].h)
           c == chan[i]
<1>1. call[t].op = "free" /\ i \in Slots
  BY InUse DEF chan_free, Running
<1>2. c \in ChanRecs /\ c.used /\ ~c.sopen /\ ~c.ropen
  BY <1>1 DEF ChanInv, Shape, FreeInv
<1>3. /\ chan' = [chan EXCEPT ![i] = [c EXCEPT !.q = <<>>, !.used = FALSE]]
      /\ call' = [call EXCEPT ![t] = Idle]
      /\ UNCHANGED <<thr, holds, ready, sent, got, kids, joined, trap>>
  BY DEF chan_free, Return
<1>4. /\ chan' \in [Slots -> ChanRecs] /\ \A j \in Slots \ {i} : chan'[j] = chan[j]
      /\ ~chan'[i].used
  BY <1>1, <1>2, <1>3 DEF ChanInv, Shape, ChanRecs, Rings
<1>5. \A g \in Handles : EndOpen(g) => SlotOf(g) # i
  BY <1>2 DEF EndOpen
<1> HIDE DEF i, c
<1>6. /\ call' \in [Threads -> CallRecs]
      /\ \A u \in Threads : call'[u].op # "idle" => u # t /\ call'[u] = call[u]
      /\ Sides' /\ KidInv'
  BY <1>3, ReturnParts
<1>7. \A g \in Handles : EndOpen(g) => EndOpen(g)'
  BY <1>4, <1>5, HandleFacts DEF EndOpen
<1>8. \A u \in Threads : call'[u].op \in InsideCalls =>
         /\ call'[u] = call[u] /\ call[u].op \in InsideCalls
         /\ SlotOf(call[u].h) \in Slots \ {i}
  BY <1>5, <1>6, InUse DEF InsideCalls
<1>9. Shape'
  BY <1>3, <1>4, <1>6 DEF ChanInv, Shape
<1>10. HoldInv'
  <2>1. (\A u \in Threads : \A g \in holds[u] : EndOpen(g))'
    BY <1>3, <1>7, InUse
  <2>2. (\A u \in Threads : \A w \in Threads \ {u} : holds[u] \cap holds[w] = {})'
    BY <1>3 DEF ChanInv, HoldInv
  <2>3. (\A u \in Threads : call[u].op \in InsideCalls => call[u].h \in holds[u])'
    BY <1>3, <1>8 DEF ChanInv, HoldInv
  <2>4. (\A j \in Slots : chan[j].used /\ ~chan[j].taken => chan[j].sopen)'
    BY <1>4 DEF ChanInv, HoldInv
  <2> QED BY <2>1, <2>2, <2>3, <2>4 DEF HoldInv
<1>11. FreeInv'
  <2>1. ASSUME NEW u \in Threads, call'[u].op = "free"
        PROVE  call'[u] = call[u] /\ SlotOf(call[u].h) \in Slots \ {i}
    <3>1. u # t /\ call'[u] = call[u] /\ SlotOf(call[u].h) \in Slots
      BY <1>6, <2>1, InUse
    <3> QED BY <1>1, <2>1, <3>1 DEF ChanInv, FreeInv, i
  <2> QED BY <1>4, <2>1 DEF ChanInv, FreeInv
<1>12. NoLostWakeup'
  BY <1>4, <1>8 DEF ChanInv, NoLostWakeup, InsideCalls
<1>13. RuleInv'
  <2>1. (\A g \in ready : g % 2 = 0 /\ EndOpen(g) /\ chan[SlotOf(g)].count > 0)'
    BY <1>3, <1>4, <1>5, <1>7, Ready, InUse
  <2>2. (\A u \in Threads : /\ call[u].op = "sender" => ~chan[SlotOf(call[u].h)].taken
                            /\ call[u].op = "take" => chan[SlotOf(call[u].h)].count > 0)'
    BY <1>4, <1>8 DEF ChanInv, RuleInv, InsideCalls
  <2> QED BY <2>1, <2>2 DEF RuleInv
<1>14. RingInv'
  BY <1>3, <1>4 DEF ChanInv, RingInv
<1>15. RuleKeepersDoNotTrap'
  BY <1>3 DEF ChanInv, RuleKeepersDoNotTrap
<1> QED
  BY <1>6, <1>9, <1>10, <1>11, <1>12, <1>13, <1>14, <1>15 DEF ChanInv

(***************************************************************************)
(* chan_new                                                                *)
(***************************************************************************)
\* A fresh slot is given to t, or the process ends.
LEMMA NewEffect ==
    ASSUME ChanInv, NEW t \in Threads, NEW cap \in Caps, chan_new(t, cap)
    PROVE  \/ Trap("chan_new: too many open channels")
           \/ \E i \in Slots :
                 /\ ~chan[i].used
                 /\ chan' \in [Slots -> ChanRecs] /\ \A j \in Slots \ {i} : chan'[j] = chan[j]
                 /\ chan'[i].used /\ chan'[i].sopen /\ chan'[i].ropen /\ chan'[i].cap = cap
                 /\ sent' = [sent EXCEPT ![i] = <<>>] /\ got' = [got EXCEPT ![i] = <<>>]
                 /\ Ring(chan'[i], <<>>, <<>>)
                 /\ holds' = [holds EXCEPT ![t] = holds[t] \cup {2 * i}]
                 /\ UNCHANGED <<thr, call, ready, kids, joined, trap>>
<1> DEFINE ring == [k \in 0 .. cap - 1 |-> 0]
           d == [used |-> TRUE, q |-> ring, head |-> 0, count |-> 0,
                 cap |-> cap, sopen |-> TRUE, ropen |-> TRUE, taken |-> FALSE]
<1>1. cap \in Nat \ {0}
  BY ChannelsAssumption
<1>2. ring \in [0 .. cap - 1 -> Nat] /\ ring \in Rings
  <2>1. ring \in [0 .. cap - 1 -> Nat]
    OBVIOUS
  <2> HIDE DEF ring
  <2> QED BY <1>1, <2>1 DEF Rings
<1>3. RingOf(cap, 0, 0, ring, <<>>, 0)
  <2> HIDE DEF ring
  <2>1. cap \in Nat \ {0} /\ 0 \in 0 .. cap - 1 /\ 0 \in 0 .. cap /\ 0 \in Nat
    BY <1>1
  <2>2. Len(<<>>) = 0 + 0 /\ 0 .. 0 - 1 = {}
    OBVIOUS
  <2> QED BY <1>2, <2>1, <2>2, Zenon DEF RingOf
<1>4. d \in ChanRecs
  <2> HIDE DEF ring
  <2> QED BY <1>1, <1>2 DEF ChanRecs
<1>5. d.used = TRUE /\ d.sopen = TRUE /\ d.ropen = TRUE /\ d.cap = cap /\ d.head = 0 /\ d.count = 0 /\ d.q = ring
  <2> HIDE DEF ring
  <2> QED OBVIOUS
<1>6. Ring(d, <<>>, <<>>)
  <2> HIDE DEF d, ring
  <2>1. Len(<<>>) = 0
    OBVIOUS
  <2> QED BY <1>3, <1>5, <2>1 DEF Ring
<1>7. CASE FreeSlots = {} /\ Trap("chan_new: too many open channels")
  BY <1>7, Zenon
<1>8. ASSUME NEW i \in FreeSlots,
             chan' = [chan EXCEPT ![i] = d],
             holds' = [holds EXCEPT ![t] = @ \cup {2 * i}],
             sent' = [sent EXCEPT ![i] = <<>>], got' = [got EXCEPT ![i] = <<>>],
             UNCHANGED <<thr, call, ready, stop, kids, joined, trap>>
      PROVE  \E j \in Slots :
                 /\ ~chan[j].used
                 /\ chan' \in [Slots -> ChanRecs] /\ \A k \in Slots \ {j} : chan'[k] = chan[k]
                 /\ chan'[j].used /\ chan'[j].sopen /\ chan'[j].ropen /\ chan'[j].cap = cap
                 /\ sent' = [sent EXCEPT ![j] = <<>>] /\ got' = [got EXCEPT ![j] = <<>>]
                 /\ Ring(chan'[j], <<>>, <<>>)
                 /\ holds' = [holds EXCEPT ![t] = holds[t] \cup {2 * j}]
                 /\ UNCHANGED <<thr, call, ready, kids, joined, trap>>
  <2> HIDE DEF d
  <2>1. i \in Slots /\ ~chan[i].used
    BY DEF FreeSlots
  <2>2. chan'[i] = d /\ chan' \in [Slots -> ChanRecs] /\ \A j \in Slots \ {i} : chan'[j] = chan[j]
    BY <1>4, <1>8, <2>1 DEF ChanInv, Shape
  <2>3. holds' = [holds EXCEPT ![t] = holds[t] \cup {2 * i}]
    BY <1>8
  <2>4. chan'[i].used /\ chan'[i].sopen /\ chan'[i].ropen /\ chan'[i].cap = cap /\ Ring(chan'[i], <<>>, <<>>)
    BY <1>5, <1>6, <2>2
  <2> QED BY <1>8, <2>1, <2>2, <2>3, <2>4
<1> HIDE DEF d
<1>9. CASE \E i \in FreeSlots :
             /\ chan' = [chan EXCEPT ![i] = d]
             /\ holds' = [holds EXCEPT ![t] = @ \cup {2 * i}]
             /\ sent' = [sent EXCEPT ![i] = <<>>] /\ got' = [got EXCEPT ![i] = <<>>]
             /\ UNCHANGED <<thr, call, ready, stop, kids, joined, trap>>
  BY <1>8, <1>9
<1>10. \/ FreeSlots = {} /\ Trap("chan_new: too many open channels")
       \/ \E i \in FreeSlots :
             /\ chan' = [chan EXCEPT ![i] = d]
             /\ holds' = [holds EXCEPT ![t] = @ \cup {2 * i}]
             /\ sent' = [sent EXCEPT ![i] = <<>>] /\ got' = [got EXCEPT ![i] = <<>>]
             /\ UNCHANGED <<thr, call, ready, stop, kids, joined, trap>>
  BY Zenon DEF chan_new, d
<1> QED
  BY <1>7, <1>9, <1>10, Zenon

\* id_chan_new keeps the invariant.
LEMMA NewStep ==
    ASSUME ChanInv, NEW t \in Threads, NEW cap \in Caps, chan_new(t, cap)
    PROVE  ChanInv'
<1>1. CASE Trap("chan_new: too many open channels")
  BY <1>1, TrapStep, Zenon
<1>2. ASSUME NEW i \in Slots,
             ~chan[i].used,
             chan' \in [Slots -> ChanRecs], \A j \in Slots \ {i} : chan'[j] = chan[j],
             chan'[i].used /\ chan'[i].sopen /\ chan'[i].ropen,
             sent' = [sent EXCEPT ![i] = <<>>], got' = [got EXCEPT ![i] = <<>>],
             Ring(chan'[i], <<>>, <<>>),
             holds' = [holds EXCEPT ![t] = holds[t] \cup {2 * i}],
             UNCHANGED <<thr, call, ready, kids, joined, trap>>
      PROVE  ChanInv'
  <2>1. PICK h \in Handles : h = 2 * i /\ SlotOf(h) = i /\ h % 2 = 0
    BY HandleFacts
  <2>2. /\ holds' \in [Threads -> SUBSET Handles] /\ holds'[t] = holds[t] \cup {h}
        /\ \A u \in Threads \ {t} : holds'[u] = holds[u]
    BY <1>2, <2>1 DEF ChanInv, Shape
  <2>3. \A g \in Handles : EndOpen(g) => SlotOf(g) # i
    BY <1>2 DEF EndOpen
  <2>4. \A g \in Handles : EndOpen(g) => EndOpen(g)'
    BY <1>2, <2>3, HandleFacts DEF EndOpen
  <2>5. EndOpen(h)'
    BY <1>2, <2>1 DEF EndOpen
  <2>6. \A u \in Threads : h \notin holds[u]
    BY <2>1, <2>3, InUse
  <2>7. \A u \in Threads : call[u].op \in InsideCalls => SlotOf(call[u].h) \in Slots \ {i}
    BY <2>3, InUse
  <2>8. /\ sent' \in [Slots -> Seq(Nat)] /\ got' \in [Slots -> Seq(Nat)]
        /\ sent'[i] = <<>> /\ got'[i] = <<>>
        /\ \A j \in Slots \ {i} : sent'[j] = sent[j] /\ got'[j] = got[j]
    BY <1>2 DEF ChanInv, Shape
  <2>9. Shape'
    BY <1>2, <2>2, <2>8 DEF ChanInv, Shape
  <2>10. Sides'
    BY <1>2 DEF ChanInv, Sides
  <2>11. HoldInv'
    <3>1. (\A u \in Threads : \A g \in holds[u] : EndOpen(g))'
      BY <2>2, <2>4, <2>5, InUse
    <3>2. (\A u \in Threads : \A w \in Threads \ {u} : holds[u] \cap holds[w] = {})'
      BY <2>2, <2>6 DEF ChanInv, HoldInv
    <3>3. (\A u \in Threads : call[u].op \in InsideCalls => call[u].h \in holds[u])'
      BY <1>2, <2>2 DEF ChanInv, HoldInv
    <3>4. (\A j \in Slots : chan[j].used /\ ~chan[j].taken => chan[j].sopen)'
      BY <1>2 DEF ChanInv, HoldInv
    <3> QED BY <3>1, <3>2, <3>3, <3>4 DEF HoldInv
  <2>12. FreeInv'
    <3>1. \A u \in Threads : call[u].op = "free" => SlotOf(call[u].h) \in Slots \ {i}
      BY <1>2, InUse DEF ChanInv, FreeInv
    <3> QED BY <1>2, <3>1 DEF ChanInv, FreeInv
  <2>13. NoLostWakeup'
    BY <1>2, <2>7 DEF ChanInv, NoLostWakeup, InsideCalls
  <2>14. RuleInv'
    <3>1. (\A g \in ready : g % 2 = 0 /\ EndOpen(g) /\ chan[SlotOf(g)].count > 0)'
      BY <1>2, <2>3, <2>4, Ready, InUse
    <3>2. (\A u \in Threads : /\ call[u].op = "sender" => ~chan[SlotOf(call[u].h)].taken
                              /\ call[u].op = "take" => chan[SlotOf(call[u].h)].count > 0)'
      BY <1>2, <2>7 DEF ChanInv, RuleInv, InsideCalls
    <3> QED BY <3>1, <3>2 DEF RuleInv
  <2>15. RingInv'
    BY <1>2, <2>8 DEF ChanInv, RingInv
  <2>16. KidInv'
    <3>1. KidEntries' /\ KidsApart' /\ JoinGivesOwnResult'
      BY <1>2 DEF ChanInv, KidInv, KidEntries, KidsApart, JoinGivesOwnResult
    <3>2. JoinedKid' /\ DoneResult'
      BY <1>2 DEF ChanInv, KidInv, JoinedKid, DoneResult
    <3> QED BY <3>1, <3>2 DEF KidInv
  <2>17. RuleKeepersDoNotTrap'
    BY <1>2 DEF ChanInv, RuleKeepersDoNotTrap
  <2> QED
    BY <2>9, <2>10, <2>11, <2>12, <2>13, <2>14, <2>15, <2>16, <2>17 DEF ChanInv
<1>3. CASE \E i \in Slots :
             /\ ~chan[i].used
             /\ chan' \in [Slots -> ChanRecs] /\ \A j \in Slots \ {i} : chan'[j] = chan[j]
             /\ chan'[i].used /\ chan'[i].sopen /\ chan'[i].ropen /\ chan'[i].cap = cap
             /\ sent' = [sent EXCEPT ![i] = <<>>] /\ got' = [got EXCEPT ![i] = <<>>]
             /\ Ring(chan'[i], <<>>, <<>>)
             /\ holds' = [holds EXCEPT ![t] = holds[t] \cup {2 * i}]
             /\ UNCHANGED <<thr, call, ready, kids, joined, trap>>
  BY <1>2, <1>3
<1> QED
  BY <1>1, <1>3, NewEffect, ZenonT(60)

-----------------------------------------------------------------------------
(***************************************************************************)
(* Threads: the channels are left alone.                                   *)
(***************************************************************************)
LEMMA ThreadParts ==
    ASSUME ChanInv, NEW t \in Threads, NEW c \in CallRecs, c.op \in {"idle", "done"},
           call' = [call EXCEPT ![t] = c],
           UNCHANGED <<chan, ready, sent, got, trap>>
    PROVE  /\ call' \in [Threads -> CallRecs] /\ call'[t] = c
           /\ \A u \in Threads \ {t} : call'[u] = call[u]
           /\ \A u \in Threads : call'[u].op \notin {"idle", "done"} => u # t /\ call'[u] = call[u]
           /\ Sides' /\ FreeInv' /\ NoLostWakeup' /\ RuleInv' /\ RingInv' /\ RuleKeepersDoNotTrap'
           /\ holds' = holds => HoldInv'
<1>1. /\ call' \in [Threads -> CallRecs] /\ call'[t] = c
      /\ \A u \in Threads \ {t} : call'[u] = call[u]
  BY DEF ChanInv, Shape
<1>2. \A u \in Threads : call'[u].op \notin {"idle", "done"} => u # t /\ call'[u] = call[u]
  BY <1>1
<1>3. Sides'
  BY <1>2 DEF ChanInv, Sides
<1>4. FreeInv'
  BY <1>2 DEF ChanInv, FreeInv
<1>5. NoLostWakeup'
  BY <1>2 DEF ChanInv, NoLostWakeup
<1>6. RuleInv'
  BY <1>2 DEF ChanInv, RuleInv, EndOpen
<1>7. RingInv' /\ RuleKeepersDoNotTrap'
  BY DEF ChanInv, RingInv, RuleKeepersDoNotTrap
<1>8. holds' = holds => HoldInv'
  BY <1>2 DEF ChanInv, HoldInv, EndOpen, InsideCalls
<1> QED
  BY <1>1, <1>2, <1>3, <1>4, <1>5, <1>6, <1>7, <1>8

\* The end of a thread keeps the invariant.
LEMMA MainStep ==
    ASSUME ChanInv, NEW u \in Threads, thr_main(u)
    PROVE  ChanInv'
<1> DEFINE c == [op |-> "done"]
<1>1. c \in CallRecs /\ c.op = "done"
  BY DEF CallRecs
<1>2. /\ call' = [call EXCEPT ![u] = c] /\ UNCHANGED <<chan, holds, ready, sent, got, kids, joined, trap>>
      /\ thr' = [j \in DOMAIN thr |-> IF thr[j].used /\ thr[j].who = u THEN [thr[j] EXCEPT !.res = u] ELSE thr[j]]
  BY DEF thr_main
<1> HIDE DEF c
<1>3. /\ call' \in [Threads -> CallRecs] /\ call'[u] = c
      /\ \A w \in Threads \ {u} : call'[w] = call[w]
      /\ \A w \in Threads : call'[w].op \notin {"idle", "done"} => w # u /\ call'[w] = call[w]
      /\ Sides' /\ FreeInv' /\ NoLostWakeup' /\ RuleInv' /\ RingInv' /\ RuleKeepersDoNotTrap' /\ HoldInv'
  BY <1>1, <1>2, ThreadParts
<1>4. DOMAIN thr = 1 .. NThr - 1 /\ thr \in [1 .. NThr - 1 -> ThrRecs]
  BY DEF ChanInv, Shape
<1>5. ASSUME NEW j \in 1 .. NThr - 1
      PROVE  /\ thr'[j] \in ThrRecs /\ thr'[j].used = thr[j].used /\ thr'[j].who = thr[j].who
             /\ thr[j].used /\ thr[j].who = u => thr'[j].res = u
             /\ ~(thr[j].used /\ thr[j].who = u) => thr'[j] = thr[j]
  <2>1. thr[j] \in ThrRecs
    BY <1>4
  <2>2. thr'[j] = IF thr[j].used /\ thr[j].who = u THEN [thr[j] EXCEPT !.res = u] ELSE thr[j]
    BY <1>2, <1>4
  <2>3. CASE thr[j].used /\ thr[j].who = u
    <3>1. thr'[j] = [thr[j] EXCEPT !.res = u]
      BY <2>2, <2>3
    <3> QED BY <2>1, <2>3, <3>1 DEF ThrRecs
  <2>4. CASE ~(thr[j].used /\ thr[j].who = u)
    BY <2>1, <2>2, <2>4
  <2> QED BY <2>3, <2>4
<1>6. thr' \in [1 .. NThr - 1 -> ThrRecs]
  <2>1. DOMAIN thr' = 1 .. NThr - 1 /\ thr' = [j \in DOMAIN thr' |-> thr'[j]]
    BY <1>2, <1>4
  <2> QED BY <1>5, <2>1
<1>7. Shape'
  BY <1>2, <1>3, <1>6 DEF ChanInv, Shape
<1>8. KidInv'
  <2>1. \A w \in Threads : \A k \in kids[w] : k[2] \in 1 .. NThr - 1
    BY DEF ChanInv, Shape
  <2>2. KidEntries'
    BY <1>2, <1>5, <2>1, ZenonT(60) DEF ChanInv, KidInv, KidEntries
  <2>3. KidsApart' /\ JoinGivesOwnResult'
    BY <1>2 DEF ChanInv, KidInv, KidsApart, JoinGivesOwnResult
  <2>4. JoinedKid'
    BY <1>2, <1>3 DEF ChanInv, KidInv, JoinedKid
  <2>5. DoneResult'
    <3> SUFFICES ASSUME NEW j \in 1 .. NThr - 1, thr'[j].used, call'[thr'[j].who].op = "done"
                 PROVE  thr'[j].res = thr'[j].who
      BY DEF DoneResult
    <3>1. thr[j].used /\ thr'[j].who = thr[j].who /\ thr[j].who \in Threads
      BY <1>4, <1>5 DEF ThrRecs
    <3>2. CASE thr[j].who = u
      BY <1>5, <3>1, <3>2
    <3>3. CASE thr[j].who # u
      <4>1. call[thr[j].who].op = "done"
        BY <1>3, <3>1, <3>3
      <4>2. thr[j].res = thr[j].who
        BY <3>1, <4>1 DEF ChanInv, KidInv, DoneResult
      <4> QED BY <1>5, <3>3, <4>2
    <3> QED BY <3>2, <3>3
  <2> QED BY <2>2, <2>3, <2>4, <2>5 DEF KidInv
<1> QED
  BY <1>3, <1>7, <1>8 DEF ChanInv

\* id_thr_join, up to its read of the result, keeps the invariant.
LEMMA JoinFirst ==
    ASSUME ChanInv, NEW t \in Threads, NEW k \in kids[t],
           thr[k[2]].used => /\ call[thr[k[2]].who].op = "done"
                             /\ call' = [call EXCEPT ![t] = [op |-> "joined", k |-> k, r |-> thr[k[2]].res]]
                             /\ UNCHANGED <<chan, thr, holds, ready, stop, sent, got, opens, kids, joined, trap>>
    PROVE  ChanInv'
<1> DEFINE c == [op |-> "joined", k |-> k, r |-> thr[k[2]].res]
<1>1. k \in Threads \X (1 .. NThr - 1) /\ k[2] \in 1 .. NThr - 1
  BY DEF ChanInv, Shape
<1>2. thr[k[2]].used /\ thr[k[2]].who = k[1] /\ thr[k[2]].res \in Threads
  BY <1>1 DEF ChanInv, KidInv, KidEntries, Shape, ThrRecs
<1>3. /\ call[thr[k[2]].who].op = "done"
      /\ call' = [call EXCEPT ![t] = c]
      /\ UNCHANGED <<chan, thr, holds, ready, sent, got, kids, joined, trap>>
  BY <1>2, Zenon
<1>4. thr[k[2]].res = k[1]
  BY <1>1, <1>2, <1>3 DEF ChanInv, KidInv, DoneResult
<1>5. c \in CallRecs
  BY <1>1, <1>2 DEF CallRecs
<1>6. c.op = "joined" /\ c.k = k /\ c.r = thr[k[2]].res
  OBVIOUS
<1> HIDE DEF c
<1>7. Sound(t, c)
  BY <1>4, <1>6 DEF Sound, InsideCalls
<1> QED
  BY <1>3, <1>5, <1>7, Ready, CallStep

\* id_thr_join, giving the entry back, keeps the invariant.
LEMMA JoinSecond ==
    ASSUME ChanInv, NEW t \in Threads, call[t].op = "joined",
           thr' = [thr EXCEPT ![call[t].k[2]].used = FALSE],
           kids' = [kids EXCEPT ![t] = @ \ {call[t].k}],
           joined' = joined \cup {<<call[t].k[1], call[t].r>>},
           Return(t),
           UNCHANGED <<chan, holds, ready, stop, sent, got, opens, trap>>
    PROVE  ChanInv'
<1> DEFINE k == call[t].k
           j == k[2]
<1>1. k \in kids[t] /\ call[t].r = k[1]
  BY DEF ChanInv, KidInv, JoinedKid
<1>2. \A w \in Threads : \A l \in kids[w] :
         /\ l \in Threads \X (1 .. NThr - 1) /\ l[2] \in 1 .. NThr - 1 /\ l = <<l[1], l[2]>>
         /\ thr[l[2]].used /\ thr[l[2]].who = l[1]
  BY DEF ChanInv, Shape, KidInv, KidEntries
<1>3. call' = [call EXCEPT ![t] = Idle]
  BY DEF Return
<1>4. /\ call' \in [Threads -> CallRecs] /\ call'[t] = Idle
      /\ \A u \in Threads \ {t} : call'[u] = call[u]
      /\ \A u \in Threads : call'[u].op \notin {"idle", "done"} => u # t /\ call'[u] = call[u]
      /\ Sides' /\ FreeInv' /\ NoLostWakeup' /\ RuleInv' /\ RingInv' /\ RuleKeepersDoNotTrap' /\ HoldInv'
  BY <1>3, IdleRec, ThreadParts
<1> HIDE DEF k
<1>5. k[2] \in 1 .. NThr - 1
  BY <1>1, <1>2, Zenon
<1>6. /\ thr' \in [1 .. NThr - 1 -> ThrRecs]
      /\ thr'[j].used = FALSE /\ thr'[j].who = thr[j].who /\ thr'[j].res = thr[j].res
      /\ \A m \in (1 .. NThr - 1) \ {j} : thr'[m] = thr[m]
  <2>1. thr' = [thr EXCEPT ![j] = [thr[j] EXCEPT !.used = FALSE]]
    BY DEF k
  <2>2. thr[j] \in ThrRecs /\ thr \in [1 .. NThr - 1 -> ThrRecs]
    BY <1>5 DEF ChanInv, Shape
  <2>3. LET e == [thr[j] EXCEPT !.used = FALSE] IN
        e \in ThrRecs /\ e.used = FALSE /\ e.who = thr[j].who /\ e.res = thr[j].res
    BY <2>2 DEF ThrRecs
  <2> QED BY <1>5, <2>1, <2>2, <2>3
<1>7. kids' = [kids EXCEPT ![t] = kids[t] \ {k}]
  BY DEF k
<1>8. /\ kids' \in [Threads -> SUBSET (Threads \X (1 .. NThr - 1))]
      /\ kids'[t] = kids[t] \ {k} /\ \A w \in Threads \ {t} : kids'[w] = kids[w]
  BY <1>7 DEF ChanInv, Shape
<1>9. Shape'
  BY <1>4, <1>6, <1>8 DEF ChanInv, Shape
\* The entry that is given back is nobody else's.
<1>10. ASSUME NEW w \in Threads, NEW l \in kids'[w] PROVE l \in kids[w] /\ l[2] # j
  <2>1. l \in kids[w]
    BY <1>8
  <2>2. CASE w # t
    BY <1>1, <2>1, <2>2 DEF ChanInv, KidInv, KidsApart
  <2>3. CASE w = t
    <3>1. l # k
      BY <1>8, <2>3
    <3>2. l = <<l[1], l[2]>> /\ k = <<k[1], k[2]>>
      BY <1>1, <1>2, <2>1
    <3>3. l[2] = k[2] => l[1] = k[1]
      BY <1>1, <1>2, <2>1
    <3>4. ASSUME l[2] = k[2] PROVE FALSE
      <4>1. <<l[1], l[2]>> = <<k[1], k[2]>>
        BY <3>3, <3>4
      <4> QED BY <3>1, <3>2, <4>1, Zenon
    <3> QED BY <2>1, <3>4
  <2> QED BY <2>2, <2>3
<1>11. KidEntries'
  <2> SUFFICES ASSUME NEW w \in Threads, NEW l \in kids'[w] PROVE thr'[l[2]].used /\ thr'[l[2]].who = l[1]
    BY DEF KidEntries
  <2>1. l[2] \in (1 .. NThr - 1) \ {j} /\ thr[l[2]].used /\ thr[l[2]].who = l[1]
    BY <1>2, <1>10
  <2>2. thr'[l[2]] = thr[l[2]]
    BY <1>6, <2>1
  <2> QED BY <2>1, <2>2
<1>12. KidsApart'
  BY <1>10 DEF ChanInv, KidInv, KidsApart
<1>13. JoinedKid'
  BY <1>4, <1>8 DEF ChanInv, KidInv, JoinedKid
<1>14. DoneResult'
  <2> SUFFICES ASSUME NEW m \in 1 .. NThr - 1, thr'[m].used, call'[thr'[m].who].op = "done"
               PROVE  thr'[m].res = thr'[m].who
    BY DEF DoneResult
  <2>1. m # j /\ thr'[m] = thr[m] /\ thr[m].who \in Threads
    BY <1>6 DEF ThrRecs
  <2>2. call[thr[m].who].op = "done"
    BY <1>4, <2>1, IdleRec
  <2> QED BY <2>1, <2>2 DEF ChanInv, KidInv, DoneResult
<1>15. JoinGivesOwnResult'
  <2>1. joined' = joined \cup {<<k[1], k[1]>>}
    BY <1>1 DEF k
  <2> SUFFICES ASSUME NEW p \in joined' PROVE p[1] = p[2]
    BY DEF JoinGivesOwnResult
  <2>2. CASE p \in joined
    BY <2>2 DEF ChanInv, KidInv, JoinGivesOwnResult
  <2>3. CASE p = <<k[1], k[1]>>
    BY <2>3
  <2> QED BY <2>1, <2>2, <2>3
<1>16. KidInv'
  BY <1>11, <1>12, <1>13, <1>14, <1>15 DEF KidInv
<1> QED
  BY <1>4, <1>9, <1>16 DEF ChanInv

\* id_thr_join keeps the invariant.
LEMMA JoinStep ==
    ASSUME ChanInv, NEW t \in Threads, thr_join(t)
    PROVE  ChanInv'
<1>1. CASE \E k \in kids[t] :
             IF ~thr[k[2]].used THEN Trap("thr_join: not a running thread")
             ELSE /\ call[thr[k[2]].who].op = "done"
                  /\ call' = [call EXCEPT ![t] = [op |-> "joined", k |-> k, r |-> thr[k[2]].res]]
                  /\ UNCHANGED <<chan, thr, holds, ready, stop, sent, got, opens, kids, joined, trap>>
  BY <1>1, JoinFirst, Zenon
<1>2. CASE /\ call[t].op = "joined"
           /\ thr' = [thr EXCEPT ![call[t].k[2]].used = FALSE]
           /\ kids' = [kids EXCEPT ![t] = @ \ {call[t].k}]
           /\ joined' = joined \cup {<<call[t].k[1], call[t].r>>}
           /\ Return(t)
           /\ UNCHANGED <<chan, holds, ready, stop, sent, got, opens, trap>>
  BY <1>2, JoinSecond
<1> QED
  BY <1>1, <1>2, Zenon DEF thr_join, Running

\* id_thr_spawn that starts a thread keeps the invariant.
LEMMA SpawnedStep ==
    ASSUME ChanInv, NEW t \in Threads, NEW u \in Threads, NEW h \in holds[t], NEW j \in FreeThr,
           call[t].op = "idle", call[u].op = "new",
           thr' = [thr EXCEPT ![j].used = TRUE, ![j].who = u],
           kids' = [kids EXCEPT ![t] = @ \cup {<<u, j>>}],
           call' = [call EXCEPT ![u] = Idle],
           holds' = [holds EXCEPT ![t] = @ \ {h}, ![u] = {h}],
           UNCHANGED <<chan, ready, stop, sent, got, opens, joined, trap>>
    PROVE  ChanInv'
<1>1. u # t
  OBVIOUS
<1>2. /\ call' \in [Threads -> CallRecs] /\ call'[u] = Idle
      /\ \A w \in Threads \ {u} : call'[w] = call[w]
      /\ \A w \in Threads : call'[w].op \notin {"idle", "done"} => w # u /\ call'[w] = call[w]
      /\ Sides' /\ FreeInv' /\ NoLostWakeup' /\ RuleInv' /\ RingInv' /\ RuleKeepersDoNotTrap'
  BY IdleRec, ThreadParts
<1>3. j \in 1 .. NThr - 1 /\ ~thr[j].used /\ thr[j] \in ThrRecs /\ thr \in [1 .. NThr - 1 -> ThrRecs]
  BY DEF ChanInv, Shape, FreeThr
<1>4. /\ thr' \in [1 .. NThr - 1 -> ThrRecs] /\ thr'[j].used = TRUE /\ thr'[j].who = u
      /\ \A m \in (1 .. NThr - 1) \ {j} : thr'[m] = thr[m]
  <2>1. thr' = [thr EXCEPT ![j] = [thr[j] EXCEPT !.used = TRUE, !.who = u]]
    BY <1>3
  <2>2. LET e == [thr[j] EXCEPT !.used = TRUE, !.who = u] IN
        e \in ThrRecs /\ e.used = TRUE /\ e.who = u
    BY <1>3 DEF ThrRecs
  <2> QED BY <1>3, <2>1, <2>2
<1>5. /\ kids' \in [Threads -> SUBSET (Threads \X (1 .. NThr - 1))]
      /\ kids'[t] = kids[t] \cup {<<u, j>>} /\ \A w \in Threads \ {t} : kids'[w] = kids[w]
  <2>1. <<u, j>> \in Threads \X (1 .. NThr - 1)
    BY <1>3
  <2> QED BY <2>1 DEF ChanInv, Shape
<1>6. /\ holds' \in [Threads -> SUBSET Handles]
      /\ holds'[t] = holds[t] \ {h} /\ holds'[u] = {h}
      /\ \A w \in Threads \ {t, u} : holds'[w] = holds[w]
  BY <1>1 DEF ChanInv, Shape
<1>7. Shape'
  BY <1>2, <1>4, <1>5, <1>6 DEF ChanInv, Shape
<1>8. HoldInv'
  <2>1. \A w \in Threads : \A g \in holds[w] : EndOpen(g) => EndOpen(g)'
    BY DEF EndOpen
  <2>2. (\A w \in Threads : \A g \in holds[w] : EndOpen(g))'
    BY <1>6, <2>1 DEF ChanInv, HoldInv
  <2>3. (\A w \in Threads : \A v \in Threads \ {w} : holds[w] \cap holds[v] = {})'
    BY <1>6 DEF ChanInv, HoldInv
  <2>4. (\A w \in Threads : call[w].op \in InsideCalls => call[w].h \in holds[w])'
    <3> SUFFICES ASSUME NEW w \in Threads, call'[w].op \in InsideCalls PROVE call'[w].h \in holds'[w]
      OBVIOUS
    <3>1. w # u /\ call'[w] = call[w]
      BY <1>2 DEF InsideCalls
    <3>2. w # t
      BY <3>1 DEF InsideCalls
    <3> QED BY <1>6, <3>1, <3>2 DEF ChanInv, HoldInv
  <2>5. (\A i \in Slots : chan[i].used /\ ~chan[i].taken => chan[i].sopen)'
    BY DEF ChanInv, HoldInv
  <2> QED BY <2>2, <2>3, <2>4, <2>5 DEF HoldInv
\* A handle a thread has had before is of another entry.
<1>9. \A w \in Threads : \A l \in kids[w] :
         l[2] \in (1 .. NThr - 1) \ {j} /\ thr[l[2]].used /\ thr[l[2]].who = l[1]
  <2> SUFFICES ASSUME NEW w \in Threads, NEW l \in kids[w]
               PROVE  l[2] \in (1 .. NThr - 1) \ {j} /\ thr[l[2]].used /\ thr[l[2]].who = l[1]
    OBVIOUS
  <2>1. l[2] \in 1 .. NThr - 1
    BY DEF ChanInv, Shape
  <2>2. thr[l[2]].used /\ thr[l[2]].who = l[1]
    BY DEF ChanInv, KidInv, KidEntries
  <2> QED BY <1>3, <2>1, <2>2
<1>10. \A w \in Threads : \A l \in kids'[w] : l \in kids[w] \/ (w = t /\ l[1] = u /\ l[2] = j)
  BY <1>5
<1>11. KidEntries'
  <2> SUFFICES ASSUME NEW w \in Threads, NEW l \in kids'[w] PROVE thr'[l[2]].used /\ thr'[l[2]].who = l[1]
    BY DEF KidEntries
  <2>1. CASE l \in kids[w]
    <3>1. thr'[l[2]] = thr[l[2]]
      BY <1>4, <1>9, <2>1
    <3> QED BY <1>9, <2>1, <3>1
  <2>2. CASE l[1] = u /\ l[2] = j
    BY <1>4, <2>2
  <2> QED BY <1>10, <2>1, <2>2
<1>12. KidsApart'
  <2> SUFFICES ASSUME NEW w \in Threads, NEW v \in Threads, NEW k \in kids'[w], NEW l \in kids'[v], k[2] = l[2]
               PROVE  w = v
    BY DEF KidsApart
  <2>1. CASE k \in kids[w] /\ l \in kids[v]
    BY <2>1 DEF ChanInv, KidInv, KidsApart
  <2>2. CASE k \notin kids[w] /\ l \notin kids[v]
    BY <1>10, <2>2
  <2>3. CASE k \in kids[w] /\ l \notin kids[v]
    BY <1>9, <1>10, <2>3
  <2>4. CASE k \notin kids[w] /\ l \in kids[v]
    BY <1>9, <1>10, <2>4
  <2> QED BY <2>1, <2>2, <2>3, <2>4
<1>13. JoinedKid'
  BY <1>2, <1>5 DEF ChanInv, KidInv, JoinedKid
<1>14. DoneResult'
  <2> SUFFICES ASSUME NEW m \in 1 .. NThr - 1, thr'[m].used, call'[thr'[m].who].op = "done"
               PROVE  thr'[m].res = thr'[m].who
    BY DEF DoneResult
  <2>1. m # j /\ thr'[m] = thr[m] /\ thr[m].who \in Threads
    BY <1>2, <1>3, <1>4, IdleRec DEF ThrRecs
  <2>2. call[thr[m].who].op = "done"
    BY <1>2, <2>1, IdleRec
  <2> QED BY <2>1, <2>2 DEF ChanInv, KidInv, DoneResult
<1>15. KidInv'
  BY <1>11, <1>12, <1>13, <1>14 DEF ChanInv, KidInv, JoinGivesOwnResult
<1> QED
  BY <1>2, <1>7, <1>8, <1>15 DEF ChanInv

\* id_thr_spawn keeps the invariant.
LEMMA SpawnStep ==
    ASSUME ChanInv, NEW t \in Threads, NEW u \in Threads, NEW h \in holds[t], thr_spawn(t, u, h)
    PROVE  ChanInv'
<1>1. CASE Trap("thr_spawn: too many running threads")
  BY <1>1, TrapStep, Zenon
<1>2. CASE Trap("thr_spawn: cannot start a thread")
  BY <1>2, TrapStep, Zenon
<1>3. CASE \E j \in FreeThr :
             /\ call[t].op = "idle" /\ call[u].op = "new"
             /\ thr' = [thr EXCEPT ![j].used = TRUE, ![j].who = u]
             /\ kids' = [kids EXCEPT ![t] = @ \cup {<<u, j>>}]
             /\ call' = [call EXCEPT ![u] = Idle]
             /\ holds' = [holds EXCEPT ![t] = @ \ {h}, ![u] = {h}]
             /\ UNCHANGED <<chan, ready, stop, sent, got, opens, joined, trap>>
  BY <1>3, SpawnedStep, ZenonT(60)
<1> QED
  BY <1>1, <1>2, <1>3, Zenon DEF thr_spawn, Running

-----------------------------------------------------------------------------
(***************************************************************************)
(* Every step keeps the invariant.                                         *)
(***************************************************************************)
\* The invariant is about the variables alone.
LEMMA StutterStep ==
    ASSUME ChanInv, UNCHANGED vars
    PROVE  ChanInv'
<1>1. UNCHANGED <<chan, thr, call, holds, ready, sent, got, kids, joined, trap>>
  BY DEF vars
<1>2. Shape' /\ Sides'
  BY <1>1 DEF ChanInv, Shape, Sides
<1>3. HoldInv' /\ FreeInv' /\ NoLostWakeup' /\ RuleInv'
  BY <1>1 DEF ChanInv, HoldInv, FreeInv, NoLostWakeup, RuleInv, EndOpen
<1>4. RingInv' /\ KidInv'
  BY <1>1 DEF ChanInv, RingInv, KidInv, KidEntries, KidsApart, JoinedKid, DoneResult, JoinGivesOwnResult
<1>5. RuleKeepersDoNotTrap'
  BY <1>1, Zenon DEF ChanInv, RuleKeepersDoNotTrap
<1> QED
  BY <1>2, <1>3, <1>4, <1>5 DEF ChanInv

\* Every step of every thread keeps the invariant.
LEMMA NextInv ==
    ASSUME ChanInv, [Next]_vars
    PROVE  ChanInv'
<1>1. CASE UNCHANGED vars
  BY <1>1, StutterStep
<1>2. ASSUME NEW t \in Threads, Program(t)
      PROVE  ChanInv'
  <2>1. ASSUME NEW cap \in Caps, chan_new(t, cap) PROVE ChanInv'
    BY <2>1, NewStep
  <2>2. ASSUME NEW h \in holds[t],
               \/ EnterSender(t, h) \/ EnterSend(t, h) \/ EnterWait(t, h) \/ EnterTake(t, h) \/ EnterClose(t, h)
        PROVE  ChanInv'
    BY <2>2, EnterStep
  <2>3. ASSUME NEW h \in holds[t], NEW u \in Threads, thr_spawn(t, u, h) PROVE ChanInv'
    BY <2>3, SpawnStep
  <2>4. CASE thr_main(t)
    BY <2>4, MainStep
  <2>5. CASE thr_join(t)
    BY <2>5, JoinStep
  <2> QED
    BY <1>2, <2>1, <2>2, <2>3, <2>4, <2>5, Zenon DEF Program
<1>3. ASSUME NEW t \in Threads, Section(t)
      PROVE  ChanInv'
  BY <1>3, SenderStep, SendStep, WaitStep, TakeStep, CloseStep, FreeStep, Zenon DEF Section
<1>4. ASSUME NEW t \in Threads, SpuriousWake(t)
      PROVE  ChanInv'
  BY <1>4, WakeStep
<1> QED
  BY <1>1, <1>2, <1>3, <1>4, Zenon DEF Next

\* Whatever the threads do, the ends they hold are open and held by one thread
\* each, and the ring of every open channel holds what was sent and not taken.
THEOREM Invariance == Spec => []ChanInv
<1>1. Init => ChanInv
  BY InitInv
<1>2. ChanInv /\ [Next]_vars => ChanInv'
  BY NextInv
<1> QED
  BY <1>1, <1>2, PTL DEF Spec

\* id_chan_of reads the table with no lock, and yet the slot a call found is
\* the slot its critical section works on: it is not released in between.
THEOREM LookupSafe == Spec => []LookupStaysValid
<1>1. ChanInv => LookupStaysValid
  BY DEF ChanInv, HoldInv, LookupStaysValid, Shape
<1> QED
  BY <1>1, Invariance, PTL

\* pthread_cond_signal in id_chan_send and id_chan_take wakes enough: no
\* thread sleeps on a condition that already holds.
THEOREM WakeupsKept == Spec => []NoLostWakeup
<1>1. ChanInv => NoLostWakeup
  BY DEF ChanInv
<1> QED
  BY <1>1, Invariance, PTL

\* A program that keeps the rules of the runtime's messages meets no trap of
\* the channel calls or of id_thr_join, only those of a table that is full.
THEOREM NoRuleTrap == Spec => []RuleKeepersDoNotTrap
<1>1. ChanInv => RuleKeepersDoNotTrap
  BY DEF ChanInv
<1> QED
  BY <1>1, Invariance, PTL

\* id_thr_join gives its caller the result of the thread it asked for, though
\* entries of id_thrs are given back without the lock and used again.
THEOREM JoinOwn == Spec => []JoinGivesOwnResult
<1>1. ChanInv => JoinGivesOwnResult
  BY DEF ChanInv, KidInv
<1> QED
  BY <1>1, Invariance, PTL

-----------------------------------------------------------------------------
(***************************************************************************)
(* A channel is a bounded queue.                                           *)
(***************************************************************************)
RoomOf(c) == IF c.used THEN c.cap ELSE 0

\* Steps that neither open, close, fill nor empty a channel.
LEMMA SameQueue ==
    ASSUME \A j \in Slots : /\ RoomOf(chan'[j]) = RoomOf(chan[j])
                            /\ chan'[j].sopen = chan[j].sopen /\ chan'[j].ropen = chan[j].ropen,
           sent' = sent, got' = got
    PROVE  UNCHANGED Queue!qvars
<1>1. [i \in Slots |-> IF chan[i].used THEN chan[i].cap ELSE 0]'
        = [i \in Slots |-> IF chan[i].used THEN chan[i].cap ELSE 0]
  BY DEF RoomOf
<1>2. /\ [i \in Slots |-> chan[i].sopen]' = [i \in Slots |-> chan[i].sopen]
      /\ [i \in Slots |-> chan[i].ropen]' = [i \in Slots |-> chan[i].ropen]
  OBVIOUS
<1> QED
  BY <1>1, <1>2 DEF Queue!qvars

\* With no channel open every queue is empty.
LEMMA QueueInit == Init => Queue!QInit
BY DEF Init, NoChan, Queue!QInit

\* id_chan_send appends to the queue or leaves it.
LEMMA SendQueue ==
    ASSUME ChanInv, NEW t \in Threads, chan_send(t)
    PROVE  Queue!QNext \/ UNCHANGED Queue!qvars
<1> DEFINE i == SlotOf(call[t].h)
           c == chan[i]
<1>1. CASE c.ropen /\ ~Full(c)
  <2>1. /\ i \in Slots /\ c \in ChanRecs /\ call[t].v \in 1 .. MaxSends
        /\ \A j \in Slots \ {i} : chan'[j] = chan[j]
        /\ chan'[i].used = c.used /\ chan'[i].sopen = c.sopen /\ chan'[i].ropen = c.ropen
        /\ chan'[i].cap = c.cap /\ c.count \in 0 .. c.cap - 1
        /\ got' = got
    BY <1>1, SendEffect
  <2>2. sent' = [sent EXCEPT ![i] = Append(sent[i], call[t].v)]
    BY <1>1 DEF chan_send
  <2>3. call[t].op = "send" /\ call[t].h % 2 = 1
    BY DEF ChanInv, Sides, chan_send, Running
  <2>4. c.used /\ c.sopen
    BY <2>3, Inside DEF InsideCalls, EndOpen
  <2>5. Len(sent[i]) - Len(got[i]) < c.cap
    <3>1. Ring(c, sent[i], got[i])
      BY <2>1, <2>4 DEF ChanInv, RingInv
    <3>2. Len(got[i]) \in Nat /\ Len(sent[i]) = Len(got[i]) + c.count /\ c.cap \in Nat
      BY <3>1 DEF Ring, RingOf
    <3> QED
      BY <2>1, <3>2
  <2>6. Queue!QSend(i, call[t].v)
    <3> HIDE DEF i
    <3>1. [j \in Slots |-> IF chan[j].used THEN chan[j].cap ELSE 0]'
            = [j \in Slots |-> IF chan[j].used THEN chan[j].cap ELSE 0]
      BY <2>1
    <3>2. /\ [j \in Slots |-> chan[j].sopen]' = [j \in Slots |-> chan[j].sopen]
          /\ [j \in Slots |-> chan[j].ropen]' = [j \in Slots |-> chan[j].ropen]
      BY <2>1
    <3>3. /\ [j \in Slots |-> chan[j].sopen][i] = c.sopen /\ [j \in Slots |-> chan[j].ropen][i] = c.ropen
          /\ [j \in Slots |-> IF chan[j].used THEN chan[j].cap ELSE 0][i] = c.cap
      BY <2>1, <2>4
    <3> QED
      BY <1>1, <2>1, <2>2, <2>4, <2>5, <3>1, <3>2, <3>3 DEF Queue!QSend
  <2> QED
    BY <2>1, <2>6 DEF Queue!QNext
<1>2. CASE ~(c.ropen /\ ~Full(c))
  BY <1>2, SameQueue DEF chan_send
<1> QED
  BY <1>1, <1>2

\* id_chan_take removes the oldest value of the queue.
LEMMA TakeQueue ==
    ASSUME ChanInv, NEW t \in Threads, chan_take(t)
    PROVE  Queue!QNext
<1> DEFINE i == SlotOf(call[t].h)
           c == chan[i]
<1>1. /\ i \in Slots
      /\ \A j \in Slots \ {i} : chan'[j] = chan[j]
      /\ chan'[i].used = c.used /\ chan'[i].sopen = c.sopen /\ chan'[i].ropen = c.ropen
      /\ chan'[i].cap = c.cap
      /\ got' = [got EXCEPT ![i] = Append(got[i], sent[i][Len(got[i]) + 1])]
      /\ Len(got[i]) < Len(sent[i])
      /\ sent' = sent
  BY TakeEffect
<1>2. call[t].op = "take" /\ call[t].h % 2 = 0
  BY DEF ChanInv, Sides, chan_take, Running
<1>3. c.ropen
  BY <1>2, Inside DEF InsideCalls, EndOpen
<1> HIDE DEF i
<1>4. [j \in Slots |-> IF chan[j].used THEN chan[j].cap ELSE 0]'
        = [j \in Slots |-> IF chan[j].used THEN chan[j].cap ELSE 0]
  BY <1>1
<1>5. /\ [j \in Slots |-> chan[j].sopen]' = [j \in Slots |-> chan[j].sopen]
      /\ [j \in Slots |-> chan[j].ropen]' = [j \in Slots |-> chan[j].ropen]
  BY <1>1
<1>6. Queue!QTake(i)
  BY <1>1, <1>3, <1>4, <1>5 DEF Queue!QTake
<1> QED
  BY <1>1, <1>6 DEF Queue!QNext

\* id_chan_close closes one side of the queue.
LEMMA CloseQueue ==
    ASSUME ChanInv, NEW t \in Threads, chan_close(t)
    PROVE  Queue!QNext
<1> DEFINE h == call[t].h
           i == SlotOf(h)
           c == chan[i]
<1>1. /\ h \in Handles /\ i \in Slots /\ EndOpen(h)
      /\ \A j \in Slots \ {i} : chan'[j] = chan[j]
      /\ chan'[i].used = c.used /\ chan'[i].cap = c.cap
      /\ h % 2 = 1 => chan'[i].sopen = FALSE /\ chan'[i].ropen = c.ropen
      /\ h % 2 = 0 => chan'[i].ropen = FALSE /\ chan'[i].sopen = c.sopen
      /\ sent' = sent /\ got' = got
  BY CloseEffect
<1>2. h % 2 \in {0, 1} /\ (h % 2 = 0 => c.ropen) /\ (h % 2 = 1 => c.sopen)
  BY <1>1, HandleFacts DEF EndOpen
<1> HIDE DEF h, i
<1>3. [j \in Slots |-> IF chan[j].used THEN chan[j].cap ELSE 0]'
        = [j \in Slots |-> IF chan[j].used THEN chan[j].cap ELSE 0]
  BY <1>1
<1>4. CASE h % 2 = 1
  <2>1. /\ [j \in Slots |-> chan[j].sopen]' = [[j \in Slots |-> chan[j].sopen] EXCEPT ![i] = FALSE]
        /\ [j \in Slots |-> chan[j].ropen]' = [j \in Slots |-> chan[j].ropen]
    BY <1>1, <1>4
  <2>2. PICK k \in Slots : k = i
    BY <1>1
  <2>3. Queue!QCloseSender(k)
    BY <1>1, <1>2, <1>3, <1>4, <2>1, <2>2 DEF Queue!QCloseSender
  <2> QED
    BY <2>3, Zenon DEF Queue!QNext
<1>5. CASE h % 2 = 0
  <2>1. /\ [j \in Slots |-> chan[j].ropen]' = [[j \in Slots |-> chan[j].ropen] EXCEPT ![i] = FALSE]
        /\ [j \in Slots |-> chan[j].sopen]' = [j \in Slots |-> chan[j].sopen]
    BY <1>1, <1>5
  <2>2. PICK k \in Slots : k = i
    BY <1>1
  <2>3. Queue!QCloseReceiver(k)
    BY <1>1, <1>2, <1>3, <1>5, <2>1, <2>2 DEF Queue!QCloseReceiver
  <2> QED
    BY <2>3, Zenon DEF Queue!QNext
<1> QED
  BY <1>2, <1>4, <1>5

\* The release of a slot is the release of its queue.
LEMMA FreeQueue ==
    ASSUME ChanInv, NEW t \in Threads, chan_free(t)
    PROVE  Queue!QNext
<1> DEFINE i == SlotOf(call[t].h)
           c == chan[i]
<1>1. call[t].op = "free" /\ i \in Slots
  BY InUse DEF chan_free, Running
<1>2. c \in ChanRecs /\ c.used /\ ~c.sopen /\ ~c.ropen
  BY <1>1 DEF ChanInv, Shape, FreeInv
<1>3. c.cap \in Nat \ {0}
  BY <1>1, <1>2 DEF ChanInv, RingInv, Ring, RingOf
<1>4. /\ chan' = [chan EXCEPT ![i] = [c EXCEPT !.q = <<>>, !.used = FALSE]]
      /\ sent' = sent /\ got' = got
  BY DEF chan_free
<1>5. /\ \A j \in Slots \ {i} : chan'[j] = chan[j]
      /\ ~chan'[i].used /\ chan'[i].sopen = c.sopen /\ chan'[i].ropen = c.ropen
  BY <1>1, <1>2, <1>4 DEF ChanInv, Shape, ChanRecs
<1> HIDE DEF i
<1>6. [j \in Slots |-> IF chan[j].used THEN chan[j].cap ELSE 0]'
        = [[j \in Slots |-> IF chan[j].used THEN chan[j].cap ELSE 0] EXCEPT ![i] = 0]
  BY <1>1, <1>5
<1>7. /\ [j \in Slots |-> chan[j].sopen]' = [j \in Slots |-> chan[j].sopen]
      /\ [j \in Slots |-> chan[j].ropen]' = [j \in Slots |-> chan[j].ropen]
  BY <1>5
<1>8. /\ [j \in Slots |-> chan[j].sopen][i] = c.sopen /\ [j \in Slots |-> chan[j].ropen][i] = c.ropen
      /\ [j \in Slots |-> IF chan[j].used THEN chan[j].cap ELSE 0][i] = c.cap
  BY <1>1, <1>2
<1>9. PICK k \in Slots : k = i
  BY <1>1
<1>10. Queue!QRelease(k)
  BY <1>2, <1>3, <1>4, <1>6, <1>7, <1>8, <1>9 DEF Queue!QRelease
<1> QED
  BY <1>10, Zenon DEF Queue!QNext

\* A trap ends the process and leaves the channels as they are.
LEMMA TrapQueue ==
    ASSUME NEW why, Trap(why)
    PROVE  chan' = chan /\ sent' = sent /\ got' = got
BY Zenon DEF Trap

\* id_chan_new opens an empty queue.
LEMMA NewQueue ==
    ASSUME ChanInv, NEW t \in Threads, NEW cap \in Caps, chan_new(t, cap)
    PROVE  Queue!QNext \/ UNCHANGED Queue!qvars
<1>1. CASE Trap("chan_new: too many open channels")
  <2>1. chan' = chan /\ sent' = sent /\ got' = got
    BY <1>1, TrapQueue, Zenon
  <2> QED
    BY <2>1, SameQueue
<1>2. ASSUME NEW i \in Slots,
             ~chan[i].used,
             \A j \in Slots \ {i} : chan'[j] = chan[j],
             chan'[i].used /\ chan'[i].sopen /\ chan'[i].ropen /\ chan'[i].cap = cap,
             sent' = [sent EXCEPT ![i] = <<>>], got' = [got EXCEPT ![i] = <<>>],
             chan' \in [Slots -> ChanRecs]
      PROVE  Queue!QNext
  <2>1. [j \in Slots |-> IF chan[j].used THEN chan[j].cap ELSE 0]'
          = [[j \in Slots |-> IF chan[j].used THEN chan[j].cap ELSE 0] EXCEPT ![i] = cap]
    <3>1. ASSUME NEW j \in Slots
          PROVE  (IF chan'[j].used THEN chan'[j].cap ELSE 0)
                   = [[k \in Slots |-> IF chan[k].used THEN chan[k].cap ELSE 0] EXCEPT ![i] = cap][j]
      BY <1>2
    <3> QED
      BY <3>1
  <2>2. chan'[i].sopen = TRUE /\ chan'[i].ropen = TRUE
    BY <1>2 DEF ChanRecs
  <2>3. [j \in Slots |-> chan[j].sopen]' = [[j \in Slots |-> chan[j].sopen] EXCEPT ![i] = TRUE]
    BY <1>2, <2>2
  <2>4. [j \in Slots |-> chan[j].ropen]' = [[j \in Slots |-> chan[j].ropen] EXCEPT ![i] = TRUE]
    BY <1>2, <2>2
  <2>5. Queue!QOpen(i, cap)
    BY <1>2, <2>1, <2>3, <2>4 DEF Queue!QOpen
  <2> QED
    BY <2>5 DEF Queue!QNext
<1> QED
  BY <1>1, <1>2, NewEffect, ZenonT(60)

\* The steps of the program that only change what a thread is doing.
LEMMA ProgramQueue ==
    ASSUME NEW t \in Threads, Program(t), ~ \E cap \in Caps : chan_new(t, cap)
    PROVE  UNCHANGED Queue!qvars
<1>1. ASSUME NEW c, chan_of(t, c) PROVE chan' = chan /\ sent' = sent /\ got' = got
  BY <1>1, TrapQueue, Zenon DEF chan_of
<1>2. ASSUME NEW h \in holds[t],
             \/ EnterSender(t, h) \/ EnterSend(t, h) \/ EnterWait(t, h) \/ EnterTake(t, h) \/ EnterClose(t, h)
      PROVE  chan' = chan /\ sent' = sent /\ got' = got
  BY <1>1, <1>2, Zenon DEF EnterSender, EnterSend, EnterWait, EnterTake, EnterClose
<1>3. ASSUME NEW h \in holds[t], NEW u \in Threads, thr_spawn(t, u, h)
      PROVE  chan' = chan /\ sent' = sent /\ got' = got
  BY <1>3, TrapQueue, Zenon DEF thr_spawn
<1>4. CASE thr_main(t)
  BY <1>4, SameQueue DEF thr_main
<1>5. CASE thr_join(t)
  <2>1. chan' = chan /\ sent' = sent /\ got' = got
    BY <1>5, TrapQueue, Zenon DEF thr_join
  <2> QED
    BY <2>1, SameQueue
<1>6. chan' = chan /\ sent' = sent /\ got' = got => UNCHANGED Queue!qvars
  BY SameQueue
<1> QED
  BY <1>2, <1>3, <1>4, <1>5, <1>6, Zenon DEF Program

\* id_chan_sender does not touch the queue.
LEMMA SenderQueue ==
    ASSUME ChanInv, NEW t \in Threads, chan_sender(t)
    PROVE  UNCHANGED Queue!qvars
<1> DEFINE i == SlotOf(call[t].h)
<1>1. call[t].op = "sender"
  BY DEF chan_sender, Running
<1>2. i \in Slots /\ chan[i] \in ChanRecs /\ ~chan[i].taken
  BY <1>1, Inside DEF InsideCalls, ChanInv, RuleInv
<1>3. chan' = [chan EXCEPT ![i].taken = TRUE] /\ sent' = sent /\ got' = got
  BY <1>2 DEF chan_sender
<1>4. \A j \in Slots : /\ chan'[j].used = chan[j].used /\ chan'[j].cap = chan[j].cap
                       /\ chan'[j].sopen = chan[j].sopen /\ chan'[j].ropen = chan[j].ropen
  BY <1>2, <1>3 DEF ChanInv, Shape, ChanRecs
<1> HIDE DEF i
<1> QED
  BY <1>3, <1>4, SameQueue DEF RoomOf

\* Every step is a step of the queues or leaves them.
LEMMA NextQueue ==
    ASSUME ChanInv, [Next]_vars
    PROVE  [Queue!QNext]_Queue!qvars
<1>1. CASE UNCHANGED vars
  BY <1>1, SameQueue DEF vars
<1>2. ASSUME NEW t \in Threads, Program(t) \/ Section(t) \/ SpuriousWake(t)
      PROVE  Queue!QNext \/ UNCHANGED Queue!qvars
  <2>1. CASE Program(t)
    BY <2>1, NewQueue, ProgramQueue, Zenon
  <2>2. CASE chan_wait(t)
    BY <2>2, SameQueue DEF chan_wait
  <2>3. CASE SpuriousWake(t)
    BY <2>3, SameQueue DEF SpuriousWake
  <2> QED
    BY <1>2, <2>1, <2>2, <2>3, SenderQueue, SendQueue, TakeQueue, CloseQueue, FreeQueue, Zenon DEF Section
<1> QED
  BY <1>1, <1>2, Zenon DEF Next

\* The ring with its head, its count and its two flags, filled and emptied
\* under a mutex that sleeps and wakes, implements a bounded FIFO queue: what
\* id_chan_take returns is what id_chan_send was given, in order, none lost
\* and none twice, and at most the capacity is under way.
THEOREM ChannelsAreQueues == Spec => QueueSpec
<1>1. Init => Queue!QInit
  BY QueueInit
<1>2. ChanInv /\ [Next]_vars => [Queue!QNext]_Queue!qvars
  BY NextQueue
<1> QED
  BY <1>1, <1>2, Invariance, PTL DEF Spec, QueueSpec, Queue!QSpec
=============================================================================

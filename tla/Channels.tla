------------------------------- MODULE Channels -------------------------------
(***************************************************************************)
(* Threads and channels of the runtime: id_chan_new, id_chan_send, ...,    *)
(* id_thr_spawn, id_thr_join.  A channel is a slot of the table id_chans   *)
(* with a ring of cap cells; slot i has the receiving end 2i and the       *)
(* sending end 2i+1.  A call first looks its handle up without a lock      *)
(* (id_chan_of) and then runs one critical section under the channel's     *)
(* mutex, in which it may sleep on ne or nf;                               *)
(* the step that closes the second end releases the slot in a section of   *)
(* its own, under the table's mutex.  So a call is an Enter step and then  *)
(* its body, and the steps of other threads fall between.                  *)
(*                                                                         *)
(* The threads run any program that keeps the rules the runtime's messages *)
(* state: an end is held by one thread, a sender is made once, chan_take   *)
(* follows a chan_wait that returned 1, a send or a wait that returned 0   *)
(* is the last on its end, and a thread does not block on a channel whose  *)
(* other end it holds itself or whose sender was never made.  A new thread *)
(* is given one end (the int of thr_spawn); its parent joins it once the   *)
(* parent has closed its own ends.  By data independence the values sent   *)
(* over a channel are their own numbers.                                   *)
(***************************************************************************)
EXTENDS Integers, Sequences

CONSTANTS
    Threads, Main,
    NSlots,    \* the channel table, 256 in the code; slot 0 is never used
    NThr,      \* the thread table, 256 in the code; entry 0 is never used
    Caps,      \* capacities a program asks for
    MaxSends,  \* bound: values a program sends over one channel
    MaxOpens   \* bound: channels a program opens

ASSUME ChannelsAssumption ==
    /\ Main \in Threads
    /\ NSlots \in Nat \ {0} /\ NThr \in Nat \ {0}
    /\ Caps \subseteq Nat \ {0}
    /\ MaxSends \in Nat /\ MaxOpens \in Nat

Slots == 1 .. NSlots - 1
Handles == {2 * i : i \in Slots} \cup {2 * i + 1 : i \in Slots}
Twin(h) == IF h % 2 = 0 THEN h + 1 ELSE h - 1
SlotOf(h) == h \div 2

VARIABLES
    chan,    \* id_chans
    thr,     \* id_thrs
    call,    \* what each thread is doing
    holds,   \* the ends a thread holds
    ready,   \* the receiving ends whose chan_wait returned 1 and no take followed
    stop,    \* the ends whose last send, or last wait, returned 0
    sent, got, opens,   \* history
    kids,    \* the thread handles a thread got from thr_spawn, with whom they started
    joined,  \* <<thread, the result thr_join gave its parent for it>>
    trap     \* the message of the trap that ended the process, or "none"

vars == <<chan, thr, call, holds, ready, stop, sent, got, opens, kids, joined, trap>>

NoChan == [used |-> FALSE, q |-> <<>>, head |-> 0, count |-> 0, cap |-> 0,
           sopen |-> FALSE, ropen |-> FALSE, taken |-> FALSE]
NoThr == [used |-> FALSE, who |-> Main, res |-> Main]
Idle == [op |-> "idle"]

Init ==
    /\ chan = [i \in Slots |-> NoChan]
    /\ thr = [j \in 1 .. NThr - 1 |-> NoThr]
    /\ call = [t \in Threads |-> IF t = Main THEN Idle ELSE [op |-> "new"]]
    /\ holds = [t \in Threads |-> {}]
    /\ ready = {} /\ stop = {}
    /\ sent = [i \in Slots |-> <<>>]
    /\ got = [i \in Slots |-> <<>>]
    /\ opens = 0
    /\ kids = [t \in Threads |-> {}]
    /\ joined = {}
    /\ trap = "none"

(***************************************************************************)
(* Helpers.                                                                *)
(***************************************************************************)
Running(t, op) == trap = "none" /\ call[t].op = op
Return(t) == call' = [call EXCEPT ![t] = Idle]
Trap(why) == trap' = why /\ UNCHANGED <<chan, thr, call, holds, ready, stop, sent, got, opens, kids, joined>>

\* The calls after thread t goes on to c and the threads of W are woken.
Woken(t, c, W) ==
    [u \in Threads |->
        IF u = t THEN c
        ELSE IF u \in W THEN [call[u] EXCEPT !.op = IF @ = "send_wait" THEN "send" ELSE "wait"]
        ELSE call[u]]

Sleepers(op, i) == {u \in Threads : call[u].op = op /\ SlotOf(call[u].h) = i}

\* pthread_cond_signal wakes one of the sleepers, if there is one.
Signal(t, c, S) ==
    \/ S = {} /\ call' = Woken(t, c, {})
    \/ \E u \in S : call' = Woken(t, c, {u})
Broadcast(t, c, S) == call' = Woken(t, c, S)

(***************************************************************************)
(* id_chan_new.                                                            *)
(***************************************************************************)
FreeSlots == {i \in Slots : ~chan[i].used}

chan_new(t, cap) ==
    /\ Running(t, "idle")
    /\ opens < MaxOpens
    /\ \/ FreeSlots = {} /\ Trap("chan_new: too many open channels")
       \/ \E i \in FreeSlots :
            /\ \A j \in FreeSlots : i <= j
            /\ chan' = [chan EXCEPT ![i] =
                  [used |-> TRUE, q |-> [k \in 0 .. cap - 1 |-> 0], head |-> 0, count |-> 0,
                   cap |-> cap, sopen |-> TRUE, ropen |-> TRUE, taken |-> FALSE]]
            /\ holds' = [holds EXCEPT ![t] = @ \cup {2 * i}]
            /\ sent' = [sent EXCEPT ![i] = <<>>]
            /\ got' = [got EXCEPT ![i] = <<>>]
            /\ opens' = opens + 1
            /\ UNCHANGED <<thr, call, ready, stop, kids, joined, trap>>

(***************************************************************************)
(* id_chan_of: the handle is looked up before any lock is taken.           *)
(***************************************************************************)
chan_of(t, c) ==
    /\ Running(t, "idle")
    /\ c.h \in holds[t]
    /\ IF ~chan[SlotOf(c.h)].used THEN Trap("chan: not an open channel end")
       ELSE /\ call' = [call EXCEPT ![t] = c]
            /\ UNCHANGED <<chan, thr, holds, ready, stop, sent, got, opens, kids, joined, trap>>

MayBlock(t, h) == Twin(h) \notin holds[t] /\ chan[SlotOf(h)].taken

\* What a program calls: the rules of the header.
EnterSender(t, h) == h % 2 = 0 /\ ~chan[SlotOf(h)].taken /\ chan_of(t, [op |-> "sender", h |-> h])
EnterSend(t, h) ==
    /\ h % 2 = 1 /\ MayBlock(t, h) /\ h \notin stop
    /\ Len(sent[SlotOf(h)]) < MaxSends
    /\ chan_of(t, [op |-> "send", h |-> h, v |-> Len(sent[SlotOf(h)]) + 1])
EnterWait(t, h) == h % 2 = 0 /\ MayBlock(t, h) /\ h \notin ready \cup stop /\ chan_of(t, [op |-> "wait", h |-> h])
EnterTake(t, h) == h \in ready /\ chan_of(t, [op |-> "take", h |-> h])
EnterClose(t, h) == chan_of(t, [op |-> "close", h |-> h])

(***************************************************************************)
(* The critical sections.                                                  *)
(***************************************************************************)
Full(c) == c.count = c.cap

MutCellAtHead(c) == c.head
Cell(c) == (c.head + c.count) % c.cap   \* where the next value goes

MutOkOnClose(c) == TRUE
Ok(c) == c.count > 0                    \* what chan_wait returns

MutNoSignal(i) == {}
NotFull(i) == Sleepers("send_wait", i)  \* whom chan_take signals

\* Whom the close of an end wakes, and whether the slot is then free.
MutNoBroadcast(h) == {}
Closed(h) == Sleepers(IF h % 2 = 1 THEN "wait_wait" ELSE "send_wait", SlotOf(h))

MutEitherEnd(ns, nr) == ~ns \/ ~nr
LastEnd(ns, nr) == ~ns /\ ~nr

chan_sender(t) ==
    /\ Running(t, "sender")
    /\ LET h == call[t].h  i == SlotOf(h) IN
       IF chan[i].taken THEN Trap("this channel already has a sender")
       ELSE /\ chan' = [chan EXCEPT ![i].taken = TRUE]
            /\ holds' = [holds EXCEPT ![t] = @ \cup {h + 1}]
            /\ Return(t)
            /\ UNCHANGED <<thr, ready, stop, sent, got, opens, kids, joined, trap>>

chan_send(t) ==
    /\ Running(t, "send")
    /\ LET h == call[t].h  i == SlotOf(h)  c == chan[i] IN
       /\ \/ /\ c.ropen /\ Full(c)
             /\ call' = [call EXCEPT ![t].op = "send_wait"]
             /\ UNCHANGED <<chan, sent, stop>>
          \/ /\ c.ropen /\ ~Full(c)
             /\ chan' = [chan EXCEPT ![i].q[Cell(c)] = call[t].v,
                                     ![i].count = @ + 1]
             /\ sent' = [sent EXCEPT ![i] = Append(@, call[t].v)]
             /\ Signal(t, Idle, Sleepers("wait_wait", i))
             /\ UNCHANGED stop
          \/ /\ ~c.ropen
             /\ stop' = stop \cup {h}
             /\ Return(t)
             /\ UNCHANGED <<chan, sent>>
       /\ UNCHANGED <<thr, holds, ready, got, opens, kids, joined, trap>>

chan_wait(t) ==
    /\ Running(t, "wait")
    /\ LET h == call[t].h  c == chan[SlotOf(h)] IN
       \/ /\ c.count = 0 /\ c.sopen
          /\ call' = [call EXCEPT ![t].op = "wait_wait"]
          /\ UNCHANGED <<ready, stop>>
       \/ /\ ~(c.count = 0 /\ c.sopen)
          /\ ready' = IF Ok(c) THEN ready \cup {h} ELSE ready
          /\ stop' = IF Ok(c) THEN stop ELSE stop \cup {h}
          /\ Return(t)
    /\ UNCHANGED <<chan, thr, holds, sent, got, opens, kids, joined, trap>>

chan_take(t) ==
    /\ Running(t, "take")
    /\ LET h == call[t].h  i == SlotOf(h)  c == chan[i] IN
       IF c.count = 0 THEN Trap("chan_take on an empty channel")
       ELSE /\ got' = [got EXCEPT ![i] = Append(@, c.q[c.head])]
            /\ chan' = [chan EXCEPT ![i].head = (c.head + 1) % c.cap, ![i].count = @ - 1]
            /\ ready' = ready \ {h}
            /\ Signal(t, Idle, NotFull(i))
            /\ UNCHANGED <<thr, holds, stop, sent, opens, kids, joined, trap>>

chan_close(t) ==
    /\ Running(t, "close")
    /\ LET h == call[t].h  i == SlotOf(h)
           ns == chan[i].sopen /\ h % 2 = 0
           nr == chan[i].ropen /\ h % 2 = 1 IN
       /\ chan' = [chan EXCEPT ![i].sopen = ns, ![i].ropen = nr]
       /\ Broadcast(t, IF LastEnd(ns, nr) THEN [op |-> "free", h |-> h] ELSE Idle, Closed(h))
       /\ holds' = [holds EXCEPT ![t] = @ \ {h}]
       /\ ready' = ready \ {h} /\ stop' = stop \ {h}
    /\ UNCHANGED <<thr, sent, got, opens, kids, joined, trap>>

\* The second close gives the ring and the slot back, under the table's lock.
chan_free(t) ==
    /\ Running(t, "free")
    /\ chan' = [chan EXCEPT ![SlotOf(call[t].h)].q = <<>>, ![SlotOf(call[t].h)].used = FALSE]
    /\ Return(t)
    /\ UNCHANGED <<thr, holds, ready, stop, sent, got, opens, kids, joined, trap>>

\* A condition variable may wake a sleeper for no reason.
SpuriousWake(t) ==
    /\ trap = "none" /\ call[t].op \in {"send_wait", "wait_wait"}
    /\ call' = [call EXCEPT ![t].op = IF @ = "send_wait" THEN "send" ELSE "wait"]
    /\ UNCHANGED <<chan, thr, holds, ready, stop, sent, got, opens, kids, joined, trap>>

(***************************************************************************)
(* id_thr_spawn, id_thr_main, id_thr_join.  A thread's result is its name. *)
(***************************************************************************)
MutAnyEntry == DOMAIN thr
FreeThr == {j \in DOMAIN thr : ~thr[j].used}

thr_spawn(t, u, h) ==
    /\ Running(t, "idle")
    /\ call[u].op = "new"
    /\ h \in holds[t] \ (ready \cup stop)
    /\ \/ FreeThr = {} /\ Trap("thr_spawn: too many running threads")
       \/ FreeThr # {} /\ Trap("thr_spawn: cannot start a thread")
       \/ \E j \in FreeThr :
            /\ \A k \in FreeThr : j <= k
            /\ thr' = [thr EXCEPT ![j].used = TRUE, ![j].who = u]
            /\ kids' = [kids EXCEPT ![t] = @ \cup {<<u, j>>}]
            /\ call' = [call EXCEPT ![u] = Idle]
            /\ holds' = [holds EXCEPT ![t] = @ \ {h}, ![u] = {h}]
            /\ UNCHANGED <<chan, ready, stop, sent, got, opens, joined, trap>>

\* The thread's function returns; its pool is dropped (id_thread_leave).
thr_main(u) ==
    /\ Running(u, "idle")
    /\ holds[u] = {} /\ kids[u] = {}
    /\ call' = [call EXCEPT ![u] = [op |-> "done"]]
    /\ thr' = [j \in DOMAIN thr |-> IF thr[j].used /\ thr[j].who = u THEN [thr[j] EXCEPT !.res = u] ELSE thr[j]]
    /\ UNCHANGED <<chan, holds, ready, stop, sent, got, opens, kids, joined, trap>>

\* The result is read when the thread has ended; the entry is given back,
\* without the table's lock, in a step of its own.
thr_join(t) ==
    \/ \E k \in kids[t] :
          /\ Running(t, "idle")
          /\ holds[t] = {}
          /\ IF ~thr[k[2]].used THEN Trap("thr_join: not a running thread")
             ELSE /\ call[thr[k[2]].who].op = "done"
                  /\ call' = [call EXCEPT ![t] = [op |-> "joined", k |-> k, r |-> thr[k[2]].res]]
                  /\ UNCHANGED <<chan, thr, holds, ready, stop, sent, got, opens, kids, joined, trap>>
    \/ /\ Running(t, "joined")
       /\ thr' = [thr EXCEPT ![call[t].k[2]].used = FALSE]
       /\ kids' = [kids EXCEPT ![t] = @ \ {call[t].k}]
       /\ joined' = joined \cup {<<call[t].k[1], call[t].r>>}
       /\ Return(t)
       /\ UNCHANGED <<chan, holds, ready, stop, sent, got, opens, trap>>

Program(t) ==
    \/ \E cap \in Caps : chan_new(t, cap)
    \/ \E h \in holds[t] :
          \/ EnterSender(t, h) \/ EnterSend(t, h) \/ EnterWait(t, h) \/ EnterTake(t, h) \/ EnterClose(t, h)
          \/ \E u \in Threads : thr_spawn(t, u, h)
    \/ thr_main(t) \/ thr_join(t)

Section(t) ==
    \/ chan_sender(t) \/ chan_send(t) \/ chan_wait(t) \/ chan_take(t)
    \/ chan_close(t) \/ chan_free(t)

Next == \E t \in Threads : Program(t) \/ Section(t) \/ SpuriousWake(t)

Spec == Init /\ [][Next]_vars

\* Every thread is scheduled; nothing wakes a sleeper but the calls.
FairSpec == Spec /\ \A t \in Threads : WF_vars(Program(t) \/ Section(t))

-------------------------------------------------------------------------------
(***************************************************************************)
(* Properties.                                                             *)
(***************************************************************************)
Calls == {"idle", "new", "sender", "send", "send_wait", "wait", "wait_wait", "take", "close", "free", "joined", "done"}

TypeOK ==
    /\ \A i \in Slots :
          /\ chan[i].used \in BOOLEAN /\ chan[i].taken \in BOOLEAN
          /\ chan[i].sopen \in BOOLEAN /\ chan[i].ropen \in BOOLEAN
          /\ chan[i].cap \in Caps \cup {0}
          /\ chan[i].head \in 0 .. chan[i].cap /\ chan[i].count \in 0 .. chan[i].cap
    /\ \A t \in Threads : call[t].op \in Calls /\ holds[t] \subseteq Handles
    /\ DOMAIN thr = 1 .. NThr - 1

\* A program that keeps the rules never meets a trap of the channels or of
\* thr_join: only a full table or a thread that cannot start ends it.
RuleKeepersDoNotTrap ==
    trap \in {"none", "chan_new: too many open channels",
              "thr_spawn: too many running threads", "thr_spawn: cannot start a thread"}

\* Between the unlocked lookup of a handle and its critical section the slot
\* is neither released nor given to another channel: whoever is inside a call
\* on an end still finds that end open (id_chan_of reads used with no lock).
InsideCalls == {"sender", "send", "send_wait", "wait", "wait_wait", "take", "close"}
EndOpen(h) == LET c == chan[SlotOf(h)] IN c.used /\ IF h % 2 = 0 THEN c.ropen ELSE c.taken /\ c.sopen
LookupStaysValid ==
    \A t \in Threads :
        /\ call[t].op \in InsideCalls => call[t].h \in holds[t] /\ EndOpen(call[t].h)
        /\ \A u \in Threads \ {t} : holds[t] \cap holds[u] = {}

\* No wake-up is lost: a thread sleeps only while what it waits for is not so.
NoLostWakeup ==
    \A t \in Threads :
        /\ call[t].op = "send_wait" => LET c == chan[SlotOf(call[t].h)] IN c.ropen /\ c.count = c.cap
        /\ call[t].op = "wait_wait" => LET c == chan[SlotOf(call[t].h)] IN c.sopen /\ c.count = 0

\* thr_join returns the result of the thread its handle was made for, even
\* though entries of the table are used again.
JoinGivesOwnResult == \A p \in joined : p[1] = p[2]

\* A channel implements the bounded queue.
Queue == INSTANCE ChanQueue WITH
    Vals <- 1 .. MaxSends,
    room <- [i \in Slots |-> IF chan[i].used THEN chan[i].cap ELSE 0],
    sopen <- [i \in Slots |-> chan[i].sopen],
    ropen <- [i \in Slots |-> chan[i].ropen]
QueueSpec == Queue!QSpec

\* Every thread that starts ends, unless a trap ends the process: no two of
\* them wait for each other, and none sleeps through a close.
ThreadsEnd == \A t \in Threads : call[t].op # "new" ~> call[t].op = "done" \/ trap # "none"
===============================================================================

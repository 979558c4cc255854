------------------------------ MODULE ChanQueue ------------------------------
(***************************************************************************)
(* What a channel of the runtime promises: between the opening of a slot   *)
(* and its release it is a bounded FIFO queue from one sender to one       *)
(* receiver.  sent and got are the values the sender has handed over and   *)
(* the receiver has taken; a value is taken in the order of sending, and   *)
(* at most room[i] of them are under way.                                  *)
(***************************************************************************)
EXTENDS Integers, Sequences

CONSTANTS Slots, Caps, Vals

VARIABLES room, sent, got, sopen, ropen

qvars == <<room, sent, got, sopen, ropen>>

QInit ==
    /\ room = [i \in Slots |-> 0]
    /\ sent = [i \in Slots |-> <<>>]
    /\ got = [i \in Slots |-> <<>>]
    /\ sopen = [i \in Slots |-> FALSE]
    /\ ropen = [i \in Slots |-> FALSE]

QOpen(i, cap) ==
    /\ room[i] = 0
    /\ room' = [room EXCEPT ![i] = cap]
    /\ sent' = [sent EXCEPT ![i] = <<>>]
    /\ got' = [got EXCEPT ![i] = <<>>]
    /\ sopen' = [sopen EXCEPT ![i] = TRUE]
    /\ ropen' = [ropen EXCEPT ![i] = TRUE]

QSend(i, v) ==
    /\ sopen[i] /\ ropen[i]
    /\ Len(sent[i]) - Len(got[i]) < room[i]
    /\ sent' = [sent EXCEPT ![i] = Append(@, v)]
    /\ UNCHANGED <<room, got, sopen, ropen>>

QTake(i) ==
    /\ ropen[i]
    /\ Len(got[i]) < Len(sent[i])
    /\ got' = [got EXCEPT ![i] = Append(@, sent[i][Len(@) + 1])]
    /\ UNCHANGED <<room, sent, sopen, ropen>>

QCloseSender(i) ==
    /\ sopen[i]
    /\ sopen' = [sopen EXCEPT ![i] = FALSE]
    /\ UNCHANGED <<room, sent, got, ropen>>

QCloseReceiver(i) ==
    /\ ropen[i]
    /\ ropen' = [ropen EXCEPT ![i] = FALSE]
    /\ UNCHANGED <<room, sent, got, sopen>>

QRelease(i) ==
    /\ room[i] > 0 /\ ~sopen[i] /\ ~ropen[i]
    /\ room' = [room EXCEPT ![i] = 0]
    /\ UNCHANGED <<sent, got, sopen, ropen>>

QNext ==
    \E i \in Slots :
        \/ \E cap \in Caps : QOpen(i, cap)
        \/ \E v \in Vals : QSend(i, v)
        \/ QTake(i) \/ QCloseSender(i) \/ QCloseReceiver(i) \/ QRelease(i)

QSpec == QInit /\ [][QNext]_qvars
===============================================================================

------------------------------ MODULE Summaries ------------------------------
(***************************************************************************)
(* How the summaries of the escape analysis are computed: on demand, depth *)
(* first, a cycle of calls repeated until nothing in it grows (esc_mask_at *)
(* to esc_drain).  The recursion of the code is a stack of frames here; a  *)
(* frame asks for the functions its function calls, in their order, then   *)
(* forms the summary.                                                      *)
(***************************************************************************)
EXTENDS Ownership

CONSTANTS Programs
VARIABLES prog,       \* the program
          pe,         \* esc_pe: the summary of each function, as far as it is known
          st,         \* esc_st: "new", "open", "waits" or "final"
          dp,         \* esc_dp: how deep a function runs, or the lowest it waits on
          mem,        \* esc_mem: the functions that wait
          fx,         \* esc_fx: the depth, the lowest depth read, how often a summary grew
          stack

sumvars == <<prog, pe, st, dp, mem, fx, stack>>

Far == 1000000
MinOf(a, b) == IF a < b THEN a ELSE b
Known == [p |-> prog, pe |-> pe]

RECURSIVE ExprCalls(_), BlockCalls(_)
\* The functions an expression and a block call, as they are read
ExprCalls(e) == (IF e[1] = "call" /\ e[3] \in DOMAIN prog THEN <<e[3]>> ELSE <<>>)
                \o FlattenSeq([i \in DOMAIN Parts(e) |-> ExprCalls(Parts(e)[i])])
BlockCalls(b) == FlattenSeq([i \in DOMAIN b |->
                     FlattenSeq([j \in DOMAIN ExprsOf(b[i]) |-> ExprCalls(ExprsOf(b[i])[j])])
                     \o FlattenSeq([j \in DOMAIN BlocksOf(b[i]) |-> BlockCalls(BlocksOf(b[i])[j])])])

SumInit ==
    /\ prog \in Programs
    /\ pe = [f \in DOMAIN prog |-> Nothing]
    /\ st = [f \in DOMAIN prog |-> "new"]
    /\ dp = [f \in DOMAIN prog |-> 0]
    /\ mem = <<>> /\ fx = [d |-> 0, low |-> Far, grown |-> 0] /\ stack = <<>>

Top == stack[Len(stack)]
SetTop(fr) == [stack EXCEPT ![Len(stack)] = fr]

\* esc_compute, esc_final, esc_scc, esc_open, and the first lines of esc_pass
Compute(f, below) ==
    IF prog[f].native
    THEN /\ pe' = [pe EXCEPT ![f] = Summary(Known, prog[f])]
         /\ st' = [st EXCEPT ![f] = "final"]
         /\ stack' = below
         /\ UNCHANGED <<dp, mem, fx>>
    ELSE /\ st' = [st EXCEPT ![f] = "open"]
         /\ dp' = [dp EXCEPT ![f] = fx.d]
         /\ fx' = [fx EXCEPT !.d = @ + 1, !.low = Far]
         /\ stack' = Append(below, [f |-> f, depth |-> fx.d, low |-> fx.low, waiting |-> Len(mem),
                                    grown |-> fx.grown, todo |-> BlockCalls(prog[f].body)])
         /\ UNCHANGED <<pe, mem>>

\* esc_mask asked from outside
Ask(f) == stack = <<>> /\ st[f] = "new" /\ Compute(f, stack) /\ UNCHANGED prog

\* esc_mask_at, esc_low: the function on top reads the summary of one it calls
Query ==
    /\ stack # <<>> /\ Top.todo # <<>>
    /\ LET g == Head(Top.todo)
           rest == SetTop([Top EXCEPT !.todo = Tail(@)])
       IN IF st[g] = "new" THEN Compute(g, rest)
          ELSE /\ fx' = IF st[g] = "final" THEN fx ELSE [fx EXCEPT !.low = MinOf(@, dp[g])]
               /\ stack' = rest
               /\ UNCHANGED <<pe, st, dp, mem>>
    /\ UNCHANGED prog

\* esc_drain
Drained(from, s) == [g \in DOMAIN st |-> IF \E i \in from + 1 .. Len(mem) : mem[i] = g THEN s ELSE st[g]]

\* esc_join
Grew(new) == new # pe[Top.f]
\* esc_again: it heads its cycle, and something grew
MutAgain(new) == FALSE       \* Mutant: one pass is enough
Again(new) ==
    /\ fx.low >= Top.depth /\ fx.grown + (IF Grew(new) THEN 1 ELSE 0) # Top.grown
    /\ fx.low = Top.depth \/ Len(mem) > Top.waiting

\* esc_pass, esc_summary, esc_join, esc_again; esc_close, esc_defer, esc_seal
Closes(f, new, grown) ==
    /\ pe' = [pe EXCEPT ![f] = new]
    /\ \/ /\ Again(new)
          /\ st' = Drained(Top.waiting, "new")
          /\ mem' = SubSeq(mem, 1, Top.waiting)
          /\ fx' = [fx EXCEPT !.low = Far, !.grown = grown]
          /\ stack' = SetTop([Top EXCEPT !.todo = BlockCalls(prog[f].body), !.grown = grown])
          /\ UNCHANGED dp
       \/ /\ ~Again(new) /\ fx.low < Top.depth
          /\ st' = [st EXCEPT ![f] = "waits"]
          /\ dp' = [dp EXCEPT ![f] = fx.low]
          /\ mem' = Append(mem, f)
          /\ fx' = [d |-> Top.depth, low |-> MinOf(fx.low, Top.low), grown |-> grown]
          /\ stack' = Front(stack)
       \/ /\ ~Again(new) /\ fx.low >= Top.depth
          /\ st' = [Drained(Top.waiting, "final") EXCEPT ![f] = "final"]
          /\ mem' = SubSeq(mem, 1, Top.waiting)
          /\ fx' = [d |-> Top.depth, low |-> Top.low, grown |-> grown]
          /\ stack' = Front(stack)
          /\ UNCHANGED dp
EndPass ==
    /\ stack # <<>> /\ Top.todo = <<>>
    /\ \E new \in {Joined(pe[Top.f], Summary(Known, prog[Top.f]))} :
          Closes(Top.f, new, fx.grown + (IF Grew(new) THEN 1 ELSE 0))
    /\ UNCHANGED prog

Summarised == stack = <<>> /\ \A f \in DOMAIN prog : st[f] = "final"

-----------------------------------------------------------------------------
RECURSIVE LeastFrom(_)
Upward(k) == [f \in DOMAIN prog |-> Joined(k[f], Summary([p |-> prog, pe |-> k], prog[f]))]
Climb(k, next) == IF next = k THEN k ELSE LeastFrom(next)
LeastFrom(k) == Climb(k, Upward(k))
\* Whatever function is asked for first, and whatever cycles its calls close, a
\* summary that is final is the least one the bodies allow: no cycle is left
\* before its last growth (an owned local would be freed under a reader), and
\* none says more than it must.
\* When the question from outside is answered, the function asked for and all it
\* reached are final, and the depth is back.
FinalIsLeast ==
    /\ \E least \in {LeastFrom([f \in DOMAIN prog |-> Nothing])} :
          \A f \in DOMAIN prog : st[f] = "final" => pe[f] = least[f]
    /\ stack = <<>> => mem = <<>> /\ fx.d = 0 /\ \A f \in DOMAIN prog : st[f] \in {"new", "final"}
=============================================================================

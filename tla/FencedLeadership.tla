-------------------------- MODULE FencedLeadership --------------------------
(***************************************************************************)
(* What leadership fencing promises to the rest of the server, without the *)
(* leases, clocks and row locks that implement it.                         *)
(*                                                                         *)
(* Leadership is a sequence of terms.  The fencing token of a term is its  *)
(* position in the sequence.  A process may believe in the last term it    *)
(* was granted long after others were granted newer ones; a fenced write   *)
(* belongs to the newest term.                                             *)
(***************************************************************************)
EXTENDS Naturals, Sequences

CONSTANT Process

VARIABLES
  terms,      \* terms[t] is the process that was granted fencing token t
  open,       \* the fence lets the newest term through
  view,       \* view[p]: the term process p believes it leads, 0 for none
  lastWrite   \* the term of the last committed fenced write, 0 for none

vars == <<terms, open, view, lastWrite>>

Init ==
  /\ terms = <<>>
  /\ open = FALSE
  /\ view = [p \in Process |-> 0]
  /\ lastWrite = 0

\* No term, or the last one granted to p.
LastTermOrNone(p, t) ==
  t # 0 => terms[t] = p /\ \A u \in t + 1 .. Len(terms) : terms[u] # p

\* A process without a belief is granted a term; every older term is over.
Grant(p) ==
  /\ view[p] = 0
  /\ terms' = Append(terms, p)
  /\ open' = TRUE
  /\ UNCHANGED <<view, lastWrite>>

\* Leases run out, or the member lease of the newest term is renewed late.
Reopen ==
  /\ terms # <<>>
  /\ open' \in BOOLEAN
  /\ UNCHANGED <<terms, view, lastWrite>>

\* A process learns of the last term it was granted, or drops its belief.
Believe(p) ==
  /\ \E t \in 0 .. Len(terms) :
       /\ LastTermOrNone(p, t)
       /\ view' = [view EXCEPT ![p] = t]
  /\ UNCHANGED <<terms, open, lastWrite>>

\* A fenced write commits in the newest term, whose lease may be over by then.
Write ==
  /\ terms # <<>>
  /\ lastWrite' = Len(terms)
  /\ UNCHANGED <<terms, open, view>>

\* The fence admits process p with token t (assert_*_transaction_fence).
Fence(p, t) == open /\ t = Len(terms) /\ t # 0 /\ terms[t] = p

Next ==
  \/ \E p \in Process : Grant(p) \/ Believe(p)
  \/ Reopen
  \/ Write

Spec == Init /\ [][Next]_vars
=============================================================================

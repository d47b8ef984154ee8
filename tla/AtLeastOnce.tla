----------------------------- MODULE AtLeastOnce -----------------------------
(***************************************************************************)
(* What is left of the promise of TotalOrder when an instance may fail     *)
(* while it copies: the order is kept and no entry is left out, but a copy *)
(* may repeat what it already has.                                         *)
(***************************************************************************)
EXTENDS TotalOrder

(* A copy that has all entries up to some place has this many of them.     *)
Reached(c) == Cardinality({copy[c][i] : i \in DOMAIN copy[c]})

(* A cluster gets the first entry it does not have.                        *)
Advance(c) ==
  /\ Reached(c) < Len(log)
  /\ copy' = [copy EXCEPT ![c] = Append(@, log[Reached(c) + 1])]
  /\ UNCHANGED log

(* A cluster gets an entry it has.                                         *)
Repeat(c) ==
  /\ \E k \in 1..Reached(c) : copy' = [copy EXCEPT ![c] = Append(@, log[k])]
  /\ UNCHANGED log

StepWithRepeats ==
  \/ \E s \in Stream : Agree(s)
  \/ \E c \in Cluster : Advance(c) \/ Repeat(c)

WeakPromise == Start /\ [][StepWithRepeats]_agreement

(* Repetitions do not keep a cluster from getting the rest.                *)
FairWeakPromise ==
  /\ WeakPromise
  /\ \A s \in Stream : WF_agreement(Agree(s))
  /\ \A c \in Cluster : WF_agreement(Advance(c))
=============================================================================

------------------------------- MODULE Ticket -------------------------------
(***************************************************************************)
(* What an invitation promises: it is sent once, admits one person while   *)
(* it is out, and admits nobody after it was used or closed.  The promise  *)
(* is kept for the tickets still trusted; of the others nothing is said.   *)
(***************************************************************************)
EXTENDS Naturals

CONSTANTS Id
VARIABLES
  state,    \* of each ticket: "unsent", "out", "used" or "closed"
  uses,     \* how many people each has admitted
  trusted   \* the tickets the promise is about; none returns

Init ==
  /\ state = [i \in Id |-> "unsent"]
  /\ uses = [i \in Id |-> 0]
  /\ trusted = Id

Send(i) == state[i] = "unsent" /\ state'[i] = "out" /\ uses'[i] = uses[i]

Use(i) == state[i] = "out" /\ state'[i] = "used" /\ uses'[i] = uses[i] + 1

\* A used ticket may be closed too, to no effect.
Close(i) == state[i] \in {"out", "used"} /\ state'[i] = "closed" /\ uses'[i] = uses[i]

Keep(i) == state'[i] = state[i] /\ uses'[i] = uses[i]

Next ==
  /\ trusted' \subseteq trusted
  /\ \A i \in trusted' : Send(i) \/ Use(i) \/ Close(i) \/ Keep(i)

Spec == Init /\ [][Next]_<<state, uses, trusted>>
=============================================================================

---------------------------- MODULE RequestQueue ----------------------------
(***************************************************************************)
(* What a virtqueue promises its users, with no rings, descriptors or      *)
(* counters: requests are taken in the order they were submitted, each is  *)
(* completed exactly once under the identifier it was submitted with, and  *)
(* completions are collected in order.  An identifier is reused only after *)
(* its completion has been collected.                                      *)
(***************************************************************************)
EXTENDS Sequences

CONSTANTS Ids,        \* identifiers: the head indices
          Payloads    \* what a request may carry

VARIABLES pending,    \* submitted, not yet taken: records [id, payload]
          serving,    \* the request in the device's hands: a sequence of
                      \* length at most one
          done        \* completed, not yet collected

queues == <<pending, serving, done>>

Names(q) == {q[i].id : i \in DOMAIN q}
InFlight == Names(pending) \cup Names(serving) \cup Names(done)

Init == pending = << >> /\ serving = << >> /\ done = << >>

Submit ==
    /\ \E id \in Ids \ InFlight, p \in Payloads :
          pending' = Append(pending, [id |-> id, payload |-> p])
    /\ UNCHANGED <<serving, done>>

Take ==
    /\ serving = << >>
    /\ pending # << >>
    /\ serving' = <<Head(pending)>>
    /\ pending' = Tail(pending)
    /\ UNCHANGED done

Complete ==
    /\ serving # << >>
    /\ done' = done \o serving
    /\ serving' = << >>
    /\ UNCHANGED pending

Collect ==
    /\ done # << >>
    /\ done' = Tail(done)
    /\ UNCHANGED <<pending, serving>>

Next == Submit \/ Take \/ Complete \/ Collect

Spec == Init /\ [][Next]_queues
=============================================================================

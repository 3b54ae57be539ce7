------------------------------- MODULE PubSub -------------------------------
(***************************************************************************)
(* What the broker promises: publications are delivered one after the      *)
(* other, each exactly once to every subscription that its name reaches,   *)
(* and the subscriptions do not change in the middle of a publication.  A  *)
(* publication may reach more subscriptions than it should.                *)
(***************************************************************************)
CONSTANTS Names,    \* names of topics
          Subs,     \* subscribers
          Reaches,  \* <<f, n>>: the subscriptions to f expect what is published as n
          Nobody    \* no publication is being delivered

VARIABLES subscribed,  \* the subscriptions, <<name, subscriber>>
          delivering   \* the publication in course, and whom it has still to reach

vars == <<subscribed, delivering>>

Init == subscribed = {} /\ delivering = Nobody

Subscribe(n, s) ==
  /\ delivering = Nobody
  /\ subscribed' = subscribed \cup {<<n, s>>}
  /\ UNCHANGED delivering

Unsubscribe(n, s) ==
  /\ delivering = Nobody
  /\ subscribed' = subscribed \ {<<n, s>>}
  /\ UNCHANGED delivering

Publish(n) ==
  /\ delivering = Nobody
  /\ \E todo \in SUBSET subscribed :
       /\ {x \in subscribed : <<x[1], n>> \in Reaches} \subseteq todo
       /\ delivering' = [name |-> n, todo |-> todo]
  /\ UNCHANGED subscribed

Deliver(x) ==
  /\ delivering # Nobody
  /\ x \in delivering.todo
  /\ delivering' = [delivering EXCEPT !.todo = @ \ {x}]
  /\ UNCHANGED subscribed

\* Only when everybody has been reached.
End ==
  /\ delivering # Nobody
  /\ delivering.todo = {}
  /\ delivering' = Nobody
  /\ UNCHANGED subscribed

Next == \/ \E n \in Names, s \in Subs : Subscribe(n, s) \/ Unsubscribe(n, s) \/ Deliver(<<n, s>>)
        \/ \E n \in Names : Publish(n)
        \/ End

Spec == Init /\ [][Next]_vars
=============================================================================

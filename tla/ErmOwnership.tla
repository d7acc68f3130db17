---------------------------- MODULE ErmOwnership ----------------------------
(***************************************************************************)
(* What the Essos resource manager promises its clients about each single  *)
(* resource, whatever decides who gets it: a resource is granted when it   *)
(* is free, it leaves its owner only by the owner's own release, and then  *)
(* it is free or handed to one other client.  The one exception is an      *)
(* owner that can no longer be reached, whose resources are taken away.    *)
(***************************************************************************)
EXTENDS Integers

CONSTANTS Conns, Items, Nobody

VARIABLES
  owner,    \* owner[r]: the connection that owns r, or Nobody
  told,     \* told[r]: the connections that believe they own r
  scarred,  \* the resources that were taken from an owner
  gone      \* the connections whose client has closed its end

vars == <<owner, told, scarred, gone>>

Init ==
  /\ owner = [r \in Items |-> Nobody]
  /\ told = [r \in Items |-> {}]
  /\ scarred = {}
  /\ gone = {}

Leave(c) ==
  /\ gone' = gone \cup {c}
  /\ UNCHANGED <<owner, told, scarred>>

\* The new owner is told of it, or not yet.
Tell(r, believers, c) ==
  \E news \in {{}, {c}} : told' = [told EXCEPT ![r] = believers \cup news]

Grant(r, c) ==
  /\ owner[r] = Nobody
  /\ owner' = [owner EXCEPT ![r] = c]
  /\ Tell(r, told[r], c)
  /\ UNCHANGED <<scarred, gone>>

Release(r, c) ==
  /\ owner[r] = c
  /\ owner' = [owner EXCEPT ![r] = Nobody]
  /\ told' = [told EXCEPT ![r] = @ \ {c}]
  /\ UNCHANGED <<scarred, gone>>

HandOver(r, c, d) ==
  /\ owner[r] = c
  /\ owner' = [owner EXCEPT ![r] = d]
  /\ Tell(r, told[r] \ {c}, d)
  /\ UNCHANGED <<scarred, gone>>

\* A client that is not the owner, or is no longer, gives up its belief.
Disown(r, c) ==
  /\ owner[r] # c
  /\ told' = [told EXCEPT ![r] = @ \ {c}]
  /\ UNCHANGED <<owner, scarred, gone>>

\* An unreachable owner loses r to d, or to nobody.  From then on nothing is
\* promised about r.
Seize(r, d) ==
  /\ owner[r] \in gone \/ r \in scarred
  /\ owner' = [owner EXCEPT ![r] = d]
  /\ scarred' = scarred \cup {r}
  /\ \/ UNCHANGED told
     \/ d # Nobody /\ Tell(r, told[r], d)
  /\ UNCHANGED gone

Next ==
  \/ \E c \in Conns : Leave(c)
  \/ \E r \in Items :
       \/ \E c \in Conns : Grant(r, c) \/ Release(r, c) \/ Disown(r, c)
       \/ \E c, d \in Conns : HandOver(r, c, d)
       \/ \E d \in Conns \cup {Nobody} : Seize(r, d)

Spec == Init /\ [][Next]_vars

=============================================================================

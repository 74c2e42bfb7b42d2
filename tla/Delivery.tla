------------------------------ MODULE Delivery ------------------------------
(***************************************************************************)
(* What the mid-hop relay promises to a receiver: it takes one published   *)
(* manifest, puts that manifest's files in place one by one, each with     *)
(* exactly the content the manifest names, and confirms only when it has   *)
(* put all of them.  At any point it may give up instead.  Which files of  *)
(* a manifest are in place then is not promised.                           *)
(***************************************************************************)
EXTENDS Naturals, Sequences

CONSTANTS Receiver,        \* the receiving processes
          DestOf,          \* the destination each of them writes to
          NoManifest

VARIABLES published,       \* the manifests senders have published
          chosen,          \* the manifest a receiver works on
          put,             \* how many of its files the receiver has put in place
          confirmed,       \* the manifests some receiver has confirmed
          dest             \* the destinations' files

Init == /\ published = {} /\ confirmed = {}
        /\ chosen = [r \in Receiver |-> NoManifest]
        /\ put = [r \in Receiver |-> 0]

Publish == /\ \E m \in published' : published' = published \cup {m}
           /\ UNCHANGED <<chosen, put, confirmed, dest>>

Choose(r) == /\ chosen[r] = NoManifest
             /\ \E m \in published : chosen' = [chosen EXCEPT ![r] = m]
             /\ UNCHANGED <<published, put, confirmed, dest>>

Put(r) == LET file == chosen[r][put[r] + 1] IN
          /\ chosen[r] # NoManifest /\ put[r] < Len(chosen[r])
          /\ dest' = [dest EXCEPT ![DestOf[r]][file.path] = file.chunks]
          /\ put' = [put EXCEPT ![r] = put[r] + 1]
          /\ UNCHANGED <<published, chosen, confirmed>>

Release(r) == /\ chosen' = [chosen EXCEPT ![r] = NoManifest]
              /\ put' = [put EXCEPT ![r] = 0]

Confirm(r) == /\ chosen[r] # NoManifest /\ put[r] = Len(chosen[r])
              /\ confirmed' = confirmed \cup {chosen[r]}
              /\ Release(r)
              /\ UNCHANGED <<published, dest>>

GiveUp(r) == Release(r) /\ UNCHANGED <<published, confirmed, dest>>

Next == Publish \/ \E r \in Receiver : Choose(r) \/ Put(r) \/ Confirm(r) \/ GiveUp(r)

vars == <<published, chosen, put, confirmed, dest>>
Spec == Init /\ [][Next]_vars
=============================================================================

-------------------------------- MODULE Kmail --------------------------------
(***************************************************************************)
(* What kship and bdhtnet promise to the threads that send requests: an    *)
(* answer goes, once for every time the network delivers it and in that    *)
(* order, to the session it was asked in, or to nobody when that session   *)
(* is over.                                                                *)
(***************************************************************************)
EXTENDS Integers, Sequences

CONSTANT Owners

VARIABLES
  session, \* the open session of an owner, 0 for none
  opened,  \* how many were opened
  asked,   \* requests on the way
  box      \* what an owner has to read

vars == <<session, opened, asked, box>>

Init ==
  /\ session = [o \in Owners |-> 0] /\ opened = 0
  /\ asked = {} /\ box = [o \in Owners |-> <<>>]

Open(o) ==
  /\ session[o] = 0
  /\ opened' = opened + 1
  /\ session' = [session EXCEPT ![o] = opened']
  /\ UNCHANGED <<asked, box>>

Ask(o) ==
  /\ session[o] # 0
  /\ asked' = asked \cup {[owner |-> o, session |-> session[o]]}
  /\ UNCHANGED <<session, opened, box>>

Answer(r) ==
  /\ box' = (IF session[r.owner] = r.session
             THEN [box EXCEPT ![r.owner] = Append(@, r)] ELSE box)
  /\ UNCHANGED <<session, opened, asked>>

Read(o) ==
  /\ box[o] # <<>>
  /\ box' = [box EXCEPT ![o] = Tail(@)]
  /\ UNCHANGED <<session, opened, asked>>

Close(o) ==
  /\ session[o] # 0
  /\ session' = [session EXCEPT ![o] = 0]
  /\ box' = [box EXCEPT ![o] = <<>>]
  /\ UNCHANGED <<opened, asked>>

Next ==
  \/ \E o \in Owners : Open(o) \/ Ask(o) \/ Read(o) \/ Close(o)
  \/ \E r \in asked : Answer(r)

Spec == Init /\ [][Next]_vars
=============================================================================

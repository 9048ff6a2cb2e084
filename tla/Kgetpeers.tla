------------------------------ MODULE Kgetpeers ------------------------------
(***************************************************************************)
(* The lookup of peers (kgetpeers.cc): the loop of Kfind, whose responses  *)
(* may carry values as well, under serviced (btdht/services.cc), which     *)
(* hands the peers on to its client after every turn of the lookup.        *)
(***************************************************************************)
EXTENDS Kfind, SequencesExt

CONSTANTS
  Peers,
  BadString, \* a string of "values" whose length is no multiple of 6
  Values     \* the strings of "values" in each packet

KgetpeersAssumption ==
  /\ BadString \notin Seq(Peers)
  /\ Values \in [Packets -> Seq(Seq(Peers) \cup {BadString})]

VARIABLES
  strings,    \* what is still to be read of the response's values
  peerfilter, \* b_peerfilter
  peers,      \* b_peers
  sumumery,   \* b_sumumery
  sent,       \* what the client has got, in order
  offered     \* history: the peers in the responses read

found == <<strings, peerfilter, peers, sumumery, sent, offered>>
gvars == <<vars, found>>

GInit ==
  /\ Init
  /\ strings = <<>> /\ peerfilter = {} /\ peers = <<>> /\ sumumery = 0
  /\ sent = <<>> /\ offered = {}

GetNew == (NewItem \/ NewDone) /\ UNCHANGED found

GetSend == ((\E c \in qfind : Send(c)) \/ SendDone) /\ UNCHANGED found

GetReceive ==
  /\ Receive
  /\ strings' = Values[Head(ship)]
  /\ sumumery' = sumumery + 1
  /\ UNCHANGED <<peerfilter, peers, sent, offered>>

GetReceiveBad ==
  /\ ReceiveBad
  /\ sumumery' = sumumery + 1
  /\ UNCHANGED <<strings, peerfilter, peers, sent, offered>>

GetExpand == Expand /\ UNCHANGED found

MoreValues == strings # <<>> /\ Head(strings) # BadString

(* Mutant: a peer is looked up in the filter and not put there. *)
GetPeerUnmarked ==
  /\ pc = "expand" /\ todo = <<>> /\ MoreValues /\ Head(strings) # <<>>
  /\ LET p == Head(Head(strings)) IN
     /\ peers' = (IF p \in peerfilter THEN peers ELSE Append(peers, p))
     /\ offered' = offered \cup {p}
  /\ strings' = <<Tail(Head(strings))>> \o Tail(strings)
  /\ UNCHANGED <<vars, peerfilter, sumumery, sent>>

(* The next peer of a string: the filter lets it in only once. *)
GetPeer ==
  /\ pc = "expand" /\ todo = <<>> /\ MoreValues /\ Head(strings) # <<>>
  /\ LET p == Head(Head(strings)) IN
     /\ peers' = (IF p \in peerfilter THEN peers ELSE Append(peers, p))
     /\ peerfilter' = peerfilter \cup {p}
     /\ offered' = offered \cup {p}
  /\ strings' = <<Tail(Head(strings))>> \o Tail(strings)
  /\ UNCHANGED <<vars, sumumery, sent>>

GetNextString ==
  /\ pc = "expand" /\ todo = <<>> /\ MoreValues /\ Head(strings) = <<>>
  /\ strings' = Tail(strings)
  /\ UNCHANGED <<vars, peerfilter, peers, sumumery, sent, offered>>

(* The first string that is not made of peers ends the list. *)
GetExpandDone ==
  /\ ExpandDone
  /\ ~MoreValues
  /\ strings' = <<>>
  /\ UNCHANGED <<peerfilter, peers, sumumery, sent, offered>>

GetReceiveDone == ReceiveDone /\ UNCHANGED found

(* Mutant: nothing is sent after the last turn. *)
ForwardOne ==
  /\ pc = "asleep" /\ peers # <<>>
  /\ sent' = Append(sent, Head(peers)) /\ peers' = Tail(peers)
  /\ UNCHANGED <<vars, strings, peerfilter, sumumery, offered>>

(* vcall() has returned: serviced sends what it finds in b_peers. *)
Forward ==
  /\ pc \in {"asleep", "done"} /\ peers # <<>>
  /\ sent' = Append(sent, Head(peers)) /\ peers' = Tail(peers)
  /\ UNCHANGED <<vars, strings, peerfilter, sumumery, offered>>

GetDeliver == (\E p \in Packets : Deliver(p)) /\ UNCHANGED found

GetWake == peers = <<>> /\ Wake /\ UNCHANGED found

GStep ==
  \/ GetNew \/ GetSend \/ GetReceive \/ GetReceiveBad \/ GetExpand \/ GetPeer
  \/ GetNextString \/ GetExpandDone \/ GetReceiveDone \/ GetWake \/ Forward

GNext == GStep \/ GetDeliver

GSpec == GInit /\ [][GNext]_gvars

GFairSpec == GSpec /\ WF_gvars(GStep)

-----------------------------------------------------------------------------
GTypeOK ==
  /\ TypeOK
  /\ peers \in Seq(Peers) /\ sent \in Seq(Peers)
  /\ peerfilter \subseteq Peers /\ sumumery \in Nat

(* The client gets every peer of every response that was read, once, in the *)
(* order they came in, whatever duplicates the responses hold; peers in the *)
(* queue have not been sent before.                                         *)
PeersOnce ==
  /\ IsInjective(sent \o peers)
  /\ ToSet(sent \o peers) = offered

(* A lookup that returns zero, which its caller takes for "nobody is        *)
(* there", has reported everyone it asked as failed.                        *)
ZeroMeansSilence == pc = "done" /\ sumumery = 0 => failed = Asked

(* The lookup ends and its client has everything that was found. *)
AllForwarded == <>[](pc = "done" /\ ToSet(sent) = offered)
=============================================================================

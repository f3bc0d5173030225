----------------------------- MODULE MCListener -----------------------------
(* Small labs for Listener: what a router may answer in each run.          *)
EXTENDS Listener

ByName == SetToSeq(Routers)

OneTopology == {ByName}

(* The second half of the file commented out, and put back *)
ShrinkingTopologies == {ByName, <<Head(ByName)>>}

Answer(summary, bgp) ==
  [error |-> None, summary |-> summary, bgp |-> bgp,
   asn |-> IF summary = None THEN None ELSE CHOOSE a \in ASNs : TRUE]

Sessions(counts) == Dict(PeerIPs, [state : SessionStates, remoteAs : ASNs, msgRcvd : counts])

Tables == Dict(Routes, [best : NextHops \cup {None}, detail : Details])

(* Every session state and every best path, either view missing, and a     *)
(* poll that failed                                                        *)
DiffReadable ==
  {Failed(e) : e \in Errors} \cup
  {Answer(summary, bgp) : summary \in Sessions({0}) \cup {None}, bgp \in Tables \cup {None}}

(* Sessions alone, with a message counter that goes up and back to zero,   *)
(* of two routers that come and go                                         *)
FleetReadable ==
  {Failed(e) : e \in Errors} \cup
  {Answer(summary, NoKeys(Routes)) : summary \in Sessions({0, 1})}
=============================================================================

------------------------------ MODULE MCPoller ------------------------------
(* A lab of two routers and a misnamed one, whose topology file is edited while it is polled.  *)
EXTENDS Poller

ByName == SetToSeq(Routers)

(* The file with its routers, with one of them commented out beside a name *)
(* no address can be made of, and with YAML of another shape.              *)
EditedTopologies ==
  LET named == SelectSeq(ByName, LAMBDA n : n \notin Refused)
  IN  {named, <<named[2]>> \o SetToSeq(Refused), None}

(* No answer; a session and no route; a route and no session, another AS *)
FleetReadable ==
  {Failed(e) : e \in Errors} \cup
  {[error |-> None, asn |-> 65001, bgp |-> NoKeys(Routes),
    summary |-> [ip \in PeerIPs |-> [state |-> "Established", remoteAs |-> 65002, msgRcvd |-> 0]]],
   [error |-> None, asn |-> 65002, summary |-> NoKeys(PeerIPs),
    bgp |-> [x \in Routes |-> [best |-> CHOOSE h \in NextHops : TRUE,
                              detail |-> CHOOSE d \in Details : TRUE]]]}
=============================================================================

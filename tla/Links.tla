-------------------------------- MODULE Links --------------------------------
(***************************************************************************)
(* Links between ports of the server (backend.cpp: connect_ports,          *)
(* disconnect_ports; registry.cpp: find_link).  The client resolves names  *)
(* in its mirror of the registry, sends a request and synchronises; the    *)
(* server, whose objects come and go meanwhile, serves requests in order   *)
(* and tells of every change in order.  A request to link names ports by   *)
(* their place (node and number of the port in it), a request to unlink    *)
(* names the link by its identifier.                                       *)
(*                                                                         *)
(* Registry says how names lead to ports and what the mirror holds,        *)
(* SyncCore what a synchronisation does; here it succeeds when its answer  *)
(* has come, or fails before.                                              *)
(***************************************************************************)
EXTENDS Integers, SequencesExt

CONSTANTS Outputs, Inputs,  \* places of ports
          Ids,              \* global identifiers
          MaxEvents,        \* bound: events a call or another client finds on their way
          MaxRequests,      \* bound: requests a call finds on their way
          NoId, Gone        \* no identifier; that of a link removed since

ASSUME LinksAssumption ==
    /\ Outputs \cap Inputs = {}
    /\ Ids \subseteq Nat /\ {NoId, Gone} \cap Ids = {} /\ NoId # Gone

VARIABLES objects,          \* the objects of the server, by identifier
          mirror,           \* those the registry of the client knows
          requests, events, \* on their way to the server, and to the client
          link,             \* the call of the host thread
          made,             \* the link that the last request has made (ghost)
          kept              \* the server kept what it was to destroy, or has used its
                            \* identifier again (ghost)

serverVars == <<objects, requests, made, kept>>
linkVars   == <<serverVars, mirror, events, link>>

Nothing        == [i \in {} |-> 0]
PortAt(p)      == [kind |-> "port", place |-> p]
NoCall         == [op |-> "none", at |-> "idle", src |-> NoId, dst |-> NoId,
                   id |-> NoId, error |-> FALSE]
Sync(ours)     == [do |-> "sync", ours |-> ours]
Told(e, ours)  == [event |-> e, ours |-> ours]
Added(id, o)   == [event |-> "added", id |-> id, object |-> o, ours |-> FALSE]
Removed(id)    == [event |-> "removed", id |-> id, ours |-> FALSE]

LinkInit ==
    /\ objects = Nothing /\ mirror = Nothing
    /\ requests = <<>> /\ events = <<>>
    /\ link = NoCall
    /\ made = NoId /\ kept = FALSE

-----------------------------------------------------------------------------
(* The server *)

With(os, id, o)  == [i \in DOMAIN os \cup {id} |-> IF i = id THEN o ELSE os[i]]
Without(os, ids) == [i \in DOMAIN os \ ids |-> os[i]]
PortsAt(p)       == {id \in DOMAIN objects : objects[id] = PortAt(p)}

\* find_link, for a registry with the objects os.
FindLink(os, src, dst) ==
    {id \in DOMAIN os : os[id].kind = "link" /\ os[id].output = src /\ os[id].input = dst}

\* An identifier is used again as soon as it is free.
FreeIds == Ids \ DOMAIN objects
NewId   == CHOOSE id \in FreeIds : \A other \in FreeIds : id <= other

Add(o) ==
    /\ FreeIds # {}
    /\ objects' = With(objects, NewId, o)
    /\ events' = Append(events, Added(NewId, o))
    /\ kept' = (kept \/ NewId = link.id)

\* The links of a port go before it.
LinksOf(id) == {l \in DOMAIN objects :
                   objects[l].kind = "link" /\ id \in {objects[l].output, objects[l].input}}

Destroy(id) ==
    /\ objects' = Without(objects, LinksOf(id) \cup {id})
    /\ events' = events \o SetToSeq({Removed(l) : l \in LinksOf(id)}) \o <<Removed(id)>>
    /\ made' = IF made \in LinksOf(id) \cup {id} THEN Gone ELSE made

NewLink(src, dst, lingers) ==
    [kind |-> "link", output |-> src, input |-> dst, lingers |-> lingers]

\* What other clients do.
Elsewhere == Len(events) < MaxEvents /\ UNCHANGED <<requests, mirror, link>>

PortAppears(p) == Elsewhere /\ PortsAt(p) = {} /\ Add(PortAt(p)) /\ UNCHANGED made

LinkAppears(src, dst) ==
    /\ Elsewhere
    /\ FindLink(objects, src, dst) = {}
    /\ Add(NewLink(src, dst, TRUE))
    /\ UNCHANGED made

ObjectGoes(id) == Elsewhere /\ Destroy(id) /\ UNCHANGED kept

\* What it does for this client.
Served == requests # <<>> /\ requests' = Tail(requests) /\ UNCHANGED <<mirror, link>>
Request(do) == Served /\ Head(requests).do = do

ServeLink ==
    /\ Request("link")
    /\ LET r == Head(requests)
       IN  /\ \E src \in PortsAt(r.output), dst \in PortsAt(r.input) :
                 /\ FindLink(objects, src, dst) = {}
                 /\ Add(NewLink(src, dst, r.lingers))
           /\ made' = IF r.ours THEN NewId ELSE made

\* A port is gone, they are linked already, or their formats do not match.
RefuseLink ==
    /\ Request("link")
    /\ events' = Append(events, Told("error", Head(requests).ours))
    /\ UNCHANGED <<objects, made, kept>>

ServeUnlink ==
    /\ Request("unlink")
    /\ Head(requests).id \in DOMAIN objects
    /\ Destroy(Head(requests).id)
    /\ UNCHANGED kept

\* It is gone, or another client's.
RefuseUnlink ==
    /\ Request("unlink")
    /\ kept' = (kept \/ Head(requests).ours)
    /\ UNCHANGED <<objects, events, made>>

\* The proxy of a link is destroyed, and with it a link that does not linger.
ServeRelease ==
    /\ Request("release")
    /\ LET dropped == {l \in {made} \cap DOMAIN objects : ~objects[l].lingers}
       IN  /\ objects' = Without(objects, dropped)
           /\ events' = events \o SetToSeq({Removed(l) : l \in dropped})
    /\ UNCHANGED <<made, kept>>

ServeSync ==
    /\ Request("sync")
    /\ events' = Append(events, Told("done", Head(requests).ours))
    /\ UNCHANGED <<objects, made, kept>>

-----------------------------------------------------------------------------
(* The context thread *)

\* What an event does to the registry, and to the call that waits for it.
Applied(e) == IF e.event = "added" THEN With(mirror, e.id, e.object)
              ELSE IF e.event = "removed" THEN Without(mirror, {e.id})
              ELSE mirror

DispatchEvent ==
    /\ events # <<>>
    /\ events' = Tail(events)
    /\ mirror' = Applied(Head(events))
    /\ link' = IF Head(events).ours
               THEN IF Head(events).event = "error" THEN [link EXCEPT !.error = TRUE]
                                                    ELSE [link EXCEPT !.at = "woken"]
               ELSE link
    /\ UNCHANGED serverVars

-----------------------------------------------------------------------------
(* The host thread *)

Knows(p) == {id \in DOMAIN mirror : mirror[id] = PortAt(p)}

\* find_port fails, the types of the ports differ, find_link fails, or the proxy
\* cannot be made: nothing is sent.
LinkRefused == link.at = "idle" /\ UNCHANGED linkVars

\* Mutant of LinkRequest: PW_KEY_OBJECT_LINGER is forgotten.
LinkRequestPassing(source, destination) ==
    [do |-> "link", output |-> source, input |-> destination,
     lingers |-> FALSE, ours |-> TRUE]

LinkRequest(source, destination) ==
    [do |-> "link", output |-> source, input |-> destination,
     lingers |-> TRUE, ours |-> TRUE]

ConnectPorts(source, destination) ==
    /\ link.at = "idle" /\ Len(requests) <= MaxRequests /\ Len(events) <= MaxEvents
    /\ \E src \in Knows(source), dst \in Knows(destination) :
          link' = [op |-> "connect", at |-> "waiting", src |-> src, dst |-> dst,
                   id |-> NoId, error |-> FALSE]
    /\ requests' = requests \o << LinkRequest(source, destination), Sync(TRUE) >>
    /\ made' = NoId
    /\ UNCHANGED <<objects, mirror, events, kept>>

\* Mutant of DisconnectPorts: it does not wait for the synchronisation.
DisconnectPortsAtOnce(source, destination) ==
    /\ link.at = "idle" /\ Len(requests) <= MaxRequests /\ Len(events) <= MaxEvents
    /\ \E src \in Knows(source), dst \in Knows(destination) :
          \E id \in FindLink(mirror, src, dst) :
             /\ link' = [op |-> "disconnect", at |-> "woken", src |-> src, dst |-> dst,
                         id |-> id, error |-> FALSE]
             /\ requests' = requests \o
                   << [do |-> "unlink", id |-> id, ours |-> TRUE], Sync(TRUE) >>
    /\ kept' = FALSE
    /\ UNCHANGED <<objects, mirror, events, made>>

DisconnectPorts(source, destination) ==
    /\ link.at = "idle" /\ Len(requests) <= MaxRequests /\ Len(events) <= MaxEvents
    /\ \E src \in Knows(source), dst \in Knows(destination) :
          \E id \in FindLink(mirror, src, dst) :
             /\ link' = [op |-> "disconnect", at |-> "waiting", src |-> src, dst |-> dst,
                         id |-> id, error |-> FALSE]
             /\ requests' = requests \o
                   << [do |-> "unlink", id |-> id, ours |-> TRUE], Sync(TRUE) >>
    /\ kept' = FALSE
    /\ UNCHANGED <<objects, mirror, events, made>>

\* What is on its way when a call ends is nobody's.
Disowned(q) == [i \in DOMAIN q |-> [q[i] EXCEPT !.ours = FALSE]]
Release     == [do |-> "release", ours |-> FALSE]

\* sync_core returns, for good or bad, and the proxy of the link is destroyed.
LinkSynced(ok) ==
    /\ link.at = (IF ok THEN "woken" ELSE "waiting")
    /\ link' = [link EXCEPT !.at = IF ok THEN "synced" ELSE "failed"]
    /\ requests' = Disowned(requests) \o (IF link.op = "connect" THEN <<Release>> ELSE <<>>)
    /\ events' = Disowned(events)
    /\ UNCHANGED <<objects, mirror, made, kept>>

LinkReturns ==
    /\ link.at \in {"synced", "failed"}
    /\ link' = NoCall
    /\ UNCHANGED <<serverVars, mirror, events>>

Result == IF link.at = "failed" \/ link.error THEN "UNKNOWN_ERR" ELSE "OK"

\* A server that is gone does nothing any more.
ServerStep ==
    \/ \E p \in Outputs \cup Inputs : PortAppears(p)
    \/ \E o \in Outputs, i \in Inputs :
          \E src \in PortsAt(o), dst \in PortsAt(i) : LinkAppears(src, dst)
    \/ \E id \in DOMAIN objects : ObjectGoes(id)
    \/ ServeLink \/ RefuseLink \/ ServeUnlink \/ RefuseUnlink \/ ServeRelease \/ ServeSync

LinkStep ==
    \/ DispatchEvent
    \/ LinkRefused
    \/ \E o \in Outputs, i \in Inputs : ConnectPorts(o, i) \/ DisconnectPorts(o, i)
    \/ LinkSynced(TRUE) \/ LinkSynced(FALSE)
    \/ LinkReturns

LinkSpec == LinkInit /\ [][ServerStep \/ LinkStep]_linkVars

-----------------------------------------------------------------------------
(* Properties *)

\* connect_ports reports success if and only if it has made a link, unless the
\* synchronisation fails; the link is there, in the server and, when the call
\* returns, in the registry, and it lasts until somebody else removes it.
LinkStands ==
    /\ made \in Ids => made \in DOMAIN objects /\ objects[made].kind = "link"
    /\ link.op = "connect" /\ link.at = "synced" =>
          /\ Result = "OK" <=> made # NoId
          /\ made \in Ids => made \in DOMAIN mirror /\ mirror[made] = objects[made]

\* disconnect_ports that reports success has removed the link it found, and the
\* registry knows; unless the server has refused, of which it is not told.
LinkGone ==
    link.op = "disconnect" /\ link.at = "synced" => kept \/ link.id \notin DOMAIN mirror
=============================================================================

------------------------------- MODULE Registry -------------------------------
(***************************************************************************)
(* The mirror a client keeps of the objects of the server (registry.cpp)   *)
(* and the registry events that feed it.  Objects lie in five arrays       *)
(* sorted by global identifier; nodes get a unique name when they are      *)
(* stored; ports are looked up by "node:port" for connect_ports.           *)
(*                                                                         *)
(* A name is a sequence: <<"a">> is "a", <<"a", 3>> is "a-3", so that a    *)
(* name made from a prefix and an identifier can collide with a name that  *)
(* is announced; <<"a", Colon, "x">> is "a:x", the full name of a port and *)
(* a name that a port or a node may bear.  The server announces an         *)
(* identifier once until it removes it, nodes before their ports and ports *)
(* before their links, removes them in the opposite order, and may then    *)
(* use the identifier again.                                               *)
(***************************************************************************)
EXTENDS Integers, SequencesExt

CONSTANTS Ids,          \* global identifiers
          Offers,       \* the properties of the objects other clients create
          OwnOffers,    \* the properties the node of the filter may have
          Devices,      \* names of default devices
          Client,       \* the name given to connect
          System,       \* DEFAULT_DEVICE_NAME
          Colon,        \* the character between a node and a port in a name
          None          \* NULL or SPA_ID_INVALID

\* process_remove tries the storages in this order.
Storages == <<"client", "node", "port", "link", "device">>
Kinds    == {"client", "node", "port", "link", "device"}

IsList(s) == Len(s) \in Nat /\ s = [i \in 1 .. Len(s) |-> s[i]]

ASSUME RegistryAssumption ==
    /\ Ids \subseteq Nat
    /\ None \notin Ids /\ None \notin Offers \cup OwnOffers
    /\ \A name \in Devices \cup {Client, System} : IsList(name)
    /\ \A p \in OwnOffers : p.kind = "node" /\ p.name = Client
    /\ \A p \in Offers \cup OwnOffers :
          /\ p.kind \in Kinds
          /\ p.kind = "node" =>
                /\ IsList(p.name)
                /\ \A name \in {p.nick, p.desc, p.app} : name = None \/ IsList(name)
          /\ p.kind = "port" => IsList(p.name)

VARIABLES store,        \* vClients, vNodes, vPorts, vLinks, vDevices
          default,      \* by direction: sDefaultSink, sDefaultSource
          metadata,     \* pMetadata: "none", "bound", or "removed" by the server
          clientName,   \* sClientName, the prefix of every sFullId
          filterNode,   \* what pw_filter_get_node_id returns
          synced,       \* clientName is the unique name of the node (ghost)
          announced     \* what the server has announced and not removed;
                        \* None if the registry refused it (ghost)

regVars == <<store, default, metadata, clientName, filterNode, synced, announced>>

RegInit ==
    /\ store = [k \in Kinds |-> <<>>]
    /\ default = [in |-> None, out |-> None]
    /\ metadata = "none"
    /\ clientName = Client
    /\ filterNode = None
    /\ synced = FALSE
    /\ announced = <<>>

-----------------------------------------------------------------------------
\* The sorted storage.  Indices count from 0, as in the code.
StorageIndexOf(s, id) ==
    LET search[part \in (0 .. Len(s)) \X (-1 .. Len(s) - 1)] ==
          LET first  == part[1]
              last   == part[2]
              middle == (first + last) \div 2
          IN  IF first > last               THEN first
              ELSE IF id < s[middle + 1].id THEN search[<<first, middle - 1>>]
              ELSE IF id > s[middle + 1].id THEN search[<<middle + 1, last>>]
              ELSE middle
    IN  search[<<0, Len(s) - 1>>]

Holds(s, id) == LET index == StorageIndexOf(s, id)
                IN  index < Len(s) /\ s[index + 1].id = id

\* What a lookup finds is a set: of one object, or of none.
FindById(s, id) == IF Holds(s, id) THEN {s[StorageIndexOf(s, id) + 1]} ELSE {}

\* Mutant of StoreObject: an object is put behind the place the search returns.
StoreObjectBehind(s, object) ==
    LET index == StorageIndexOf(s, object.id)
    IN  InsertAt(s, IF index < Len(s) THEN index + 2 ELSE index + 1, object)

\* dst_index is an identifier, and the code compares the index with it.
StoreObject(s, object) ==
    LET index     == StorageIndexOf(s, object.id)
        dst_index == s[index + 1].id
    IN  IF index < Len(s) /\ index = dst_index
        THEN ReplaceAt(s, index + 1, object)
        ELSE InsertAt(s, IF index < Len(s) /\ index > dst_index
                         THEN index + 2 ELSE index + 1, object)

\* Mutant of RemoveById: the identifier at the place found is not compared.
RemoveByIdUnchecked(s, id) ==
    LET index == StorageIndexOf(s, id)
    IN  IF index < Len(s) THEN RemoveAt(s, index + 1) ELSE s

RemoveById(s, id) ==
    IF Holds(s, id) THEN RemoveAt(s, StorageIndexOf(s, id) + 1) ELSE s

-----------------------------------------------------------------------------
\* Lookups by name: the first match in the order of the storage.
FirstOf(s, matches) ==
    {s[i] : i \in {j \in DOMAIN s : s[j] \in matches /\ \A k \in 1 .. j - 1 : s[k] \notin matches}}

OrElse(found, other) == IF found # {} THEN found ELSE other

FindNodeByUid(uid)   == FirstOf(store["node"], {n \in Range(store["node"]) : n.uid = uid})
FindNodeByName(name) == FirstOf(store["node"], {n \in Range(store["node"]) : n.name = name})
FindNodeByNick(nick) == FirstOf(store["node"], {n \in Range(store["node"]) : n.nick = nick})
FindNodeByString(s)  ==
    OrElse(FindNodeByUid(s), OrElse(FindNodeByName(s), FindNodeByNick(s)))

PortsOf(node, direction) ==
    {p \in Range(store["port"]) : p.node = node /\ p.direction = direction}

\* Mutant of FindNodePort: the second search, by system name, forgets the direction.
FindNodePortAnyDirection(node, port, direction) ==
    OrElse(FirstOf(store["port"], {p \in PortsOf(node, direction) : p.name = port}),
           FirstOf(store["port"],
                   {p \in Range(store["port"]) : p.node = node /\ p.systemId = port}))

FindNodePort(node, port, direction) ==
    OrElse(FirstOf(store["port"], {p \in PortsOf(node, direction) : p.name = port}),
           FirstOf(store["port"], {p \in PortsOf(node, direction) : p.systemId = port}))

\* The default device is the one the metadata names for the direction, if any.
Lookup(nodeName, direction) ==
    IF nodeName = System /\ default[direction] # None THEN default[direction] ELSE nodeName

\* make_port_full_id.
FullId(client, id) == client \o <<Colon>> \o id

\* Mutant of Separator: the full name is cut at its first colon (strchr).
FirstColon(full) ==
    {k \in DOMAIN full : full[k] = Colon /\ \A j \in 1 .. k - 1 : full[j] # Colon}

\* strrchr: the place of the last colon, if there is one.
Separator(full) ==
    {k \in DOMAIN full : full[k] = Colon /\ \A j \in k + 1 .. Len(full) : full[j] # Colon}

NodePart(full, sep) == SubSeq(full, 1, sep - 1)
PortPart(full, sep) == SubSeq(full, sep + 1, Len(full))

FindPort(full, direction) ==
    UNION {UNION {FindNodePort(n.id, PortPart(full, sep), direction) :
                     n \in FindNodeByString(Lookup(NodePart(full, sep), direction))} :
              sep \in Separator(full)}

IsFree(uid) == FindNodeByUid(uid) = {}

\* Mutant of MakeUniqueId: the name with the identifier is taken to be free.
MakeUniqueIdOnce(prefix, id) == IF IsFree(prefix) THEN prefix ELSE Append(prefix, id)

Indexed(prefix, id, i) == prefix \o <<id, i>>

\* One of Len(store["node"]) + 1 names is free, whatever the nodes are called.
FirstFree(prefix, id) ==
    CHOOSE i \in 0 .. Len(store["node"]) :
       /\ IsFree(Indexed(prefix, id, i))
       /\ \A j \in 0 .. i - 1 : ~IsFree(Indexed(prefix, id, j))

MakeUniqueId(prefix, id) ==
    IF IsFree(prefix) THEN prefix
    ELSE IF IsFree(Append(prefix, id)) THEN Append(prefix, id)
    ELSE Indexed(prefix, id, FirstFree(prefix, id))

-----------------------------------------------------------------------------
\* The objects process_add makes of the properties p.
Given(name, other) == IF name # None THEN name ELSE other

Nick(p) == Given(p.nick, p.app)
Desc(p) == IF p.nick # None THEN Given(p.desc, p.app) ELSE p.desc
Seed(p) == Given(Nick(p), Given(Desc(p), Given(p.app, p.name)))

SystemId(p) ==
    << IF p.direction = "in" THEN "playback" ELSE IF p.monitor THEN "monitor" ELSE "capture",
       p.index + 1 >>

Object(id, p) ==
    IF p.kind = "node" THEN [id |-> id, name |-> p.name, nick |-> Nick(p),
                             uid |-> MakeUniqueId(Seed(p), id)]
    ELSE IF p.kind = "port" THEN [id |-> id, node |-> p.node, name |-> p.name,
                                  direction |-> p.direction, systemId |-> SystemId(p)]
    ELSE IF p.kind = "link" THEN [id |-> id, output |-> p.output, input |-> p.input]
    ELSE [id |-> id]

ProcessAdd(id, p) ==
    store' = [store EXCEPT ![p.kind] = StoreObject(@, Object(id, p))]

\* The first storage that gives an object up is the only one that does.
GivesUp(k, id) == RemoveById(store[k], id) # store[k]

ProcessRemove(id) ==
    \/ (\A k \in Kinds : ~GivesUp(k, id)) /\ UNCHANGED store
    \/ \E i \in DOMAIN Storages :
          /\ GivesUp(Storages[i], id)
          /\ \A j \in 1 .. i - 1 : ~GivesUp(Storages[j], id)
          /\ store' = [store EXCEPT ![Storages[i]] = RemoveById(@, id)]

-----------------------------------------------------------------------------
\* What an announcement refers to, and the node of the filter.
References(p) == IF p = None THEN {}
                 ELSE IF p.kind = "port" THEN {p.node}
                 ELSE IF p.kind = "link" THEN {p.output, p.input}
                 ELSE {}
IsOwn(id)     == id = filterNode \/ announced[id] \in OwnOffers
OwnAnnounced  == {id \in DOMAIN announced : announced[id] \in OwnOffers}
Fresh(id)     == id \notin DOMAIN announced

\* on_registry_event_global.  The name is looked up before the node is stored,
\* and taken from the stored node after.
TakesUniqueName(id) == id = filterNode /\ FindNodeByName(clientName) # {}

\* Mutant of NewName: the client takes the name of the node and not its unique name.
NewNamePlain(node) == node.name

NewName(node) == node.uid

AnnounceNode(id, p) ==
    /\ p.kind = "node"
    /\ IF p \in OwnOffers THEN OwnAnnounced = {} /\ filterNode \in {None, id}
                          ELSE id # filterNode
    /\ ProcessAdd(id, p)
    /\ IF TakesUniqueName(id)
       THEN /\ \E node \in FindById(store'["node"], id) : clientName' = NewName(node)
            /\ synced' = TRUE
       ELSE UNCHANGED <<clientName, synced>>

AnnounceOther(id, p) ==
    /\ p.kind # "node"
    /\ id # filterNode
    /\ ProcessAdd(id, p)
    /\ UNCHANGED <<clientName, synced>>

Announce(id, p) ==
    /\ Fresh(id)
    /\ References(p) \subseteq DOMAIN announced
    /\ AnnounceNode(id, p) \/ AnnounceOther(id, p)
    /\ announced' = [i \in DOMAIN announced \cup {id} |->
                        IF i = id THEN p ELSE announced[i]]
    /\ UNCHANGED <<default, metadata, filterNode>>

\* A property is missing or malformed, memory is short, or the registry does
\* not keep objects of this type: process_add leaves everything as it is.
AnnounceRefused(id) ==
    /\ Fresh(id)
    /\ announced' = [i \in DOMAIN announced \cup {id} |->
                        IF i = id THEN None ELSE announced[i]]
    /\ UNCHANGED <<store, default, metadata, clientName, filterNode, synced>>

\* on_registry_event_removed.
EventRemoved(id) ==
    /\ ~Fresh(id) /\ ~IsOwn(id)
    /\ \A i \in DOMAIN announced : id \notin References(announced[i])
    /\ ProcessRemove(id)
    /\ announced' = [i \in DOMAIN announced \ {id} |-> announced[i]]
    /\ UNCHANGED <<default, metadata, clientName, filterNode, synced>>

\* The default metadata is announced, which the registry does not keep: the
\* client binds it unless pMetadata is set.
MetadataAnnounced ==
    /\ metadata = "none"
    /\ metadata' = "bound"
    /\ UNCHANGED <<store, default, clientName, filterNode, synced, announced>>

\* on_metadata_removed removes the hooks and leaves pMetadata set: another default
\* metadata is not bound before the next connection.
MetadataRemoved ==
    /\ metadata = "bound"
    /\ metadata' = "removed"
    /\ UNCHANGED <<store, default, clientName, filterNode, synced, announced>>

\* process_metadata for PW_ID_CORE: one key, or every key.
ProcessMetadata(directions, value) ==
    /\ metadata = "bound"
    /\ default' = [d \in {"in", "out"} |->
                      IF d \in directions THEN value ELSE default[d]]
    /\ UNCHANGED <<store, metadata, clientName, filterNode, synced, announced>>

\* The server tells the filter the identifier of its node, before or after it
\* announces the node.
FilterBound(id) ==
    /\ filterNode = None
    /\ IF OwnAnnounced = {} THEN Fresh(id) ELSE id \in OwnAnnounced
    /\ filterNode' = id
    /\ UNCHANGED <<store, default, metadata, clientName, synced, announced>>

\* close_connection destroys the registry, and the next make_connection sets
\* the name of the client.
Reconnect ==
    /\ store' = [k \in Kinds |-> <<>>]
    /\ default' = [in |-> None, out |-> None]
    /\ metadata' = "none"
    /\ clientName' = Client
    /\ filterNode' = None
    /\ synced' = FALSE
    /\ announced' = <<>>

RegNext ==
    \/ \E id \in Ids, p \in Offers \cup OwnOffers : Announce(id, p)
    \/ \E id \in Ids : AnnounceRefused(id)
    \/ \E id \in Ids : EventRemoved(id)
    \/ MetadataAnnounced
    \/ MetadataRemoved
    \/ \E directions \in {{"in"}, {"out"}, {"in", "out"}},
          value \in Devices \cup {None} : ProcessMetadata(directions, value)
    \/ \E id \in Ids : FilterBound(id)
    \/ Reconnect

RegSpec == RegInit /\ [][RegNext]_regVars

-----------------------------------------------------------------------------
(* Properties *)

\* Type invariant.  The storages are sorted by identifier, without which the
\* binary search finds nothing.
RegistryTypeOK ==
    /\ DOMAIN store = Kinds
    /\ \A k \in Kinds : \A i \in 1 .. Len(store[k]) :
          /\ store[k][i].id \in Ids
          /\ i > 1 => store[k][i - 1].id < store[k][i].id
    /\ default \in [{"in", "out"} -> Devices \cup {None}]
    /\ metadata \in {"none", "bound", "removed"}
    /\ metadata = "none" => Range(default) = {None}
    /\ filterNode \in Ids \cup {None}
    /\ synced \in BOOLEAN
    /\ DOMAIN announced \subseteq Ids
    /\ \A id \in DOMAIN announced :
          announced[id] \in Offers \cup OwnOffers \cup {None}

\* The registry holds the objects the server has announced and not removed, all
\* of them and no other, and finds each one by its identifier, whatever the
\* order in which identifiers come, go and come back: store_object, which
\* compares an index with an identifier, never replaces an unrelated object.
MirrorsServer ==
    \A k \in Kinds :
       LET kept == {id \in DOMAIN announced :
                       announced[id] # None /\ announced[id].kind = k}
       IN  /\ {o.id : o \in Range(store[k])} = kept
           /\ Len(store[k]) = Cardinality(kept)
           /\ \A id \in kept : Holds(store[k], id)

\* make_unique_id: the unique name of a node, made from names that other nodes
\* may carry, leads find_node_by_string to that node and to no other.
UidNamesItsNode ==
    \A n \in Range(store["node"]) : FindNodeByString(n.uid) = {n}

\* find_port cuts a name at its last colon: a port whose own name has none is
\* asked for by the name of its node and its own.
NoColon(name) == \A k \in DOMAIN name : name[k] # Colon

\* Once the client has taken over the unique name of its node, the full name of
\* each of its ports leads find_port to that port, or to one of its node, name and
\* direction if there are several, until the connection is closed: unless the name
\* of the port has a colon, which register_port accepts, or the name of the client
\* is the one reserved for the default device.
SyncedNameIsOwn ==
    synced /\ clientName # System =>
       \A p \in Range(store["port"]) :
          p.node = filterNode /\ NoColon(p.name) =>
             LET alike == {q \in PortsOf(p.node, p.direction) : q.name = p.name}
                 found == FindPort(FullId(clientName, p.name), p.direction)
             IN  found # {} /\ found \subseteq alike

\* A port that connect_ports finds has the direction it asks for, and belongs to
\* a node that the server has now and that bears the name asked for; the default
\* device is looked for by the metadata of that direction.  The name asked for is
\* that of a node, which may have colons, and that of a port, which has none.
FoundPortIsThere ==
    \A n \in {c.uid : c \in Range(store["node"])} \cup Devices \cup {Client, System},
       q \in Range(store["port"]), direction \in {"in", "out"} :
       \A name \in {m \in {q.name, q.systemId} : NoColon(m)} :
          LET asked == IF n = System /\ default[direction] # None
                       THEN default[direction] ELSE n
          IN  \A f \in FindPort(FullId(n, name), direction) :
                 /\ f.direction = direction
                 /\ name \in {f.name, f.systemId}
                 /\ \E c \in Range(store["node"]) :
                       c.id = f.node /\ asked \in {c.uid, c.name, c.nick}
=============================================================================

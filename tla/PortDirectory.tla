---------------------------- MODULE PortDirectory ----------------------------
(***************************************************************************)
(* What the port API of the backend promises its user: a directory of      *)
(* named ports.  A successful registration returns a fresh identifier      *)
(* that names the port until it is unregistered; no two ports share a      *)
(* name; a failed call changes nothing.  There is no table, no capacity    *)
(* and no free-slot hint here: PortTable implements this module.           *)
(***************************************************************************)
EXTENDS Integers

CONSTANTS Ids,          \* the identifiers there are
          Names,        \* legal port names: 1 .. MAX_PORT_ID_BYTES-1 bytes
          BadNames,     \* NULL, empty and over-long names
          Flags,        \* port flags a caller may pass
          GoodFlags     \* those that name an audio, MIDI or MIDI2 port

VARIABLES ports,        \* the live ports: identifier -> name and flags
          ret           \* what the last call returned

dirVars == <<ports, ret>>

Entry == [sID : Names, nType : GoodFlags]

\* A call returns an identifier (st = "OK", port >= 0) or a status.
Failed(st)  == [st |-> st, port |-> -1]
Returned(i) == [st |-> "OK", port |-> i]

Taken(id) == \E i \in DOMAIN ports : ports[i].sID = id

DirInit ==
    /\ ports = [i \in {} |-> [sID |-> "", nType |-> ""]]
    /\ ret = Failed("NONE")

\* A port appears under an identifier no live port has.
Register(id, flags) ==
    /\ id \in Names /\ ~Taken(id)
    /\ flags \in GoodFlags
    /\ \E i \in Ids \ DOMAIN ports :
          /\ ports' = [j \in DOMAIN ports \cup {i} |->
                          IF j = i THEN [sID |-> id, nType |-> flags]
                                   ELSE ports[j]]
          /\ ret' = Returned(i)

\* A registration is refused, with the reason; memory may always run out.
Refuse(id, flags) ==
    /\ UNCHANGED ports
    /\ \/ id \in BadNames /\ ret' \in {Failed("INVALID_VALUE"), Failed("TOO_BIG")}
       \/ id \in Names /\ Taken(id) /\ ret' = Failed("ALREADY_EXISTS")
       \/ /\ id \in Names /\ ~Taken(id)
          /\ flags \notin GoodFlags
          /\ ret' = Failed("INVALID_VALUE")
       \/ /\ id \in Names /\ ~Taken(id)
          /\ flags \in GoodFlags
          /\ ret' = Failed("NO_MEM")

Unregister(i) ==
    /\ i \in DOMAIN ports
    /\ ports' = [j \in DOMAIN ports \ {i} |-> ports[j]]
    /\ ret' = Returned(0)

\* An identifier that names no port is rejected.
UnregisterUnknown ==
    /\ UNCHANGED ports
    /\ ret' = Failed("INVALID_VALUE")

DirNext ==
    \/ \E id \in Names \cup BadNames, flags \in Flags :
          Register(id, flags) \/ Refuse(id, flags)
    \/ \E i \in Ids : Unregister(i)
    \/ UnregisterUnknown

DirSpec == DirInit /\ [][DirNext]_dirVars
=============================================================================

------------------------------ MODULE Tunnels -------------------------------
(***************************************************************************)
(* The wireguard tunnels between one server and its clients: the server's  *)
(* pool of addresses and its peers (server/app/main.py), each client's     *)
(* record of its tunnel (client/app/main.py), and what the two kernels     *)
(* have been told (common/wireguard_helper.py).                            *)
(*                                                                         *)
(* A client generates its key pair once, before it first registers, and    *)
(* uses it for every tunnel: a machine stands for its own key.  All the    *)
(* servers' entries here are for the one server; keys of the server, its   *)
(* endpoint and port never change and are left out, and wireguard-tools    *)
(* is installed on both sides.                                             *)
(***************************************************************************)
EXTENDS Naturals, Sequences

CONSTANTS
    Machines,       \* the clients' data directories, and their public keys
    Entries,        \* ids that the clients give to entries for the server
    MachineOf,      \* whose entry it is
    Ids,            \* ids that the server gives to clients
    Holders,        \* the machines into which a client id's token is pasted
    Tasks,          \* requests to enable a tunnel
    FirstHost,      \* 2: .1 is the server itself
    MaxHost,        \* 255: the largest octet an address may have
    HostBound,      \* bound: no more addresses are handed out
    Tunnelled,      \* bound: the entries whose host is ever the tunnel's
    Events,         \* what may go wrong
    None

ASSUME EntriesAssumption ==
    /\ MachineOf \in [Entries -> Machines]
    /\ Holders \in [Ids -> SUBSET Machines]

ASSUME HostsAssumption ==
    FirstHost \in Nat /\ MaxHost \in Nat /\ HostBound \in Nat

ASSUME NoneAssumption ==
    /\ None \notin Nat
    /\ None \notin [pubkey : Machines, ip : Nat]

VARIABLES
    client,     \* the server's clients
    nextHost,   \* next_host
    peer,       \* wireguard.peers of the server
    order,      \* the ids of peers, in the order of the dictionary
    wg0,        \* the server has its interface wg0
    live,       \* wg0: the allowed address of each key
    skipped,    \* history: keys missing from it since a start failed to set them
    state,      \* the clients' entries
    token,      \* whose token the entry has
    via,        \* its host: the server's LAN address, or the tunnel's
    wg,         \* the address in the entry's "wireguard" part, if it has one
    iface,      \* the address of the kernel's interface wg-<entry>
    frame       \* the suspended request of each task

vars == <<client, nextHost, peer, order, wg0, live, skipped, state, token, via, wg, iface, frame>>

registry == <<client, nextHost, peer, order>>    \* what the server stores
kernel   == <<wg0, live, skipped>>               \* what its kernel has
entries  == <<state, token, via, wg>>            \* what the clients store

-----------------------------------------------------------------------------

Address == FirstHost .. HostBound
Peer    == [pubkey : Machines, ip : Address]

(* Waiting for the server's answer to register_wireguard, and holding it.  *)
AskedFrame == [pc : {"asked"}, entry : Entries, id : Ids, via : {"lan", "tunnel"}]
ToldFrame  == [pc : {"told"}, entry : Entries, ip : Address]
Idle == [pc |-> "idle"]

Lifecycle == {"new", "registered", "deleted"}

TypeOK ==
    /\ client \in [Ids -> Lifecycle]
    /\ nextHost \in Nat
    /\ peer \in [Ids -> Peer \cup {None}]
    /\ order \in Seq({i \in Ids : peer[i] # None})
    /\ wg0 \in BOOLEAN
    /\ live \in [Machines -> Address \cup {None}]
    /\ skipped \subseteq Machines
    /\ state \in [Entries -> Lifecycle]
    /\ token \in [Entries -> Ids \cup {None}]
    /\ \A e \in Entries : state[e] = "registered" => token[e] \in Ids
    /\ via \in [Entries -> {"lan", "tunnel"}]
    /\ wg \in [Entries -> Address \cup {None}]
    /\ \A e \in Entries : wg[e] # None => state[e] = "registered"
    /\ iface \in [Entries -> Address \cup {None}]
    /\ frame \in [Tasks -> AskedFrame \cup ToldFrame \cup {Idle}]

NoKeys == [m \in Machines |-> None]

Init ==
    /\ client = [i \in Ids |-> "new"]
    /\ nextHost = FirstHost
    /\ peer = [i \in Ids |-> None]
    /\ order = <<>>
    /\ wg0 = TRUE
    /\ live = NoKeys
    /\ skipped = {}
    /\ state = [e \in Entries |-> "new"]
    /\ token = [e \in Entries |-> None]
    /\ via = [e \in Entries |-> "lan"]
    /\ wg = [e \in Entries |-> None]
    /\ iface = [e \in Entries |-> None]
    /\ frame = [t \in Tasks |-> Idle]

-----------------------------------------------------------------------------
(* The two registries.                                                     *)

AddClient(i) ==
    /\ client[i] = "new"
    /\ client' = [client EXCEPT ![i] = "registered"]
    /\ UNCHANGED <<nextHost, peer, order, kernel, entries, iface, frame>>

(* The client goes; its peer stays.                                        *)
DeleteClient(i) ==
    /\ client[i] = "registered"
    /\ client' = [client EXCEPT ![i] = "deleted"]
    /\ UNCHANGED <<nextHost, peer, order, kernel, entries, iface, frame>>

HasToken(e, i) == client[i] # "new" /\ MachineOf[e] \in Holders[i]

AddServer(e, i) ==
    /\ state[e] = "new" /\ HasToken(e, i)
    /\ state' = [state EXCEPT ![e] = "registered"]
    /\ token' = [token EXCEPT ![e] = i]
    /\ UNCHANGED <<registry, kernel, via, wg, iface, frame>>

(* api_update_server writes a new record, without the tunnel.  The user    *)
(* takes the tunnel's host from the badge of a tunnel that is on record.   *)
UpdateServer(e, i, v) ==
    /\ state[e] = "registered"
    /\ i = token[e] \/ HasToken(e, i)
    /\ v = "tunnel" => e \in Tunnelled /\ (wg[e] # None \/ via[e] = "tunnel")
    /\ token' = [token EXCEPT ![e] = i]
    /\ via' = [via EXCEPT ![e] = v]
    /\ wg' = [wg EXCEPT ![e] = None]
    /\ UNCHANGED <<registry, kernel, state, iface, frame>>

(* The entry goes; its interface stays.                                    *)
DeleteServer(e) ==
    /\ state[e] = "registered"
    /\ state' = [state EXCEPT ![e] = "deleted"]
    /\ token' = [token EXCEPT ![e] = None]
    /\ via' = [via EXCEPT ![e] = "lan"]
    /\ wg' = [wg EXCEPT ![e] = None]
    /\ UNCHANGED <<registry, kernel, iface, frame>>

-----------------------------------------------------------------------------
(* api_enable_wireguard, up to its await and after it, and the server's    *)
(* work for it, which has none.                                            *)

EnableWireguard(t, e) ==
    /\ frame[t] = Idle /\ state[e] = "registered"
    /\ frame' = [frame EXCEPT ![t] =
         [pc |-> "asked", entry |-> e, id |-> token[e], via |-> via[e]]]
    /\ UNCHANGED <<registry, kernel, entries, iface>>

(* A packet through the tunnel arrives if both ends agree on its source.   *)
Routed(e) == iface[e] # None /\ live[MachineOf[e]] = iface[e]

IsPeer(i, m) == peer[i] # None /\ peer[i].pubkey = m

(* Mutants: every registration takes a new address; the next address is    *)
(* the number of peers.                                                    *)
AllocateAlways(i, m, ip) ==
    /\ ip = nextHost /\ nextHost <= HostBound /\ nextHost' = nextHost + 1
    /\ peer' = [peer EXCEPT ![i] = [pubkey |-> m, ip |-> ip]]
    /\ order' = IF peer[i] = None THEN Append(order, i) ELSE order
AllocateCounted(i, m, ip) ==
    \/ /\ IsPeer(i, m) /\ ip = peer[i].ip
       /\ UNCHANGED <<peer, order, nextHost>>
    \/ /\ ~IsPeer(i, m)
       /\ ip = nextHost /\ nextHost <= HostBound
       /\ nextHost' = FirstHost + Len(order)
       /\ peer' = [peer EXCEPT ![i] = [pubkey |-> m, ip |-> ip]]
       /\ order' = IF peer[i] = None THEN Append(order, i) ELSE order

(* A client that registers again with the same key keeps its address; any  *)
(* other key gets the next one, and takes the place of the client's peer.  *)
Allocate(i, m, ip) ==
    \/ /\ IsPeer(i, m) /\ ip = peer[i].ip
       /\ UNCHANGED <<peer, order, nextHost>>
    \/ /\ ~IsPeer(i, m)
       /\ ip = nextHost /\ nextHost <= HostBound
       /\ nextHost' = nextHost + 1
       /\ peer' = [peer EXCEPT ![i] = [pubkey |-> m, ip |-> ip]]
       /\ order' = IF peer[i] = None THEN Append(order, i) ELSE order

(* api_wireguard_register: the peer is saved before the kernel is told.    *)
(* An address beyond the pool is refused there.  The client may have       *)
(* stopped waiting for the answer.                                         *)
Register(t) ==
    LET f == frame[t]
        m == MachineOf[f.entry]
    IN  /\ f.pc = "asked"
        /\ f.via = "lan" \/ Routed(f.entry)
        /\ client[f.id] = "registered"
        /\ \E ip \in Address :
             /\ Allocate(f.id, m, ip)
             /\ \/ /\ ip <= MaxHost /\ wg0
                   /\ live' = [live EXCEPT ![m] = ip] /\ skipped' = skipped \ {m}
                   /\ \/ frame' = [frame EXCEPT ![t] = [pc |-> "told", entry |-> f.entry, ip |-> ip]]
                      \/ "lost" \in Events /\ frame' = [frame EXCEPT ![t] = Idle]
                \/ /\ ip > MaxHost \/ ~wg0 \/ "wgfails" \in Events
                   /\ frame' = [frame EXCEPT ![t] = Idle]
                   /\ UNCHANGED <<live, skipped>>
        /\ UNCHANGED <<client, wg0, entries, iface>>

(* The server cannot be reached, does not know the token, or is too slow.  *)
NotRegistered(t) ==
    /\ frame[t].pc = "asked"
    /\ frame' = [frame EXCEPT ![t] = Idle]
    /\ UNCHANGED <<registry, kernel, entries, iface>>

(* Mutant: a tunnel is stored for an entry that is not there.              *)
KeepAnyway(e, ip) == wg' = [wg EXCEPT ![e] = ip]

(* The tunnel is stored in the entry, unless the entry has gone meanwhile  *)
(* (a KeyError).                                                           *)
Keep(e, ip) == wg' = IF state[e] = "registered" THEN [wg EXCEPT ![e] = ip] ELSE wg

(* ensure_interface_up: an interface that exists stays as it is.           *)
BroughtUp(e, ip) == IF iface[e] = None THEN ip ELSE iface[e]

(* The answer: interface, peer, entry.  Each of the two commands may fail. *)
Enabled(t) ==
    LET f == frame[t] IN
    /\ f.pc = "told"
    /\ \/ /\ iface' = [iface EXCEPT ![f.entry] = BroughtUp(f.entry, f.ip)]
          /\ Keep(f.entry, f.ip)
       \/ /\ "wgfails" \in Events
          /\ iface' \in {iface, [iface EXCEPT ![f.entry] = BroughtUp(f.entry, f.ip)]}
          /\ UNCHANGED wg
    /\ frame' = [frame EXCEPT ![t] = Idle]
    /\ UNCHANGED <<registry, kernel, state, token, via>>

-----------------------------------------------------------------------------
(* Startup.                                                                *)

(* The replay goes through the peers in their order and ends at the first  *)
(* address that is none.                                                   *)
Reached(n) == \A k \in 1 .. n : peer[order[k]].ip <= MaxHost

(* What the replay makes of the kernel's table, when it skips those peers  *)
(* of which the kernel makes an error: of two with one key the later       *)
(* stands.                                                                 *)
Replay(table, failed) ==
    LET done == {n \in 1 .. Len(order) : order[n] \notin failed /\ Reached(n)}
    IN  [m \in Machines |->
            LET own  == {n \in done : IsPeer(order[n], m)}
                last == {n \in own : \A k \in own : k <= n}
            IN  IF last = {} THEN table[m] ELSE peer[order[CHOOSE n \in last : TRUE]].ip]

(* The server's process starts again, or its host, and wg0 with it.        *)
WithInterface ==
    \E table \in {live, NoKeys}, failed \in SUBSET {i \in Ids : "wgfails" \in Events /\ peer[i] # None} :
        /\ wg0' = TRUE
        /\ live' = Replay(table, failed)
        /\ skipped' = {m \in Machines : live'[m] = None /\ \E i \in failed : IsPeer(i, m)}

(* If wg0 is not there and does not come up, no peer is replayed.          *)
WithoutInterface ==
    /\ "wgfails" \in Events
    /\ wg0' = FALSE
    /\ live' = NoKeys
    /\ skipped' = {m \in Machines : \E i \in Ids : IsPeer(i, m)}

ServerStart ==
    /\ WithInterface \/ WithoutInterface
    /\ UNCHANGED <<registry, entries, iface, frame>>

(* _ensure_wireguard_tunnels_up: one entry.                                *)
Restored(e, up) == IF up[e] = None /\ state[e] = "registered" THEN wg[e] ELSE up[e]

(* A client's process starts again, or its host: what it waited for is     *)
(* lost.  An interface that does not come up stays down till the next time.*)
ClientStart(m) ==
    /\ frame' = [t \in Tasks |->
         IF frame[t] # Idle /\ MachineOf[frame[t].entry] = m THEN Idle ELSE frame[t]]
    /\ \E up \in {iface, [e \in Entries |-> IF MachineOf[e] = m THEN None ELSE iface[e]]},
          failed \in SUBSET {e \in Entries : "wgfails" \in Events /\ MachineOf[e] = m /\ wg[e] # None} :
         iface' = [e \in Entries |->
             IF MachineOf[e] = m /\ e \notin failed THEN Restored(e, up) ELSE up[e]]
    /\ UNCHANGED <<registry, kernel, entries>>

-----------------------------------------------------------------------------

AdminStep == \E i \in Ids : AddClient(i) \/ DeleteClient(i)

UserStep ==
    \E e \in Entries :
        \/ \E i \in Ids : AddServer(e, i) \/ \E v \in {"lan", "tunnel"} : UpdateServer(e, i, v)
        \/ DeleteServer(e)
        \/ \E t \in Tasks : EnableWireguard(t, e)

RequestStep == \E t \in Tasks : Register(t) \/ NotRegistered(t) \/ Enabled(t)

StartStep == ServerStart \/ \E m \in Machines : ClientStart(m)

Next == AdminStep \/ UserStep \/ RequestStep \/ StartStep

Spec == Init /\ [][Next]_vars

-----------------------------------------------------------------------------
(* Properties.                                                             *)

(* An address stands for one machine wherever it is stored: the server's   *)
(* peers, its kernel, the answers under way, the clients' entries and      *)
(* interfaces.                                                             *)
Claimed(m, ip) ==
    \/ \E i \in Ids : peer[i] = [pubkey |-> m, ip |-> ip]
    \/ live[m] = ip
    \/ \E e \in Entries : MachineOf[e] = m /\ ip \in {wg[e], iface[e]}
    \/ \E t \in Tasks : frame[t].pc = "told" /\ MachineOf[frame[t].entry] = m /\ frame[t].ip = ip

(* No two machines ever have one address, whatever is registered again,    *)
(* re-keyed, deleted, restarted or answered late: peers are never removed  *)
(* from the kernel, so a second owner would cut the first one off          *)
(* (main.py:614-623).                                                      *)
OneMachinePerAddress ==
    \A m, n \in Machines : m # n => \A ip \in Address : ~(Claimed(m, ip) /\ Claimed(n, ip))

(* The client id of an entry has one key, and the entry's key one id.      *)
OwnId(e) ==
    \A i \in Ids : peer[i] # None => (i = token[e] <=> peer[i].pubkey = MachineOf[e])

(* The tunnel that an entry has on record is the one that the server's     *)
(* kernel lets through and that the interface has, across restarts of both *)
(* sides and late or lost answers: "there is exactly one source of truth   *)
(* for peers" (wireguard_helper.py:14-18).  The kernel may have nothing    *)
(* for a key whose peer the server's last start failed to set, and never   *)
(* has another address.  It takes a token that is used on one machine: two *)
(* would take the peer's place from each other.                            *)
TunnelsAgree ==
    \A e \in Entries :
        wg[e] # None /\ OwnId(e) =>
            /\ \/ live[MachineOf[e]] = wg[e]
               \/ live[MachineOf[e]] = None /\ MachineOf[e] \in skipped
            /\ iface[e] \in {None, wg[e]}

(* "editing this server's `host` field [...] routes all subsequent API +   *)
(* USB/IP traffic through the tunnel" (client/app/main.py:345-347): the    *)
(* tunnel that an entry uses exists.                                       *)
TunnelInUseIsUp ==
    \A e \in Entries : state[e] = "registered" /\ via[e] = "tunnel" => iface[e] # None
=============================================================================

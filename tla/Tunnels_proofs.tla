--------------------------- MODULE Tunnels_proofs ---------------------------
(***************************************************************************)
(* Proofs about Tunnels: typing, and that no two machines ever have one    *)
(* address, for every number of machines, entries, clients and requests,   *)
(* and for every pool.                                                     *)
(***************************************************************************)
EXTENDS Tunnels, SequenceTheorems, TLAPS

(* The halves of TypeOK that the server's and the clients' steps disturb.  *)
ServerTyped ==
    /\ client \in [Ids -> Lifecycle]
    /\ nextHost \in Nat
    /\ peer \in [Ids -> Peer \cup {None}]
    /\ order \in Seq({i \in Ids : peer[i] # None})
    /\ wg0 \in BOOLEAN
    /\ live \in [Machines -> Address \cup {None}]
    /\ skipped \subseteq Machines

EntriesTyped ==
    /\ state \in [Entries -> Lifecycle]
    /\ token \in [Entries -> Ids \cup {None}]
    /\ \A e \in Entries : state[e] = "registered" => token[e] \in Ids
    /\ via \in [Entries -> {"lan", "tunnel"}]
    /\ wg \in [Entries -> Address \cup {None}]
    /\ \A e \in Entries : wg[e] # None => state[e] = "registered"
    /\ iface \in [Entries -> Address \cup {None}]

FramesTyped == frame \in [Tasks -> AskedFrame \cup ToldFrame \cup {Idle}]

-----------------------------------------------------------------------------
(* The operators the actions are built from.                               *)

LEMMA AddressIsNat ==
    Address \subseteq Nat /\ None \notin Address /\ None \notin Peer
  BY HostsAssumption, NoneAssumption DEF Address, Peer

LEMMA AskedIs ==
    ASSUME FramesTyped, NEW t \in Tasks, frame[t].pc = "asked"
    PROVE  frame[t] \in AskedFrame
  BY DEF FramesTyped, AskedFrame, ToldFrame, Idle

LEMMA ToldIs ==
    ASSUME FramesTyped, NEW t \in Tasks, frame[t].pc = "told"
    PROVE  frame[t] \in ToldFrame
  BY DEF FramesTyped, AskedFrame, ToldFrame, Idle

(* A registration keeps the peers typed and their order complete.          *)
LEMMA AllocateTyped ==
    ASSUME ServerTyped, NEW i \in Ids, NEW m \in Machines, NEW ip \in Address, Allocate(i, m, ip)
    PROVE  /\ nextHost' \in Nat
           /\ peer' \in [Ids -> Peer \cup {None}]
           /\ order' \in Seq({j \in Ids : peer'[j] # None})
           /\ peer'[i] = [pubkey |-> m, ip |-> ip]
           /\ \A j \in Ids \ {i} : peer'[j] = peer[j]
  <1>1. CASE IsPeer(i, m) /\ ip = peer[i].ip /\ UNCHANGED <<peer, order, nextHost>>
    <2>1. peer[i] \in Peer
      BY <1>1 DEF IsPeer, ServerTyped
    <2>2. peer[i] = [pubkey |-> m, ip |-> ip]
      BY <1>1, <2>1 DEF IsPeer, Peer
    <2> QED
      BY <1>1, <2>2 DEF ServerTyped
  <1>2. CASE /\ ~IsPeer(i, m) /\ nextHost' = nextHost + 1
             /\ peer' = [peer EXCEPT ![i] = [pubkey |-> m, ip |-> ip]]
             /\ order' = IF peer[i] = None THEN Append(order, i) ELSE order
    <2> DEFINE Old == {j \in Ids : peer[j] # None}
               New == {j \in Ids : peer'[j] # None}
    <2>1. [pubkey |-> m, ip |-> ip] \in Peer /\ nextHost' \in Nat
      BY <1>2 DEF Peer, ServerTyped
    <2>2. peer' \in [Ids -> Peer \cup {None}] /\ peer'[i] = [pubkey |-> m, ip |-> ip]
      BY <1>2, <2>1 DEF ServerTyped
    <2>3. \A j \in Ids \ {i} : peer'[j] = peer[j]
      BY <1>2 DEF ServerTyped
    <2>4. Old \subseteq New /\ i \in New
      BY <2>1, <2>2, <2>3, AddressIsNat
    <2>5. order \in Seq(New)
      BY <2>4, SeqMonotonic DEF ServerTyped
    <2>6. order' \in Seq(New)
      BY <1>2, <2>4, <2>5, AppendProperties
    <2> QED
      BY <2>1, <2>2, <2>3, <2>6
  <1> QED
    BY <1>1, <1>2 DEF Allocate

(* The replay gives each machine an address of its own peer, or leaves it  *)
(* what it had.                                                            *)
LEMMA ReplayGives ==
    ASSUME ServerTyped, NEW table, NEW failed, NEW m \in Machines
    PROVE  \/ Replay(table, failed)[m] = table[m]
           \/ \E i \in Ids : i \notin failed /\ IsPeer(i, m) /\ Replay(table, failed)[m] = peer[i].ip
  <1>1. \A n \in 1 .. Len(order) : order[n] \in Ids
    <2>1. \A n \in 1 .. Len(order) : order[n] \in {j \in Ids : peer[j] # None}
      BY ElementOfSeq DEF ServerTyped
    <2> QED
      BY <2>1
  <1> DEFINE done == {n \in 1 .. Len(order) : order[n] \notin failed /\ Reached(n)}
             own  == {n \in done : IsPeer(order[n], m)}
             last == {n \in own : \A k \in own : k <= n}
  <1>2. Replay(table, failed)[m] = IF last = {} THEN table[m] ELSE peer[order[CHOOSE n \in last : TRUE]].ip
    BY DEF Replay
  <1>3. CASE last = {}
    BY <1>2, <1>3
  <1>4. CASE last # {}
    <2>1. PICK n : n = (CHOOSE k \in last : TRUE)
      OBVIOUS
    <2>2. n \in own
      BY <1>4, <2>1
    <2> QED
      BY <1>1, <1>2, <1>4, <2>1, <2>2
  <1> QED
    BY <1>3, <1>4

LEMMA ReplayTyped ==
    ASSUME ServerTyped, NEW table \in [Machines -> Address \cup {None}], NEW failed
    PROVE  Replay(table, failed) \in [Machines -> Address \cup {None}]
  <1>1. ASSUME NEW m \in Machines PROVE Replay(table, failed)[m] \in Address \cup {None}
    <2>1. ASSUME NEW i \in Ids, IsPeer(i, m) PROVE peer[i].ip \in Address
      BY <2>1 DEF IsPeer, ServerTyped, Peer
    <2> QED
      BY <2>1, ReplayGives
  <1>2. Replay(table, failed) = [m \in Machines |-> Replay(table, failed)[m]]
    BY DEF Replay
  <1> QED
    BY <1>1, <1>2

LEMMA BroughtUpTyped ==
    ASSUME EntriesTyped, NEW e \in Entries, NEW ip \in Address
    PROVE  BroughtUp(e, ip) \in Address
  BY DEF BroughtUp, EntriesTyped

(* A step that leaves one program's side as it was.                        *)
LEMMA SameServer ==
    ASSUME ServerTyped, UNCHANGED <<client, nextHost, peer, order, wg0, live, skipped>>
    PROVE  ServerTyped'
  BY DEF ServerTyped

LEMMA SameEntries ==
    ASSUME EntriesTyped, UNCHANGED <<state, token, via, wg, iface>>
    PROVE  EntriesTyped'
  BY DEF EntriesTyped

LEMMA SameFrames ==
    ASSUME FramesTyped, UNCHANGED frame
    PROVE  FramesTyped'
  BY DEF FramesTyped

(* A task that has its answer, or none, is idle.                           *)
LEMMA TaskEnds ==
    ASSUME FramesTyped, NEW t \in Tasks, frame' = [frame EXCEPT ![t] = Idle]
    PROVE  FramesTyped'
  BY DEF FramesTyped

-----------------------------------------------------------------------------
(* Typing, action by action.                                               *)

LEMMA AdminTyped ==
    ASSUME TypeOK, AdminStep
    PROVE  TypeOK'
  <1>0. ServerTyped /\ EntriesTyped /\ FramesTyped
    BY DEF TypeOK, ServerTyped, EntriesTyped, FramesTyped
  <1>1. UNCHANGED <<nextHost, peer, order, wg0, live, skipped, state, token, via, wg, iface, frame>>
    BY DEF AdminStep, AddClient, DeleteClient, entries, kernel
  <1>2. client' \in [Ids -> Lifecycle]
    BY <1>0 DEF AdminStep, AddClient, DeleteClient, ServerTyped, Lifecycle
  <1>3. ServerTyped'
    BY <1>0, <1>1, <1>2 DEF ServerTyped
  <1> QED
    BY <1>0, <1>1, <1>3, SameEntries, SameFrames DEF TypeOK, ServerTyped, EntriesTyped, FramesTyped

LEMMA UserTyped ==
    ASSUME TypeOK, UserStep
    PROVE  TypeOK'
  <1>0. ServerTyped /\ EntriesTyped /\ FramesTyped
    BY DEF TypeOK, ServerTyped, EntriesTyped, FramesTyped
  <1>1. ASSUME NEW e \in Entries, NEW i \in Ids, AddServer(e, i) PROVE EntriesTyped' /\ UNCHANGED frame
    BY <1>0, <1>1 DEF AddServer, EntriesTyped, Lifecycle
  <1>2. ASSUME NEW e \in Entries, NEW i \in Ids, NEW v \in {"lan", "tunnel"}, UpdateServer(e, i, v)
        PROVE  EntriesTyped' /\ UNCHANGED frame
    BY <1>0, <1>2 DEF UpdateServer, EntriesTyped
  <1>3. ASSUME NEW e \in Entries, DeleteServer(e) PROVE EntriesTyped' /\ UNCHANGED frame
    BY <1>0, <1>3 DEF DeleteServer, EntriesTyped, Lifecycle
  <1>4. ASSUME NEW e \in Entries, NEW t \in Tasks, EnableWireguard(t, e)
        PROVE  EntriesTyped' /\ FramesTyped'
    <2>1. EntriesTyped'
      BY <1>0, <1>4, SameEntries DEF EnableWireguard, entries, kernel
    <2>2. [pc |-> "asked", entry |-> e, id |-> token[e], via |-> via[e]] \in AskedFrame
      BY <1>0, <1>4 DEF EnableWireguard, EntriesTyped, AskedFrame
    <2> QED
      BY <1>0, <1>4, <2>1, <2>2 DEF EnableWireguard, FramesTyped
  <1>5. UNCHANGED <<client, nextHost, peer, order, wg0, live, skipped>>
    BY DEF UserStep, AddServer, UpdateServer, DeleteServer, EnableWireguard, registry, kernel
  <1>6. EntriesTyped' /\ FramesTyped'
    BY <1>0, <1>1, <1>2, <1>3, <1>4, SameFrames DEF UserStep
  <1> QED
    BY <1>0, <1>5, <1>6, SameServer DEF TypeOK, ServerTyped, EntriesTyped, FramesTyped

LEMMA RequestTyped ==
    ASSUME TypeOK, RequestStep
    PROVE  TypeOK'
  <1>0. ServerTyped /\ EntriesTyped /\ FramesTyped
    BY DEF TypeOK, ServerTyped, EntriesTyped, FramesTyped
  <1>1. ASSUME NEW t \in Tasks, Register(t) PROVE ServerTyped' /\ EntriesTyped' /\ FramesTyped'
    <2>1. frame[t] \in AskedFrame
      BY <1>0, <1>1, AskedIs DEF Register
    <2>2. frame[t].entry \in Entries /\ frame[t].id \in Ids
      BY <2>1 DEF AskedFrame
    <2>3. MachineOf[frame[t].entry] \in Machines
      BY <2>2, EntriesAssumption
    <2>4. PICK ip \in Address :
             /\ Allocate(frame[t].id, MachineOf[frame[t].entry], ip)
             /\ \/ UNCHANGED live
                \/ live' = [live EXCEPT ![MachineOf[frame[t].entry]] = ip]
             /\ \/ frame' = [frame EXCEPT ![t] = Idle]
                \/ frame' = [frame EXCEPT ![t] = [pc |-> "told", entry |-> frame[t].entry, ip |-> ip]]
      BY <1>1 DEF Register
    <2>5. [pc |-> "told", entry |-> frame[t].entry, ip |-> ip] \in ToldFrame
      BY <2>2 DEF ToldFrame
    <2>6. FramesTyped'
      BY <1>0, <2>4, <2>5 DEF FramesTyped
    <2>7. UNCHANGED <<client, state, token, via, wg, iface>>
      BY <1>1 DEF Register, entries, kernel
    <2>8. live' \in [Machines -> Address \cup {None}] /\ wg0' \in BOOLEAN /\ skipped' \subseteq Machines
      <3>1. skipped' \subseteq skipped /\ wg0' = wg0
        BY <1>1 DEF Register
      <3> QED
        BY <1>0, <2>3, <2>4, <3>1 DEF ServerTyped
    <2>9. ServerTyped'
      BY <1>0, <2>2, <2>3, <2>4, <2>7, <2>8, AllocateTyped DEF ServerTyped
    <2> QED
      BY <1>0, <2>6, <2>7, <2>9, SameEntries
  <1>2. ASSUME NEW t \in Tasks, NotRegistered(t) PROVE ServerTyped' /\ EntriesTyped' /\ FramesTyped'
    BY <1>0, <1>2, SameServer, SameEntries, TaskEnds DEF NotRegistered, registry, entries, kernel
  <1>3. ASSUME NEW t \in Tasks, Enabled(t) PROVE ServerTyped' /\ EntriesTyped' /\ FramesTyped'
    <2>1. frame[t].entry \in Entries /\ frame[t].ip \in Address
      BY <1>0, <1>3, ToldIs DEF Enabled, ToldFrame
    <2>2. iface' \in [Entries -> Address \cup {None}]
      BY <1>0, <1>3, <2>1, BroughtUpTyped DEF Enabled, EntriesTyped
    <2>3. wg' \in [Entries -> Address \cup {None}]
      BY <1>0, <1>3, <2>1 DEF Enabled, Keep, EntriesTyped
    <2>4. \A e \in Entries : wg'[e] # None => state[e] = "registered"
      BY <1>0, <1>3, <2>1 DEF Enabled, Keep, EntriesTyped
    <2>5. EntriesTyped'
      BY <1>0, <1>3, <2>2, <2>3, <2>4 DEF Enabled, EntriesTyped
    <2>6. ServerTyped' /\ FramesTyped'
      BY <1>0, <1>3, SameServer, TaskEnds DEF Enabled, registry, kernel
    <2> QED
      BY <2>5, <2>6
  <1> QED
    BY <1>1, <1>2, <1>3 DEF RequestStep, TypeOK, ServerTyped, EntriesTyped, FramesTyped

LEMMA StartTyped ==
    ASSUME TypeOK, StartStep
    PROVE  TypeOK'
  <1>0. ServerTyped /\ EntriesTyped /\ FramesTyped
    BY DEF TypeOK, ServerTyped, EntriesTyped, FramesTyped
  <1>1. ASSUME ServerStart PROVE ServerTyped' /\ EntriesTyped' /\ FramesTyped'
    <2>1. live' \in [Machines -> Address \cup {None}] /\ wg0' \in BOOLEAN /\ skipped' \subseteq Machines
      <3>1. NoKeys \in [Machines -> Address \cup {None}]
        BY DEF NoKeys
      <3>2. CASE WithInterface
        BY <1>0, <3>1, <3>2, ReplayTyped DEF WithInterface, ServerTyped
      <3>3. CASE WithoutInterface
        BY <3>1, <3>3 DEF WithoutInterface
      <3> QED
        BY <1>1, <3>2, <3>3 DEF ServerStart
    <2>2. UNCHANGED <<client, nextHost, peer, order, state, token, via, wg, iface, frame>>
      BY <1>1 DEF ServerStart, registry, entries
    <2> QED
      BY <1>0, <2>1, <2>2, SameEntries, SameFrames DEF ServerTyped
  <1>2. ASSUME NEW m \in Machines, ClientStart(m) PROVE ServerTyped' /\ EntriesTyped' /\ FramesTyped'
    <2>1. iface' \in [Entries -> Address \cup {None}]
      BY <1>0, <1>2 DEF ClientStart, Restored, EntriesTyped
    <2>2. FramesTyped'
      BY <1>0, <1>2 DEF ClientStart, FramesTyped
    <2>3. UNCHANGED <<client, nextHost, peer, order, wg0, live, skipped, state, token, via, wg>>
      BY <1>2 DEF ClientStart, registry, entries, kernel
    <2> QED
      BY <1>0, <2>1, <2>2, <2>3, SameServer DEF EntriesTyped
  <1> QED
    BY <1>1, <1>2 DEF StartStep, TypeOK, ServerTyped, EntriesTyped, FramesTyped

(* The state of Tunnels is well typed: the peers' order names peers only,  *)
(* and only an entry that exists has a tunnel on record.                   *)
THEOREM TunnelsTyping == Spec => []TypeOK
  <1>1. Init => TypeOK
    <2>1. Init => order \in Seq({i \in Ids : peer[i] # None})
      BY DEF Init
    <2> QED
      BY <2>1, HostsAssumption DEF Init, NoKeys, TypeOK, Lifecycle
  <1>2. TypeOK /\ [Next]_vars => TypeOK'
    <2>1. ASSUME TypeOK, UNCHANGED vars PROVE TypeOK'
      BY <2>1 DEF vars, TypeOK
    <2> QED
      BY <2>1, AdminTyped, UserTyped, RequestTyped, StartTyped DEF Next
  <1> QED
    BY <1>1, <1>2, PTL DEF Spec

-----------------------------------------------------------------------------
(* One machine per address.  It is not inductive: the next address must be *)
(* one that nobody has.                                                    *)

Below == \A m \in Machines : \A ip \in Address : Claimed(m, ip) => ip < nextHost

Apart == OneMachinePerAddress /\ Below

(* A step without a new claim.                                             *)
NoNewClaim == \A m \in Machines : \A ip \in Address : Claimed(m, ip)' => Claimed(m, ip)

LEMMA NothingClaimed ==
    ASSUME TypeOK, Apart, NoNewClaim, nextHost' = nextHost
    PROVE  Apart'
  BY DEF Apart, OneMachinePerAddress, Below, NoNewClaim

(* A step in which h claims the next address.                              *)
LEMMA NextClaimed ==
    ASSUME TypeOK, Apart, NEW h \in Machines, nextHost' = nextHost + 1,
           \A m \in Machines : \A ip \in Address :
              Claimed(m, ip)' => Claimed(m, ip) \/ (m = h /\ ip = nextHost)
    PROVE  Apart'
  <1>1. nextHost \in Nat /\ Address \subseteq Nat
    BY AddressIsNat DEF TypeOK
  <1>2. Below'
    BY <1>1 DEF Apart, Below
  <1>3. \A m \in Machines : ~Claimed(m, nextHost) \/ nextHost \notin Address
    BY <1>1 DEF Apart, Below
  <1>4. OneMachinePerAddress'
    <2>1. SUFFICES ASSUME NEW m \in Machines, NEW n \in Machines, m # n, NEW ip \in Address,
                          Claimed(m, ip)', Claimed(n, ip)'
                   PROVE  FALSE
      BY DEF OneMachinePerAddress
    <2>2. CASE ip = nextHost
      BY <1>3, <2>1, <2>2
    <2>3. CASE ip # nextHost
      BY <2>1, <2>3 DEF Apart, OneMachinePerAddress
    <2> QED
      BY <2>2, <2>3
  <1> QED
    BY <1>2, <1>4 DEF Apart

(* Only a registration makes a new claim: what a request stores was the    *)
(* answer's, and what a restart brings up was a peer's or an entry's.      *)
LEMMA AdminClaims ==
    ASSUME TypeOK, AdminStep
    PROVE  NoNewClaim /\ UNCHANGED <<nextHost, peer, order, wg0, live, skipped, state, token, via, wg, iface, frame>>
  <1>1. UNCHANGED <<nextHost, peer, order, wg0, live, skipped, state, token, via, wg, iface, frame>>
    BY DEF AdminStep, AddClient, DeleteClient, entries, kernel
  <1> QED
    BY <1>1 DEF NoNewClaim, Claimed

LEMMA UserClaims ==
    ASSUME TypeOK, UserStep
    PROVE  /\ NoNewClaim
           /\ UNCHANGED <<nextHost, peer, order, wg0, live, skipped, iface>>
           /\ \A e \in Entries : wg'[e] \in {wg[e], None}
           /\ \A t \in Tasks : frame'[t] = frame[t] \/ frame'[t].pc = "asked"
  <1>1. UNCHANGED <<nextHost, peer, order, wg0, live, skipped, iface>>
    BY DEF UserStep, AddServer, UpdateServer, DeleteServer, EnableWireguard, registry, kernel
  <1>2. \A e \in Entries : wg'[e] \in {wg[e], None}
    BY DEF UserStep, AddServer, UpdateServer, DeleteServer, EnableWireguard, entries, kernel, TypeOK
  <1>3. \A t \in Tasks : frame'[t] = frame[t] \/ frame'[t].pc = "asked"
    BY DEF UserStep, AddServer, UpdateServer, DeleteServer, EnableWireguard, TypeOK
  <1>4. NoNewClaim
    BY <1>1, <1>2, <1>3, AddressIsNat DEF NoNewClaim, Claimed
  <1> QED
    BY <1>1, <1>2, <1>3, <1>4

(* A registration claims nothing but the address it answers with.          *)
LEMMA RegisterClaims ==
    ASSUME TypeOK, NEW t \in Tasks, Register(t),
           NEW ip \in Address, Allocate(frame[t].id, MachineOf[frame[t].entry], ip),
           \/ UNCHANGED live
           \/ live' = [live EXCEPT ![MachineOf[frame[t].entry]] = ip],
           \/ frame' = [frame EXCEPT ![t] = Idle]
           \/ frame' = [frame EXCEPT ![t] = [pc |-> "told", entry |-> frame[t].entry, ip |-> ip]]
    PROVE  \A m \in Machines : \A a \in Address :
              Claimed(m, a)' => Claimed(m, a) \/ (m = MachineOf[frame[t].entry] /\ a = ip)
  <1> DEFINE e == frame[t].entry
             i == frame[t].id
             h == MachineOf[e]
  <1>0. ServerTyped /\ FramesTyped
    BY DEF TypeOK, ServerTyped, FramesTyped
  <1>1. e \in Entries /\ i \in Ids /\ h \in Machines
    BY <1>0, AskedIs, EntriesAssumption DEF Register, AskedFrame
  <1>3. peer'[i] = [pubkey |-> h, ip |-> ip] /\ \A j \in Ids \ {i} : peer'[j] = peer[j]
    BY <1>0, <1>1, AllocateTyped
  <1>4. \A u \in Tasks : frame'[u] = frame[u] \/ frame'[u] = Idle
                           \/ frame'[u] = [pc |-> "told", entry |-> e, ip |-> ip]
    BY DEF TypeOK
  <1>5. \A m \in Machines : live'[m] = live[m] \/ (m = h /\ live'[m] = ip)
    BY DEF TypeOK
  <1>6. UNCHANGED <<wg, iface>>
    BY DEF Register, entries, kernel
  <1>7. SUFFICES ASSUME NEW m \in Machines, NEW a \in Address, Claimed(m, a)'
                 PROVE  Claimed(m, a) \/ (m = h /\ a = ip)
    OBVIOUS
  <1>8. CASE \E j \in Ids : peer'[j] = [pubkey |-> m, ip |-> a]
    BY <1>3, <1>8 DEF Claimed
  <1>9. CASE live'[m] = a
    BY <1>5, <1>9 DEF Claimed
  <1>10. CASE \E d \in Entries : MachineOf[d] = m /\ a \in {wg'[d], iface'[d]}
    BY <1>6, <1>10 DEF Claimed
  <1>11. CASE \E u \in Tasks : /\ frame'[u].pc = "told"
                               /\ MachineOf[frame'[u].entry] = m /\ frame'[u].ip = a
    BY <1>4, <1>11 DEF Claimed, Idle
  <1> QED
    BY <1>7, <1>8, <1>9, <1>10, <1>11 DEF Claimed

LEMMA NotRegisteredClaims ==
    ASSUME TypeOK, NEW t \in Tasks, NotRegistered(t)
    PROVE  /\ NoNewClaim
           /\ UNCHANGED <<nextHost, peer, order, wg0, live, skipped, state, token, via, wg, iface>>
           /\ \A u \in Tasks : frame'[u] = frame[u] \/ frame'[u] = Idle
  <1>1. UNCHANGED <<nextHost, peer, order, wg0, live, skipped, state, token, via, wg, iface>>
    BY DEF NotRegistered, registry, entries, kernel
  <1>2. \A u \in Tasks : frame'[u] = frame[u] \/ frame'[u] = Idle
    BY DEF NotRegistered, TypeOK
  <1> QED
    BY <1>1, <1>2 DEF NoNewClaim, Claimed, Idle

LEMMA EnabledClaims ==
    ASSUME TypeOK, NEW t \in Tasks, Enabled(t)
    PROVE  /\ NoNewClaim
           /\ UNCHANGED <<nextHost, peer, order, wg0, live, skipped, state, token, via>>
           /\ frame[t].pc = "told" /\ frame[t].entry \in Entries
           /\ \A u \in Tasks : frame'[u] = frame[u] \/ frame'[u] = Idle
           /\ \A d \in Entries : wg'[d] = wg[d] \/ (d = frame[t].entry /\ wg'[d] = frame[t].ip)
  <1> DEFINE e == frame[t].entry
             ip == frame[t].ip
  <1>0. EntriesTyped /\ FramesTyped
    BY DEF TypeOK, EntriesTyped, FramesTyped
  <1>1. e \in Entries /\ ip \in Address
    BY <1>0, ToldIs DEF Enabled, ToldFrame
  <1>2. UNCHANGED <<nextHost, peer, order, wg0, live, skipped, state, token, via>>
    BY DEF Enabled, registry, kernel
  <1>3. \A u \in Tasks : frame'[u] = frame[u] \/ frame'[u] = Idle
    BY <1>0 DEF Enabled, FramesTyped
  <1>4. \A d \in Entries : wg'[d] = wg[d] \/ (d = e /\ wg'[d] = ip)
    BY <1>0 DEF Enabled, Keep, EntriesTyped
  <1>5. \A d \in Entries : iface'[d] = iface[d] \/ (d = e /\ iface'[d] = ip)
    BY <1>0 DEF Enabled, BroughtUp, EntriesTyped
  <1>6. Claimed(MachineOf[e], ip)
    BY DEF Enabled, Claimed
  <1>7. NoNewClaim
    BY <1>2, <1>3, <1>4, <1>5, <1>6 DEF NoNewClaim, Claimed, Idle
  <1> QED
    BY <1>1, <1>2, <1>3, <1>4, <1>7 DEF Enabled

LEMMA ServerStartClaims ==
    ASSUME TypeOK, ServerStart
    PROVE  NoNewClaim /\ UNCHANGED <<client, nextHost, peer, order, state, token, via, wg, iface, frame>>
  <1>0. ServerTyped
    BY DEF TypeOK, ServerTyped
  <1>1. UNCHANGED <<client, nextHost, peer, order, state, token, via, wg, iface, frame>>
    BY DEF ServerStart, registry, entries
  <1>2. ASSUME NEW m \in Machines, NEW ip \in Address, live'[m] = ip PROVE Claimed(m, ip)
    <2>1. ASSUME NEW table \in {live, NoKeys}, NEW failed, live' = Replay(table, failed)
          PROVE  Claimed(m, ip)
      <3>1. CASE live'[m] = table[m]
        BY <1>2, <2>1, <3>1, AddressIsNat DEF Claimed, NoKeys
      <3>2. ASSUME NEW i \in Ids, IsPeer(i, m), live'[m] = peer[i].ip PROVE Claimed(m, ip)
        <4>1. peer[i] = [pubkey |-> m, ip |-> ip]
          BY <1>2, <3>2 DEF IsPeer, TypeOK, Peer
        <4> QED
          BY <4>1 DEF Claimed
      <3> QED
        BY <1>0, <2>1, <3>1, <3>2, ReplayGives
    <2>2. live' # NoKeys
      BY <1>2, AddressIsNat DEF NoKeys
    <2> QED
      BY <2>1, <2>2 DEF ServerStart, WithInterface, WithoutInterface
  <1>3. NoNewClaim
    BY <1>1, <1>2 DEF NoNewClaim, Claimed
  <1> QED
    BY <1>1, <1>3

LEMMA ClientStartClaims ==
    ASSUME TypeOK, NEW h \in Machines, ClientStart(h)
    PROVE  /\ NoNewClaim
           /\ UNCHANGED <<nextHost, peer, order, wg0, live, skipped, state, token, via, wg>>
           /\ \A t \in Tasks : frame'[t] = frame[t] \/ frame'[t] = Idle
  <1>1. UNCHANGED <<nextHost, peer, order, wg0, live, skipped, state, token, via, wg>>
    BY DEF ClientStart, registry, entries, kernel
  <1>2. \A e \in Entries : iface'[e] \in {iface[e], wg[e], None}
    BY DEF ClientStart, Restored
  <1>3. \A t \in Tasks : frame'[t] = frame[t] \/ frame'[t] = Idle
    BY DEF ClientStart
  <1>4. NoNewClaim
    BY <1>1, <1>2, <1>3, AddressIsNat DEF NoNewClaim, Claimed, Idle
  <1> QED
    BY <1>1, <1>3, <1>4

(* What a registration answers with is its machine's already, or it is the *)
(* next address.                                                           *)
LEMMA RegisterApart ==
    ASSUME TypeOK, Apart, NEW t \in Tasks, Register(t)
    PROVE  Apart'
  <1> DEFINE i == frame[t].id
             h == MachineOf[frame[t].entry]
  <1>0. ServerTyped /\ FramesTyped
    BY DEF TypeOK, ServerTyped, FramesTyped
  <1>1. i \in Ids /\ h \in Machines
    BY <1>0, AskedIs, EntriesAssumption DEF Register, AskedFrame
  <1>2. PICK ip \in Address :
           /\ Allocate(i, h, ip)
           /\ UNCHANGED live \/ live' = [live EXCEPT ![h] = ip]
           /\ \/ frame' = [frame EXCEPT ![t] = Idle]
              \/ frame' = [frame EXCEPT ![t] = [pc |-> "told", entry |-> frame[t].entry, ip |-> ip]]
    BY DEF Register
  <1>3. peer'[i] = [pubkey |-> h, ip |-> ip]
    BY <1>0, <1>1, <1>2, AllocateTyped
  <1>4. \A m \in Machines : \A a \in Address :
           Claimed(m, a)' => Claimed(m, a) \/ (m = h /\ a = ip)
    BY <1>2, RegisterClaims
  <1>5. CASE ip = nextHost /\ nextHost' = nextHost + 1
    BY <1>1, <1>4, <1>5, NextClaimed
  <1>6. CASE IsPeer(i, h) /\ ip = peer[i].ip /\ UNCHANGED <<peer, order, nextHost>>
    <2>1. Claimed(h, ip)
      BY <1>1, <1>3, <1>6 DEF Claimed
    <2> QED
      BY <1>4, <1>6, <2>1, NothingClaimed DEF NoNewClaim
  <1> QED
    BY <1>2, <1>5, <1>6 DEF Allocate

LEMMA NextApart ==
    ASSUME TypeOK, Apart, [Next]_vars
    PROVE  Apart'
  <1>1. CASE AdminStep \/ UserStep
    BY <1>1, AdminClaims, UserClaims, NothingClaimed
  <1>2. CASE RequestStep
    BY <1>2, RegisterApart, NotRegisteredClaims, EnabledClaims, NothingClaimed DEF RequestStep
  <1>3. CASE StartStep
    BY <1>3, ServerStartClaims, ClientStartClaims, NothingClaimed DEF StartStep
  <1>4. CASE UNCHANGED vars
    BY <1>4, NothingClaimed DEF vars, NoNewClaim, Claimed
  <1> QED
    BY <1>1, <1>2, <1>3, <1>4 DEF Next

LEMMA InitUnclaimed ==
    ASSUME Init
    PROVE  \A m \in Machines : \A ip \in Address : ~Claimed(m, ip)
  BY AddressIsNat, NoneAssumption DEF Init, NoKeys, Claimed, Idle, Address

LEMMA ApartAlways == Spec => [](TypeOK /\ Apart)
  <1>1. Init => Apart
    BY InitUnclaimed DEF Apart, OneMachinePerAddress, Below
  <1>2. TypeOK /\ Apart /\ [Next]_vars => Apart'
    BY NextApart
  <1> QED
    BY <1>1, <1>2, TunnelsTyping, PTL DEF Spec

(* No two machines ever have one address: not in the server's peers, nor   *)
(* in its kernel, nor in an answer under way, nor on the clients.          *)
THEOREM AddressesApart == Spec => []OneMachinePerAddress
  <1>1. Apart => OneMachinePerAddress
    BY DEF Apart
  <1> QED
    BY <1>1, ApartAlways, PTL

-----------------------------------------------------------------------------
(* The tunnels agree.  A client id has one key only if its token is used   *)
(* on one machine: with two, each registration takes the other's place in  *)
(* the peers and gets a new address, which the interfaces that are up do   *)
(* not follow.                                                             *)

OneHolder == \A i \in Ids : \A m, n \in Holders[i] : m = n

(* Whoever registers as i, or is its peer, has its token.                  *)
Rightful ==
    /\ \A t \in Tasks : frame[t].pc = "asked" => MachineOf[frame[t].entry] \in Holders[frame[t].id]
    /\ \A e \in Entries : state[e] = "registered" => MachineOf[e] \in Holders[token[e]]
    /\ \A i \in Ids : peer[i] # None => peer[i].pubkey \in Holders[i]

(* Every address in use is some peer's.                                    *)
Recorded ==
    \A m \in Machines : \A ip \in Address :
        Claimed(m, ip) => \E i \in Ids : peer[i] = [pubkey |-> m, ip |-> ip]

(* The replay meets the peers by their addresses, the lowest first: one    *)
(* beyond the pool ends it after all that are within.                      *)
Ordered ==
    /\ \A n, k \in 1 .. Len(order) : n < k => peer[order[n]].ip < peer[order[k]].ip
    /\ \A i \in Ids : peer[i] # None => \E n \in 1 .. Len(order) : order[n] = i

OnePeer(m) == \A i, j \in Ids : IsPeer(i, m) /\ IsPeer(j, m) => i = j

Answered(m, ip) ==
    \/ \E e \in Entries : MachineOf[e] = m /\ wg[e] = ip
    \/ \E t \in Tasks : frame[t].pc = "told" /\ MachineOf[frame[t].entry] = m /\ frame[t].ip = ip

(* The server answers only with what its kernel has taken, and the kernel  *)
(* keeps it, or gets it back at the replay, unless that skips it.          *)
Served ==
    \A m \in Machines : \A ip \in Address :
        Answered(m, ip) => ip <= MaxHost /\ (OnePeer(m) /\ m \notin skipped => live[m] # None)

Sound == Rightful /\ Recorded /\ Ordered /\ Served

NoNewAnswer == \A m \in Machines : \A ip \in Address : Answered(m, ip)' => Answered(m, ip)

LEMMA QuietSound ==
    ASSUME Sound, NoNewClaim, NoNewAnswer, UNCHANGED <<peer, order, wg0, live, skipped>>
    PROVE  Recorded' /\ Ordered' /\ Served'
  <1>1. Recorded' /\ Ordered'
    BY DEF Sound, Recorded, Ordered, NoNewClaim
  <1>2. Served'
    BY DEF Sound, Served, NoNewAnswer, OnePeer, IsPeer
  <1> QED
    BY <1>1, <1>2

LEMMA AdminSound ==
    ASSUME TypeOK, Sound, AdminStep
    PROVE  Sound'
  <1>1. NoNewAnswer
    BY AdminClaims DEF NoNewAnswer, Answered
  <1>2. Rightful'
    BY AdminClaims DEF Sound, Rightful
  <1> QED
    BY <1>1, <1>2, AdminClaims, QuietSound DEF Sound

LEMMA UserSound ==
    ASSUME TypeOK, Sound, UserStep
    PROVE  Sound'
  <1>1. NoNewAnswer
    BY UserClaims, AddressIsNat DEF NoNewAnswer, Answered
  <1>2. ASSUME NEW e \in Entries, NEW i \in Ids, AddServer(e, i) PROVE Rightful'
    BY <1>2 DEF AddServer, HasToken, registry, kernel, TypeOK, Sound, Rightful
  <1>3. ASSUME NEW e \in Entries, NEW i \in Ids, NEW v \in {"lan", "tunnel"}, UpdateServer(e, i, v)
        PROVE  Rightful'
    BY <1>3 DEF UpdateServer, HasToken, registry, kernel, TypeOK, Sound, Rightful
  <1>4. ASSUME NEW e \in Entries, DeleteServer(e) PROVE Rightful'
    BY <1>4 DEF DeleteServer, registry, kernel, TypeOK, Sound, Rightful
  <1>5. ASSUME NEW e \in Entries, NEW t \in Tasks, EnableWireguard(t, e) PROVE Rightful'
    BY <1>5 DEF EnableWireguard, registry, entries, kernel, TypeOK, Sound, Rightful
  <1> QED
    BY <1>1, <1>2, <1>3, <1>4, <1>5, UserClaims, QuietSound DEF UserStep, Sound

(* The one peer of a machine whose address the kernel takes is replayed.   *)
LEMMA ReplayServes ==
    ASSUME TypeOK, Ordered, NEW table, NEW failed, NEW m \in Machines, NEW i \in Ids \ failed,
           IsPeer(i, m), OnePeer(m), peer[i].ip <= MaxHost
    PROVE  Replay(table, failed)[m] = peer[i].ip
  <1> DEFINE done == {n \in 1 .. Len(order) : order[n] \notin failed /\ Reached(n)}
             own  == {n \in done : IsPeer(order[n], m)}
             last == {n \in own : \A k \in own : k <= n}
  <1>1. \A n \in 1 .. Len(order) : order[n] \in Ids /\ peer[order[n]] \in Peer
    <2>1. \A n \in 1 .. Len(order) : order[n] \in {j \in Ids : peer[j] # None}
      BY ElementOfSeq DEF TypeOK
    <2> QED
      BY <2>1 DEF TypeOK
  <1>2. PICK n \in 1 .. Len(order) : order[n] = i
    BY DEF Ordered, IsPeer
  <1>3. ASSUME NEW k \in 1 .. n PROVE peer[order[k]].ip <= MaxHost
    <2>1. k \in 1 .. Len(order) /\ n \in 1 .. Len(order) /\ k <= n
      BY <1>2
    <2>2. k = n \/ peer[order[k]].ip < peer[order[n]].ip
      BY <2>1 DEF Ordered
    <2>3. peer[order[k]].ip \in Nat /\ peer[order[n]].ip \in Nat
      BY <1>1, <2>1, AddressIsNat DEF Peer
    <2> QED
      BY <1>2, <2>2, <2>3, HostsAssumption
  <1>4. n \in own
    BY <1>2, <1>3 DEF Reached
  <1>5. ASSUME NEW k \in own PROVE k = n
    <2>1. k \in 1 .. Len(order) /\ order[k] = i
      BY <1>1, <1>5 DEF OnePeer
    <2>2. peer[i].ip \in Nat
      BY <1>1, <1>2, AddressIsNat DEF Peer
    <2>3. ~(peer[i].ip < peer[i].ip)
      BY <2>2
    <2>4. ~(k < n) /\ ~(n < k)
      BY <1>2, <2>1, <2>3 DEF Ordered
    <2> QED
      BY <1>2, <2>1, <2>4
  <1>6. last = {n}
    BY <1>2, <1>4, <1>5
  <1>7. Replay(table, failed)[m] = IF last = {} THEN table[m] ELSE peer[order[CHOOSE k \in last : TRUE]].ip
    BY DEF Replay
  <1> HIDE DEF last
  <1> QED
    BY <1>2, <1>6, <1>7

LEMMA StartSound ==
    ASSUME TypeOK, Sound, StartStep
    PROVE  Sound'
  <1>1. ASSUME ServerStart PROVE Sound'
    <2>1. UNCHANGED <<peer, order, state, token, wg, frame>> /\ NoNewClaim
      BY <1>1, ServerStartClaims
    <2>3. Rightful' /\ Recorded' /\ Ordered'
      BY <2>1 DEF Sound, Rightful, Recorded, Ordered, NoNewClaim
    <2>4. ASSUME NEW m \in Machines, NEW ip \in Address, Answered(m, ip)
          PROVE  ip <= MaxHost /\ (OnePeer(m) /\ m \notin skipped' => live'[m] # None)
      <3>1. ip <= MaxHost /\ Claimed(m, ip)
        BY <2>4 DEF Sound, Served, Answered, Claimed
      <3>2. PICK i \in Ids : peer[i] = [pubkey |-> m, ip |-> ip]
        BY <3>1 DEF Sound, Recorded
      <3>3. IsPeer(i, m) /\ peer[i].ip = ip
        BY <3>2, NoneAssumption, AddressIsNat DEF IsPeer
      <3>4. ASSUME OnePeer(m), m \notin skipped', WithInterface PROVE live'[m] # None
        <4>1. PICK table \in {live, NoKeys}, failed \in SUBSET Ids :
                 /\ live' = Replay(table, failed)
                 /\ skipped' = {h \in Machines : live'[h] = None /\ \E j \in failed : IsPeer(j, h)}
          BY <3>4 DEF WithInterface
        <4>2. CASE i \in failed
          BY <3>3, <3>4, <4>1, <4>2
        <4>3. CASE i \notin failed
          <5>1. live'[m] = ip
            BY <3>1, <3>3, <3>4, <4>1, <4>3, ReplayServes DEF Sound
          <5> QED
            BY <5>1, AddressIsNat
        <4> QED
          BY <4>2, <4>3
      <3>5. WithoutInterface => m \in skipped'
        BY <3>3 DEF WithoutInterface
      <3> QED
        BY <1>1, <3>1, <3>4, <3>5 DEF ServerStart
    <2>5. Served'
      BY <2>1, <2>4 DEF Served, Answered, OnePeer, IsPeer
    <2> QED
      BY <2>3, <2>5 DEF Sound
  <1>2. ASSUME NEW h \in Machines, ClientStart(h) PROVE Sound'
    <2>1. NoNewAnswer
      BY <1>2, ClientStartClaims DEF NoNewAnswer, Answered, Idle
    <2>2. Rightful'
      BY <1>2, ClientStartClaims DEF Sound, Rightful, Idle
    <2> QED
      BY <1>2, <2>1, <2>2, ClientStartClaims, QuietSound DEF Sound
  <1> QED
    BY <1>1, <1>2 DEF StartStep

(* A registration of a client id whose token only m has finds m's peer or  *)
(* none: it adds a peer at the end, with an address above all the others,  *)
(* or changes nothing.                                                     *)
LEMMA PeerAdded ==
    ASSUME TypeOK, Apart, Sound, OneHolder, NEW i \in Ids, NEW m \in Holders[i], m \in Machines,
           NEW ip \in Address, Allocate(i, m, ip)
    PROVE  /\ peer'[i] = [pubkey |-> m, ip |-> ip]
           /\ \A j \in Ids : peer[j] # None => peer'[j] = peer[j]
           /\ \A j \in Ids \ {i} : peer'[j] = peer[j]
           /\ Ordered'
  <1>0. /\ peer'[i] = [pubkey |-> m, ip |-> ip]
        /\ \A j \in Ids \ {i} : peer'[j] = peer[j]
    BY AllocateTyped DEF TypeOK, ServerTyped
  <1>1. CASE UNCHANGED <<peer, order, nextHost>>
    BY <1>0, <1>1 DEF Sound, Ordered
  <1>2. CASE ~IsPeer(i, m)
    <2>1. peer[i] = None
      BY <1>2 DEF Sound, Rightful, OneHolder, IsPeer
    <2>2. ip = nextHost /\ order' = Append(order, i)
      BY <1>2, <2>1 DEF Allocate
    <2>3. order \in Seq({j \in Ids : peer[j] # None})
      BY DEF TypeOK
    <2> DEFINE L == Len(order)
    <2>4. /\ L \in Nat /\ Len(order') = L + 1 /\ order'[L + 1] = i
          /\ \A n \in 1 .. L : order'[n] = order[n]
          /\ \A n \in 1 .. L : order[n] \in Ids /\ peer[order[n]] # None
      BY <2>2, <2>3, AppendProperties, LenProperties, ElementOfSeq
    <2>5. ASSUME NEW n \in 1 .. L PROVE peer'[order'[n]] = peer[order[n]] /\ peer[order[n]].ip < ip
      <3>1. order[n] \in Ids /\ peer[order[n]] \in Peer /\ order[n] # i
        BY <2>1, <2>4 DEF TypeOK
      <3>2. PICK h \in Machines, a \in Address : peer[order[n]] = [pubkey |-> h, ip |-> a]
        BY <3>1 DEF Peer
      <3>3. Claimed(h, a)
        BY <3>1, <3>2 DEF Claimed
      <3> QED
        BY <1>0, <2>2, <2>4, <3>1, <3>2, <3>3 DEF Apart, Below
    <2>6. \A n, k \in 1 .. L + 1 : n < k => peer'[order'[n]].ip < peer'[order'[k]].ip
      <3>1. SUFFICES ASSUME NEW n \in 1 .. L + 1, NEW k \in 1 .. L + 1, n < k
                     PROVE  peer'[order'[n]].ip < peer'[order'[k]].ip
        OBVIOUS
      <3>2. n \in 1 .. L /\ (k \in 1 .. L \/ k = L + 1)
        BY <2>4, <3>1
      <3>3. CASE k = L + 1
        BY <1>0, <2>4, <2>5, <3>2, <3>3
      <3>4. CASE k \in 1 .. L
        BY <2>5, <3>1, <3>2, <3>4 DEF Sound, Ordered
      <3> QED
        BY <3>2, <3>3, <3>4
    <2>7. ASSUME NEW j \in Ids, peer'[j] # None PROVE \E n \in 1 .. L + 1 : order'[n] = j
      <3>1. CASE j = i
        BY <2>4, <3>1
      <3>2. CASE j # i
        <4>1. PICK n \in 1 .. L : order[n] = j
          BY <1>0, <2>7, <3>2 DEF Sound, Ordered
        <4> QED
          BY <2>4, <4>1
      <3> QED
        BY <3>1, <3>2
    <2>8. Ordered'
      BY <2>4, <2>6, <2>7 DEF Ordered
    <2> QED
      BY <1>0, <2>1, <2>8
  <1> QED
    BY <1>1, <1>2 DEF Allocate

LEMMA RegisterSound ==
    ASSUME TypeOK, Apart, Sound, OneHolder, NEW t \in Tasks, Register(t)
    PROVE  Sound'
  <1> DEFINE i == frame[t].id
             h == MachineOf[frame[t].entry]
             told(ip) == [pc |-> "told", entry |-> frame[t].entry, ip |-> ip]
  <1>1. i \in Ids /\ h \in Machines /\ h \in Holders[i]
    BY AskedIs, EntriesAssumption DEF Register, AskedFrame, TypeOK, FramesTyped, Sound, Rightful
  <1>2. PICK ip \in Address :
           /\ Allocate(i, h, ip)
           /\ \/ UNCHANGED <<live, skipped>>
              \/ live' = [live EXCEPT ![h] = ip] /\ skipped' = skipped \ {h}
           /\ \/ frame' = [frame EXCEPT ![t] = Idle]
              \/ /\ ip <= MaxHost /\ live' = [live EXCEPT ![h] = ip]
                 /\ frame' = [frame EXCEPT ![t] = told(ip)]
    BY DEF Register
  <1>3. /\ peer'[i] = [pubkey |-> h, ip |-> ip]
        /\ \A j \in Ids : peer[j] # None => peer'[j] = peer[j]
        /\ \A j \in Ids \ {i} : peer'[j] = peer[j]
        /\ Ordered'
    BY <1>1, <1>2, PeerAdded
  <1>4. UNCHANGED <<state, token, wg>>
    BY DEF Register, entries, kernel
  <1>5. \A u \in Tasks : frame'[u] \in {frame[u], Idle, told(ip)}
    BY <1>2 DEF TypeOK
  <1>6. Rightful'
    <2>1. \A u \in Tasks : frame'[u].pc = "asked" => frame'[u] = frame[u]
      BY <1>5 DEF Idle
    <2> QED
      BY <1>1, <1>3, <1>4, <2>1 DEF Sound, Rightful
  <1>7. Recorded'
    <2>1. \A m \in Machines : \A a \in Address :
             Claimed(m, a)' => Claimed(m, a) \/ (m = h /\ a = ip)
      BY <1>2, RegisterClaims
    <2>2. ASSUME NEW m \in Machines, NEW a \in Address, NEW j \in Ids, peer[j] = [pubkey |-> m, ip |-> a]
          PROVE  peer'[j] = [pubkey |-> m, ip |-> a]
      <3>1. [pubkey |-> m, ip |-> a] \in Peer
        BY DEF Peer
      <3> QED
        BY <1>3, <2>2, <3>1, AddressIsNat
    <2>3. SUFFICES ASSUME NEW m \in Machines, NEW a \in Address, Claimed(m, a)'
                   PROVE  \E j \in Ids : peer'[j] = [pubkey |-> m, ip |-> a]
      BY DEF Recorded
    <2>4. CASE Claimed(m, a)
      <3>1. PICK j \in Ids : peer[j] = [pubkey |-> m, ip |-> a]
        BY <2>4 DEF Sound, Recorded
      <3> QED
        BY <2>2, <3>1
    <2>5. CASE m = h /\ a = ip
      BY <1>1, <1>3, <2>5
    <2> QED
      BY <2>1, <2>3, <2>4, <2>5
  <1>8. Served'
    <2>1. ASSUME NEW m \in Machines, NEW a \in Address, Answered(m, a)'
          PROVE  Answered(m, a) \/ (m = h /\ a = ip /\ ip <= MaxHost /\ live'[h] = ip)
      <3>1. CASE \E e \in Entries : MachineOf[e] = m /\ wg'[e] = a
        BY <1>4, <3>1 DEF Answered
      <3>2. ASSUME NEW u \in Tasks, frame'[u].pc = "told", MachineOf[frame'[u].entry] = m, frame'[u].ip = a
            PROVE  Answered(m, a) \/ (m = h /\ a = ip /\ ip <= MaxHost /\ live'[h] = ip)
        <4>1. CASE frame'[u] = frame[u]
          BY <3>2, <4>1 DEF Answered
        <4>2. CASE frame'[u] # frame[u]
          BY <1>1, <1>2, <3>2, <4>2 DEF TypeOK, Idle
        <4> QED
          BY <4>1, <4>2
      <3> QED
        BY <2>1, <3>1, <3>2 DEF Answered
    <2>2. \A m \in Machines : OnePeer(m)' => OnePeer(m)
      BY <1>3 DEF OnePeer, IsPeer
    <2>3. \A m \in Machines : (live'[m] = live[m] /\ (m \notin skipped' => m \notin skipped)) \/ live'[m] = ip
      BY <1>1, <1>2 DEF TypeOK
    <2> QED
      BY <2>1, <2>2, <2>3, AddressIsNat DEF Sound, Served
  <1> QED
    BY <1>3, <1>6, <1>7, <1>8 DEF Sound

LEMMA RequestSound ==
    ASSUME TypeOK, Apart, Sound, OneHolder, RequestStep
    PROVE  Sound'
  <1>1. ASSUME NEW t \in Tasks, NotRegistered(t) PROVE Sound'
    <2>1. NoNewAnswer /\ Rightful'
      BY <1>1, NotRegisteredClaims DEF NoNewAnswer, Answered, Sound, Rightful, Idle
    <2> QED
      BY <1>1, <2>1, NotRegisteredClaims, QuietSound DEF Sound
  <1>2. ASSUME NEW t \in Tasks, Enabled(t) PROVE Sound'
    <2>1. NoNewAnswer /\ Rightful'
      BY <1>2, EnabledClaims DEF NoNewAnswer, Answered, Sound, Rightful, Idle
    <2> QED
      BY <1>2, <2>1, EnabledClaims, QuietSound DEF Sound
  <1> QED
    BY <1>1, <1>2, RegisterSound DEF RequestStep

(* All that a machine with one peer has is its peer's address.             *)
LEMMA SoundAgrees ==
    ASSUME TypeOK, Sound
    PROVE  TunnelsAgree
  <1>1. SUFFICES ASSUME NEW e \in Entries, wg[e] # None, OwnId(e)
                 PROVE  /\ \/ live[MachineOf[e]] = wg[e]
                           \/ live[MachineOf[e]] = None /\ MachineOf[e] \in skipped
                        /\ iface[e] \in {None, wg[e]}
    BY DEF TunnelsAgree
  <1> DEFINE m == MachineOf[e]
  <1>2. m \in Machines /\ wg[e] \in Address
    BY <1>1, EntriesAssumption DEF TypeOK
  <1>3. \A j \in Ids : IsPeer(j, m) => j = token[e]
    BY <1>1 DEF OwnId, IsPeer
  <1>4. ASSUME NEW a \in Address, Claimed(m, a) PROVE peer[token[e]].ip = a
    <2>1. PICK j \in Ids : peer[j] = [pubkey |-> m, ip |-> a]
      BY <1>2, <1>4 DEF Sound, Recorded
    <2>2. [pubkey |-> m, ip |-> a] \in Peer
      BY <1>2 DEF Peer
    <2>3. j = token[e]
      BY <1>3, <2>1, <2>2, AddressIsNat DEF IsPeer
    <2> QED
      BY <2>1, <2>3
  <1>5. \A a \in Address : Claimed(m, a) => a = wg[e]
    <2>1. Claimed(m, wg[e])
      BY DEF Claimed
    <2> HIDE DEF m
    <2>2. \A a \in Address : Claimed(m, a) => peer[token[e]].ip = a
      BY <1>4
    <2>3. peer[token[e]].ip = wg[e]
      BY <1>2, <2>1, <2>2
    <2> QED
      BY <2>2, <2>3
  <1>6. m \notin skipped => live[m] # None
    <2>1. Answered(m, wg[e]) /\ OnePeer(m)
      BY <1>3 DEF Answered, OnePeer
    <2> QED
      BY <1>2, <2>1 DEF Sound, Served
  <1>7. live[m] # None => live[m] \in Address /\ Claimed(m, live[m])
    BY <1>2 DEF TypeOK, Claimed
  <1>8. iface[e] # None => iface[e] \in Address /\ Claimed(m, iface[e])
    BY DEF TypeOK, Claimed
  <1> QED
    BY <1>5, <1>6, <1>7, <1>8

(* If every token is used on one machine, the tunnel that an entry has on  *)
(* record is the server's and the interface's: whatever is registered      *)
(* again, deleted, edited, lost, late or restarted, on either side.  The   *)
(* server's kernel may lack a key, never have another address for it, if   *)
(* the server's last start failed to set it (main.py:206-217).             *)
THEOREM OneTruth ==
    ASSUME OneHolder
    PROVE  Spec => []TunnelsAgree
  <1>1. Init => Sound
    <2>1. SUFFICES ASSUME Init PROVE Sound
      OBVIOUS
    <2>2. Recorded
      BY <2>1, InitUnclaimed DEF Recorded
    <2>3. Rightful /\ Ordered /\ Served
      BY <2>1, AddressIsNat DEF Init, Rightful, Ordered, Served, Answered, Idle
    <2> QED
      BY <2>2, <2>3 DEF Sound
  <1>2. TypeOK /\ Apart /\ Sound /\ [Next]_vars => Sound'
    <2>1. ASSUME Sound, UNCHANGED vars PROVE Sound'
      <3>1. NoNewClaim /\ NoNewAnswer /\ Rightful'
        BY <2>1 DEF vars, NoNewClaim, NoNewAnswer, Claimed, Answered, Sound, Rightful
      <3> QED
        BY <2>1, <3>1, QuietSound DEF vars, Sound
    <2> QED
      BY <2>1, OneHolder, AdminSound, UserSound, RequestSound, StartSound DEF Next
  <1>3. TypeOK /\ Sound => TunnelsAgree
    BY SoundAgrees
  <1> QED
    BY <1>1, <1>2, <1>3, ApartAlways, PTL DEF Spec
=============================================================================

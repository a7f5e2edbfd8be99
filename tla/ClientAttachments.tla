-------------------------- MODULE ClientAttachments --------------------------
(***************************************************************************)
(* The attachment table of the client application and everything that      *)
(* changes it: the web UI's handlers (client/app/main.py), the reconnect   *)
(* watchdog and the receiver of the servers' "device available" pushes     *)
(* (client/app/groups.py), over the host kernel's vhci ports and the       *)
(* servers' exports.                                                       *)
(*                                                                         *)
(* The client is one asyncio event loop.  A handler runs without           *)
(* interruption from one await on a server to the next, so an action is    *)
(* one such stretch of code: it ends when the task returns, raises, or     *)
(* waits for a server's answer.  frame[t] keeps what task t captured       *)
(* before it started to wait.  The subprocess calls (usbip attach, usbip   *)
(* detach) block the loop and are part of the step that makes them.        *)
(***************************************************************************)
EXTENDS Naturals, Sequences, FiniteSets

CONSTANTS
    AttIds,         \* ids of attachment records (uuid4 prefixes)
    Servers, Busids, Serials, Groups,
    CandidateLists, \* the candidate lists a user may give a group
    Flags,          \* the [auto_failover, auto_rebind_on_backoff] a user may pick
    Ports,          \* vhci port numbers of this host
    LocalBusids,    \* the busids of attached devices
    BusidOf,        \* the busid of the device attached to a port
    Watchdog, Pushes, Users,            \* tasks of the event loop
    BACKOFF_THRESHOLD, FORCE_REBIND_AFTER_FAILURES,
    Environments,   \* the worlds a model starts in, by name: see Environment
    FileOrder,      \* pairs of ids of which the first comes first in config.json
    Hanging,        \* servers whose usbip port may leave a connection unanswered
    None

Tasks   == {Watchdog} \cup Pushes \cup Users
Devices == Servers \X Busids

ASSUME TasksAssumption ==
    /\ Watchdog \notin Pushes \cup Users
    /\ Pushes \cap Users = {}

ASSUME ThresholdsAssumption ==
    /\ BACKOFF_THRESHOLD \in Nat \ {0}
    /\ FORCE_REBIND_AFTER_FAILURES \in Nat \ {0}

ASSUME ValuesAssumption ==
    /\ CandidateLists \subseteq Seq(Devices)
    /\ FileOrder \subseteq AttIds \X AttIds
    /\ Flags \subseteq [auto_failover : BOOLEAN, auto_rebind_on_backoff : BOOLEAN]
    /\ Hanging \subseteq Servers

(* vhci_hcd names a device for the port of the virtual root hub it is on,  *)
(* so a port number that is used again brings its local busid back.        *)
ASSUME LocalNamesAssumption ==
    /\ BusidOf \in [Ports -> LocalBusids]
    /\ \A p, q \in Ports : BusidOf[p] = BusidOf[q] => p = q

(* What a behaviour does not decide for itself: the servers and the devices *)
(* there are at first, the flags the user gives attachments, the external   *)
(* events that may happen, and (a bound) the ids there are for records.      *)
Environment ==
    [servers : [Servers -> {"new", "registered", "deleted"}],
     exports : [Devices -> {"absent", "unshared", "idle"}],
     serials : [Devices -> Serials \cup {None}],
     flags   : SUBSET Flags,
     events  : SUBSET {"drop", "stale", "zombie", "lag", "detachfails", "bindfails",
                       "lost", "late", "push", "detach", "edit", "servers", "others", "admin",
                       "outage", "renumber", "restart", "reboot"},
     ids     : SUBSET AttIds]

ASSUME EnvironmentsAssumption ==
    \A e \in DOMAIN Environments : Environments[e] \in Environment

ASSUME NoneAssumption ==
    None \notin AttIds \cup Servers \cup Busids \cup Serials \cup Groups \cup Ports \cup LocalBusids

VARIABLES
    env,        \* the environment, chosen at the start
    servers,    \* which servers are registered (config.json "servers")
    groups,     \* device groups (config.json "groups")
    att,        \* attachment records (config.json "attachments")
    vhci,       \* what each local port is attached to: usbip_client.live_port_map()
    export,     \* the servers' side: what holds each exported device
    serialAt,   \* the serial of the device now plugged in at each busid
    reach,      \* servers the network lets us reach
    snap,       \* dropped records the current watchdog tick still has to visit
    frame,      \* the suspended handler of each task
    grace,      \* within STARTUP_REBIND_GRACE_SECONDS of the process start
    requested   \* _startup_rebind_requested

vars == <<env, servers, groups, att, vhci, export, serialAt, reach, snap, frame, grace, requested>>

config == <<env, servers, groups>>
world  == <<vhci, export, serialAt, reach>>

Events == Environments[env].events

-----------------------------------------------------------------------------
(* Values.                                                                 *)

(* failure_count is capped one above the last value any test looks at.     *)
FailureCounts == 0 .. FORCE_REBIND_AFTER_FAILURES + BACKOFF_THRESHOLD

(* next_retry says that next_retry_at is set; whether that time has passed *)
(* is the clock's choice each time it is read.                             *)
Record == [server : Servers, busid : Busids, serial : Serials \cup {None},
           group : Groups \cup {None},
           auto_failover : BOOLEAN, auto_rebind_on_backoff : BOOLEAN,
           failure_count : FailureCounts, next_retry : BOOLEAN,
           port : Ports, local_busid : LocalBusids]

ASSUME NoRecordAssumption == None \notin Record

Group == [candidates : CandidateLists, auto_failover : BOOLEAN]

(* A server that is added again gets a new id, so it is another server.    *)
ServerStates == {"new", "registered", "deleted"}
Registered(s) == servers[s] = "registered"

(* export[d] is a port of this host when the session of that port holds d, *)
(* and "foreign" when another client does, or a client that is gone.       *)
ExportStates == {"absent", "unshared", "idle", "foreign"} \cup Ports

ASSUME PortsAssumption == Ports \cap {"absent", "unshared", "idle", "foreign"} = {}

Idle == [pc |-> "idle"]
Scan == [pc |-> "scan"]      \* the watchdog, between two attachments

NoSnap == [id \in AttIds |-> None]

(* The awaits: _candidate_status in attach_group (id is the record being   *)
(* restored, None for a user's attach), _find_relocated_busid,             *)
(* request_rebind, and the two of api_direct_attach.                       *)
GroupFrame == [pc : {"candidate"}, group : Groups, candidates : CandidateLists,
               untried : SUBSET Nat, auto_failover : BOOLEAN,
               id : AttIds \cup {None}, att : Record \cup {None},
               reply : [ok : BOOLEAN, serial : Serials \cup {None}] \cup {None}]
FindFrame   == [pc : {"find"}, id : AttIds, att : Record, busy : BOOLEAN,
                reply : [busid : Busids \cup {None}] \cup {None}]
RebindFrame == [pc : {"rebind"}, id : AttIds, device : Devices, reply : {"done", None}]
DirectFrame == [pc : {"lookup"}, device : Devices, flags : Flags,
                reply : [status : {"unreachable", "absent", "unshared", "idle", "in_use"},
                         serial : Serials \cup {None}] \cup {None}]
ShareFrame  == [pc : {"share"}, device : Devices, flags : Flags,
                serial : Serials \cup {None}, reply : {"done", "refused", None}]

Frame == {Idle, Scan} \cup GroupFrame \cup FindFrame \cup RebindFrame
                      \cup DirectFrame \cup ShareFrame

TypeOK ==
    /\ env \in DOMAIN Environments
    /\ servers \in [Servers -> ServerStates]
    /\ groups \in [Groups -> Group \cup {None}]
    /\ att \in [AttIds -> Record \cup {None}]
    /\ vhci \in [Ports -> LocalBusids \cup {None}]
    /\ export \in [Devices -> ExportStates]
    /\ serialAt \in [Devices -> Serials \cup {None}]
    /\ reach \subseteq Servers
    /\ snap \in [AttIds -> Record \cup {None}]
    /\ frame \in [Tasks -> Frame]
    /\ grace \in BOOLEAN
    /\ requested \subseteq AttIds

Init ==
    /\ env \in DOMAIN Environments
    /\ servers = Environments[env].servers
    /\ groups = [g \in Groups |-> None]
    /\ att = NoSnap
    /\ vhci = [p \in Ports |-> None]
    /\ export = Environments[env].exports
    /\ serialAt = Environments[env].serials
    /\ reach = Servers
    /\ snap = NoSnap
    /\ frame = [t \in Tasks |-> Idle]
    /\ grace = TRUE
    /\ requested = {}

-----------------------------------------------------------------------------
(* The host kernel: usbip attach, usbip detach, and what list_ports sees.  *)

(* Only one await-free stretch runs at a time, and the watchdog's tick     *)
(* keeps the loop between two attachments it does not have to wait for.    *)
LoopFree == frame[Watchdog] # Scan

(* att["port"] is live and still ours (groups.py: stored_local_busid ==    *)
(* live[port]).                                                            *)
IsLive(v, a) == v[a.port] = a.local_busid

FreePorts(v) == {p \in Ports : v[p] = None}

Refused(v, x, d) == d[1] \notin reach \/ x[d] # "idle" \/ FreePorts(v) = {}

(* The <<port, local busid>> pairs a successful usbip attach may produce   *)
(* when the ports are v and the exports x.                                 *)
Attachable(v, x, d) ==
    IF Refused(v, x, d) THEN {} ELSE {<<p, BusidOf[p]>> : p \in FreePorts(v)}

Occupy(v, pb)     == [v EXCEPT ![pb[1]] = pb[2]]
Export(x, d, pb)  == [x EXCEPT ![d] = pb[1]]

(* "Device busy (exported)"                                                *)
Busy(x, d) == d[1] \in reach /\ x[d] \in Ports \cup {"foreign"}

(* <<ports, exports>> after a usbip attach that ends in UsbipCommandError: *)
(* refused, or accepted but slower than the 3 seconds attach() polls.      *)
AttachErrors(v, x, d) ==
    IF Refused(v, x, d) THEN {<<v, x>>}
    ELSE IF "lag" \in Events
         THEN {<<Occupy(v, pb), Export(x, d, pb)>> : pb \in Attachable(v, x, d)}
         ELSE {}

(* A host that is off, or a port whose packets a firewall drops, runs into *)
(* run()'s 30 s timeout: subprocess.TimeoutExpired, which is not a         *)
(* UsbipCommandError.                                                      *)
AttachHangs(d) == d[1] \in Hanging

(* <<ports, exports>> after a successful usbip detach of port p.  A server *)
(* that never hears of it keeps the export in use ("stale").               *)
DetachResults(v, x, p) ==
    {<<[v EXCEPT ![p] = None], [d \in Devices |-> IF x[d] = p THEN held ELSE x[d]]>> :
        held \in IF "stale" \in Events THEN {"idle", "foreign"} ELSE {"idle"}}

-----------------------------------------------------------------------------
(* How a stretch of a handler ends.  s is the tick's snapshot after it.    *)

Return(t, s) ==
    /\ snap' = s
    /\ frame' = [frame EXCEPT ![t] = IF t = Watchdog /\ s # NoSnap THEN Scan ELSE Idle]

Await(t, s, f) ==
    /\ snap' = s
    /\ frame' = [frame EXCEPT ![t] = f]

(* An exception nobody catches: watchdog_loop logs it and drops the rest   *)
(* of the tick, a request handler answers 500.                             *)
Raise(t, s) ==
    /\ snap' = IF t = Watchdog THEN NoSnap ELSE s
    /\ frame' = [frame EXCEPT ![t] = Idle]

-----------------------------------------------------------------------------
(* The failure count.                                                      *)

Bump(a) ==
    LET count == IF a.failure_count + 1 \in FailureCounts THEN a.failure_count + 1 ELSE a.failure_count
    IN  [a EXCEPT !.failure_count = count, !.next_retry = @ \/ count >= BACKOFF_THRESHOLD]

NoteReconnectFailure(A, id) ==
    IF A[id] = None THEN A ELSE [A EXCEPT ![id] = Bump(@)]

ResultCount(A, id) == IF A[id] = None THEN 0 ELSE A[id].failure_count

NoteReconnectSuccess(a) == [a EXCEPT !.failure_count = 0, !.next_retry = FALSE]

-----------------------------------------------------------------------------
(* attach_group.  id and a are the record being restored; None for a       *)
(* user's call.                                                            *)

(* Mutant: a failed restore does not put the record back.                  *)
PutBackNot(A, id, a) == A

(* The restore's except branch: the captured record goes back, one failure *)
(* up.  A user's call only reports the error.                              *)
PutBack(A, id, a) == IF id = None THEN A ELSE [A EXCEPT ![id] = Bump(a)]

Reachable(g) == {i \in DOMAIN groups[g].candidates : Registered(groups[g].candidates[i][1])}

(* Unknown group, "group is already attached", or no candidate whose       *)
(* server is registered: refused before the first await.                   *)
GroupRefused(A, g) ==
    \/ groups[g] = None
    \/ \E i \in AttIds : A[i] # None /\ A[i].group = g
    \/ Reachable(g) = {}

(* A new record goes to the end of the file.                               *)
FreshIds ==
    {i \in AttIds : /\ i \in Environments[env].ids /\ att[i] = None /\ snap[i] = None
                    /\ \A j \in AttIds : <<i, j>> \in FileOrder => att[j] = None
                    /\ \A t \in Tasks : frame[t].pc \in {"candidate", "find", "rebind"} => frame[t].id # i}

(* Bound: new attaches and restores start only while there are ids left    *)
(* for them, for every attach under way and for the rest of the tick.      *)
Room(n) ==
    Cardinality(FreshIds) >=
        n + Cardinality({t \in Tasks : frame[t].pc \in {"candidate", "lookup", "share"}})
          + Cardinality({id \in AttIds : snap[id] # None /\ snap[id].group # None})

BeginAttachGroup(t, s, g, id, a, A) ==
    IF GroupRefused(A, g)
    THEN /\ att' = PutBack(A, id, a)
         /\ Return(t, s)
    ELSE /\ att' = A
         /\ Await(t, s, [pc |-> "candidate", group |-> g, candidates |-> groups[g].candidates,
                         untried |-> Reachable(g), auto_failover |-> groups[g].auto_failover,
                         id |-> id, att |-> a, reply |-> None])

(* Mutant: port and local busid swapped.                                   *)
NewRecordSwapped(d, serial, g, flags, pb) ==
    [server |-> d[1], busid |-> d[2], serial |-> serial, group |-> g,
     auto_failover |-> flags.auto_failover,
     auto_rebind_on_backoff |-> flags.auto_rebind_on_backoff,
     failure_count |-> 0, next_retry |-> FALSE, port |-> pb[2], local_busid |-> pb[1]]

NewRecord(d, serial, g, flags, pb) ==
    [server |-> d[1], busid |-> d[2], serial |-> serial, group |-> g,
     auto_failover |-> flags.auto_failover,
     auto_rebind_on_backoff |-> flags.auto_rebind_on_backoff,
     failure_count |-> 0, next_retry |-> FALSE, port |-> pb[1], local_busid |-> pb[2]]

(* The rest of the loop once the server has answered for candidate i.      *)
TryCandidate(t) ==
    LET f == frame[t] IN
    /\ f.pc = "candidate" /\ f.reply # None
    /\ \E i \in f.untried :
        LET d == f.candidates[i]
            rest == f.untried \ {i}
            next == IF rest = {}
                    THEN att' = PutBack(att, f.id, f.att) /\ Return(t, snap)
                    ELSE att' = att /\ Await(t, snap, [f EXCEPT !.untried = rest, !.reply = None])
        IN  /\ \A j \in rest : i < j
            /\ \/ f.reply.ok /\ \E pb \in Attachable(vhci, export, d), n \in FreshIds :
                    /\ att' = [att EXCEPT ![n] =
                          NewRecord(d, f.reply.serial, f.group,
                                    [auto_failover |-> f.auto_failover, auto_rebind_on_backoff |-> FALSE], pb)]
                    /\ vhci' = Occupy(vhci, pb) /\ export' = Export(export, d, pb)
                    /\ Return(t, snap)
               \/ f.reply.ok /\ \E o \in AttachErrors(vhci, export, d) :
                    vhci' = o[1] /\ export' = o[2] /\ next
               \/ f.reply.ok /\ AttachHangs(d) /\ UNCHANGED <<att, vhci, export>> /\ Raise(t, snap)
               \/ ~f.reply.ok /\ UNCHANGED <<vhci, export>> /\ next
    /\ UNCHANGED <<config, serialAt, reach, grace, requested>>

-----------------------------------------------------------------------------
(* _restore_dropped_attachment(id, a) over the store A, the ports v and    *)
(* the exports x: they differ from att, vhci and export when the push      *)
(* receiver has just changed them.                                         *)

(* The record has auto_failover off: it is dropped.                        *)
Forget(t, s, id, A, v, x) ==
    /\ att' = [A EXCEPT ![id] = None]
    /\ vhci' = v /\ export' = x
    /\ UNCHANGED requested
    /\ Return(t, s)

(* The dead record is popped so that attach_group does not refuse.         *)
RestoreGroup(t, s, id, a, A, v, x) ==
    /\ BeginAttachGroup(t, s, a.group, id, a, [A EXCEPT ![id] = None])
    /\ vhci' = v /\ export' = x
    /\ UNCHANGED requested

(* Mutants: the record keeps its old port, or its old busid.               *)
ReattachedOldPort(t, s, id, a, A, v, x, d) ==
    \E pb \in Attachable(v, x, d) :
        /\ att' = [A EXCEPT ![id] = NoteReconnectSuccess(
                      [a EXCEPT !.busid = d[2], !.local_busid = pb[2]])]
        /\ vhci' = Occupy(v, pb) /\ export' = Export(x, d, pb)
        /\ UNCHANGED requested
        /\ Return(t, s)

ReattachedOldBusid(t, s, id, a, A, v, x, d) ==
    \E pb \in Attachable(v, x, d) :
        /\ att' = [A EXCEPT ![id] = NoteReconnectSuccess(
                      [a EXCEPT !.port = pb[1], !.local_busid = pb[2]])]
        /\ vhci' = Occupy(v, pb) /\ export' = Export(x, d, pb)
        /\ UNCHANGED requested
        /\ Return(t, s)

(* The new record is the captured one with the new port, stored whether or *)
(* not the store still has one under this id.                              *)
Reattached(t, s, id, a, A, v, x, d) ==
    \E pb \in Attachable(v, x, d) :
        /\ att' = [A EXCEPT ![id] = NoteReconnectSuccess(
                      [a EXCEPT !.busid = d[2], !.port = pb[1], !.local_busid = pb[2]])]
        /\ vhci' = Occupy(v, pb) /\ export' = Export(x, d, pb)
        /\ UNCHANGED requested
        /\ Return(t, s)

(* Mutants: a rebind at every failure from the limit on, or only in the    *)
(* startup window; a record dropped by a failed attempt.                   *)
FailDirectRepeating(t, s, id, a, A, d, busy) ==
    LET A1 == NoteReconnectFailure(A, id)
    IN  /\ att' = A1
        /\ UNCHANGED requested
        /\ IF a.auto_rebind_on_backoff /\ ResultCount(A1, id) >= FORCE_REBIND_AFTER_FAILURES
           THEN Await(t, s, [pc |-> "rebind", id |-> id, device |-> d, reply |-> None])
           ELSE Return(t, s)

FailDirectStartupOnly(t, s, id, a, A, d, busy) ==
    LET startup == a.auto_rebind_on_backoff /\ busy /\ id \notin requested /\ grace
    IN  /\ att' = NoteReconnectFailure(A, id)
        /\ requested' = IF startup THEN requested \cup {id} ELSE requested
        /\ IF startup
           THEN Await(t, s, [pc |-> "rebind", id |-> id, device |-> d, reply |-> None])
           ELSE Return(t, s)

FailDirectForgetful(t, s, id, a, A, d, busy) ==
    /\ att' = [A EXCEPT ![id] = None]
    /\ UNCHANGED requested
    /\ Return(t, s)

(* _note_reconnect_failure, then _maybe_force_rebind for device d: its     *)
(* tests read the captured record and the count just noted.                *)
FailDirect(t, s, id, a, A, d, busy) ==
    LET A1 == NoteReconnectFailure(A, id)
        atLimit == ResultCount(A1, id) = FORCE_REBIND_AFTER_FAILURES
        startup == busy /\ id \notin requested /\ grace
    IN  /\ att' = A1
        /\ requested' = IF a.auto_rebind_on_backoff /\ ~atLimit /\ startup
                        THEN requested \cup {id} ELSE requested
        /\ IF a.auto_rebind_on_backoff /\ (atLimit \/ startup)
           THEN Await(t, s, [pc |-> "rebind", id |-> id, device |-> d, reply |-> None])
           ELSE Return(t, s)

RestoreDirect(t, s, id, a, A, v, x) ==
    LET d == <<a.server, a.busid>> IN
    \/ /\ ~Registered(a.server)
       /\ att' = NoteReconnectFailure(A, id)
       /\ vhci' = v /\ export' = x
       /\ UNCHANGED requested
       /\ Return(t, s)
    \/ Registered(a.server) /\ Reattached(t, s, id, a, A, v, x, d)
    \/ /\ Registered(a.server) /\ AttachHangs(d)
       /\ att' = A /\ vhci' = v /\ export' = x
       /\ UNCHANGED requested
       /\ Raise(t, s)
    \/ /\ Registered(a.server)
       /\ \E o \in AttachErrors(v, x, d) : vhci' = o[1] /\ export' = o[2]
       /\ IF a.serial = None
          THEN FailDirect(t, s, id, a, A, d, Busy(x, d))
          ELSE /\ att' = A
               /\ UNCHANGED requested
               /\ Await(t, s, [pc |-> "find", id |-> id, att |-> a, busy |-> Busy(x, d), reply |-> None])

Restore(t, s, id, a, A, v, x) ==
    /\ \/ ~a.auto_failover /\ Forget(t, s, id, A, v, x)
       \/ a.auto_failover /\ a.group # None /\ RestoreGroup(t, s, id, a, A, v, x)
       \/ a.auto_failover /\ a.group = None /\ RestoreDirect(t, s, id, a, A, v, x)
    /\ UNCHANGED <<config, serialAt, reach, grace>>

(* _find_relocated_busid has its answer: retry at the new busid or give up.*)
TryRelocated(t) ==
    LET f == frame[t]
        d == <<f.att.server, f.reply.busid>>
    IN  /\ f.pc = "find" /\ f.reply # None
        /\ \/ /\ f.reply.busid = None
              /\ FailDirect(t, snap, f.id, f.att, att, <<f.att.server, f.att.busid>>, f.busy)
              /\ UNCHANGED <<vhci, export>>
           \/ f.reply.busid # None /\ Reattached(t, snap, f.id, f.att, att, vhci, export, d)
           \/ /\ f.reply.busid # None /\ AttachHangs(d)
              /\ UNCHANGED <<att, vhci, export, requested>>
              /\ Raise(t, snap)
           \/ /\ f.reply.busid # None
              /\ \E o \in AttachErrors(vhci, export, d) : vhci' = o[1] /\ export' = o[2]
              /\ FailDirect(t, snap, f.id, f.att, att, d, Busy(export, d))
        /\ UNCHANGED <<config, serialAt, reach, grace>>

(* request_rebind has returned or failed; either is only logged.           *)
RebindAnswered(t) ==
    /\ frame[t].pc = "rebind" /\ frame[t].reply # None
    /\ Return(t, snap)
    /\ UNCHANGED <<config, att, world, grace, requested>>

-----------------------------------------------------------------------------
(* The watchdog.                                                           *)

Dropped == {id \in AttIds : att[id] # None /\ ~IsLive(vhci, att[id])}

(* A tick copies the records and the live ports once.  The liveness test   *)
(* it makes later for each record reads only these two copies, so it is    *)
(* made here.  A tick that finds nothing to do changes nothing.            *)
WatchdogTick ==
    /\ frame[Watchdog] = Idle
    /\ Dropped # {}
    /\ Room(Cardinality({id \in Dropped : att[id].group # None}))
    /\ snap' = [id \in AttIds |-> IF id \in Dropped THEN att[id] ELSE None]
    /\ frame' = [frame EXCEPT ![Watchdog] = Scan]
    /\ UNCHANGED <<config, att, world, grace, requested>>

(* The records are visited in the order of the file; where FileOrder does  *)
(* not fix it, in any order.                                               *)
IsNext(id) == /\ frame[Watchdog] = Scan /\ snap[id] # None
              /\ \A j \in AttIds : <<j, id>> \in FileOrder => snap[j] = None

(* _watchdog_should_skip: next_retry_at is set and still ahead.            *)
WatchdogSkip(id) ==
    /\ IsNext(id)
    /\ snap[id].next_retry
    /\ Return(Watchdog, [snap EXCEPT ![id] = None])
    /\ UNCHANGED <<config, att, world, grace, requested>>

WatchdogRestore(id) ==
    /\ IsNext(id)
    /\ Restore(Watchdog, [snap EXCEPT ![id] = None], id, snap[id], att, vhci, export)

-----------------------------------------------------------------------------
(* reconnect_device: server s says that its device at busid b, with this   *)
(* serial, is available.  Of several records that match, the first in the  *)
(* file is taken; the model takes any.                                     *)

Matches(id, s, b)   == att[id] # None /\ att[id].server = s /\ att[id].busid = b
Relocated(id, s, n) == /\ n # None /\ att[id] # None
                       /\ att[id].server = s /\ att[id].serial = n
                       /\ ~IsLive(vhci, att[id])

(* The match by busid: a port that is still ours is detached first, and    *)
(* the attempt goes on when that fails.                                    *)
PushMatched(t, id, s, b) ==
    /\ Matches(id, s, b)
    /\ \/ /\ IsLive(vhci, att[id])
          /\ \E o \in DetachResults(vhci, export, att[id].port) :
                Restore(t, snap, id, att[id], att, o[1], o[2])
       \/ /\ ~IsLive(vhci, att[id]) \/ "detachfails" \in Events
          /\ Restore(t, snap, id, att[id], att, vhci, export)

(* The fallback by serial: the record moves to the pushed busid.           *)
PushRelocated(t, id, s, b, n) ==
    LET a == [att[id] EXCEPT !.busid = b] IN
    /\ \A i \in AttIds : ~Matches(i, s, b)
    /\ Relocated(id, s, n)
    /\ Restore(t, snap, id, a, [att EXCEPT ![id] = a], vhci, export)

Push(t, s, b, n) ==
    /\ LoopFree /\ t \in Pushes /\ frame[t] = Idle
    /\ Registered(s)
    /\ \E id \in AttIds :
        /\ att[id] # None /\ att[id].group # None => Room(1)
        /\ PushMatched(t, id, s, b) \/ PushRelocated(t, id, s, b, n)

-----------------------------------------------------------------------------
(* The web UI's handlers.                                                  *)

(* api_direct_attach, up to its first await.                               *)
DirectAttach(t, d, flags) ==
    /\ LoopFree /\ t \in Users /\ frame[t] = Idle
    /\ Registered(d[1])
    /\ Room(1)
    /\ Await(t, snap, [pc |-> "lookup", device |-> d, flags |-> flags, reply |-> None])
    /\ UNCHANGED <<config, att, world, grace, requested>>

(* Its tail: attach, and a new record under a new id.                      *)
DirectTail(t, d, flags, serial) ==
    \/ \E pb \in Attachable(vhci, export, d), n \in FreshIds :
         /\ att' = [att EXCEPT ![n] = NewRecord(d, serial, None, flags, pb)]
         /\ vhci' = Occupy(vhci, pb) /\ export' = Export(export, d, pb)
         /\ Return(t, snap)
    \/ \E o \in AttachErrors(vhci, export, d) :
         /\ vhci' = o[1] /\ export' = o[2]
         /\ UNCHANGED att
         /\ Return(t, snap)
    \/ AttachHangs(d) /\ UNCHANGED <<att, vhci, export>> /\ Raise(t, snap)

LookupAnswered(t) ==
    LET f == frame[t] IN
    /\ f.pc = "lookup" /\ f.reply # None
    /\ \/ f.reply.status = "idle" /\ DirectTail(t, f.device, f.flags, f.reply.serial)
       \/ /\ f.reply.status = "unshared"
          /\ Await(t, snap, [pc |-> "share", device |-> f.device, flags |-> f.flags,
                             serial |-> f.reply.serial, reply |-> None])
          /\ UNCHANGED <<att, vhci, export>>
       \/ /\ f.reply.status \in {"unreachable", "absent", "in_use"}
          /\ Return(t, snap)
          /\ UNCHANGED <<att, vhci, export>>
    /\ UNCHANGED <<config, serialAt, reach, grace, requested>>

ShareAnswered(t) ==
    LET f == frame[t] IN
    /\ f.pc = "share" /\ f.reply # None
    /\ \/ f.reply = "done" /\ DirectTail(t, f.device, f.flags, f.serial)
       \/ f.reply = "refused" /\ Return(t, snap) /\ UNCHANGED <<att, vhci, export>>
    /\ UNCHANGED <<config, serialAt, reach, grace, requested>>

(* api_attach_group; a refusal changes nothing.                            *)
AttachGroup(t, g) ==
    /\ LoopFree /\ t \in Users /\ frame[t] = Idle
    /\ ~GroupRefused(att, g)
    /\ Room(1)
    /\ BeginAttachGroup(t, snap, g, None, None, att)
    /\ UNCHANGED <<config, world, grace, requested>>

(* api_detach and detach_group: the port on record is detached, whatever   *)
(* is on it now.  usbip detach of a port that is free fails, and then the  *)
(* record stays.                                                           *)
Detach(id) ==
    /\ LoopFree
    /\ att[id] # None /\ vhci[att[id].port] # None
    /\ \E o \in DetachResults(vhci, export, att[id].port) : vhci' = o[1] /\ export' = o[2]
    /\ att' = [att EXCEPT ![id] = None]
    /\ UNCHANGED <<config, serialAt, reach, snap, frame, grace, requested>>

UpdateAttachment(id, flags) ==
    /\ LoopFree
    /\ att[id] # None
    /\ att' = [att EXCEPT ![id].auto_failover = flags.auto_failover,
                          ![id].auto_rebind_on_backoff = flags.auto_rebind_on_backoff]
    /\ UNCHANGED <<config, world, snap, frame, grace, requested>>

AddServer(s) ==
    /\ LoopFree
    /\ servers[s] = "new"
    /\ servers' = [servers EXCEPT ![s] = "registered"]
    /\ UNCHANGED <<env, groups, att, world, snap, frame, grace, requested>>

DeleteServer(s) ==
    /\ LoopFree
    /\ Registered(s)
    /\ \A id \in AttIds : att[id] # None => att[id].server # s
    /\ servers' = [servers EXCEPT ![s] = "deleted"]
    /\ UNCHANGED <<env, groups, att, world, snap, frame, grace, requested>>

(* api_create_group and api_update_group: every candidate's server must be *)
(* registered, and a group in use cannot be changed.                       *)
SaveGroup(g, candidates, auto_failover) ==
    /\ LoopFree
    /\ candidates # <<>>
    /\ \A i \in DOMAIN candidates : Registered(candidates[i][1])
    /\ \A id \in AttIds : att[id] # None => att[id].group # g
    /\ groups' = [groups EXCEPT ![g] = [candidates |-> candidates, auto_failover |-> auto_failover]]
    /\ UNCHANGED <<env, servers, att, world, snap, frame, grace, requested>>

DeleteGroup(g) ==
    /\ LoopFree
    /\ groups[g] # None
    /\ \A id \in AttIds : att[id] # None => att[id].group # g
    /\ groups' = [groups EXCEPT ![g] = None]
    /\ UNCHANGED <<env, servers, att, world, snap, frame, grace, requested>>

-----------------------------------------------------------------------------
(* The servers.  Serve(t) handles the request task t waits for; what it    *)
(* reads may be out of date by the time the task runs again.               *)

(* Device d leaves whoever held it.  A session of ours on it ends: its     *)
(* port is freed, or goes on looking attached ("zombie").                  *)
Sever(d, state) ==
    /\ export' = [export EXCEPT ![d] = state]
    /\ \/ export[d] \in Ports /\ vhci' = [vhci EXCEPT ![export[d]] = None]
       \/ (export[d] \in Ports => "zombie" \in Events) /\ UNCHANGED vhci

Answer(t, r) == frame' = [frame EXCEPT ![t].reply = r]

Status(d) ==
    IF d[1] \notin reach THEN "unreachable"
    ELSE IF export[d] \in {"absent", "unshared", "idle"} THEN export[d] ELSE "in_use"

ServeCandidate(t) ==
    LET f == frame[t] IN
    /\ f.pc = "candidate"
    /\ \E i \in f.untried :
         /\ \A j \in f.untried : i <= j
         /\ Answer(t, [ok |-> Status(f.candidates[i]) = "idle",
                       serial |-> IF Status(f.candidates[i]) = "idle"
                                  THEN serialAt[f.candidates[i]] ELSE None])
    /\ UNCHANGED <<vhci, export>>

(* The first other device in the list with the serial, if it is idle.      *)
ServeFind(t) ==
    LET f == frame[t]
        moved == {b \in Busids \ {f.att.busid} :
                     /\ Status(<<f.att.server, b>>) \notin {"unreachable", "absent"}
                     /\ serialAt[<<f.att.server, b>>] = f.att.serial}
    IN  /\ f.pc = "find"
        /\ \/ \E b \in moved :
                Answer(t, [busid |-> IF Status(<<f.att.server, b>>) = "idle" THEN b ELSE None])
           \/ moved = {} /\ Answer(t, [busid |-> None])
        /\ UNCHANGED <<vhci, export>>

ServeLookup(t) ==
    LET d == frame[t].device IN
    /\ frame[t].pc = "lookup"
    /\ Answer(t, [status |-> Status(d),
                  serial |-> IF Status(d) \in {"unshared", "idle"} THEN serialAt[d] ELSE None])
    /\ UNCHANGED <<vhci, export>>

(* request-share binds a device that is unshared and refuses any other; an *)
(* answer lost on the way back reads as a refusal.                         *)
ServeShare(t) ==
    LET d == frame[t].device IN
    /\ frame[t].pc = "share"
    /\ \/ /\ Status(d) = "unshared"
          /\ export' = [export EXCEPT ![d] = "idle"]
          /\ \/ Answer(t, "done")
             \/ "lost" \in Events /\ Answer(t, "refused")
       \/ Status(d) # "unshared" /\ Answer(t, "refused") /\ UNCHANGED export
    /\ UNCHANGED vhci

(* rebind unbinds the device, whoever holds it, and binds it again; a      *)
(* device that is not bound cannot be unbound.                             *)
ServeRebind(t) ==
    LET d == frame[t].device IN
    /\ frame[t].pc = "rebind"
    /\ Answer(t, "done")
    /\ \/ Status(d) \in {"unreachable", "absent", "unshared"} /\ UNCHANGED <<vhci, export>>
       \/ Status(d) \in {"idle", "in_use"} /\ Sever(d, "idle")
       \/ "bindfails" \in Events /\ Status(d) \in {"idle", "in_use"} /\ Sever(d, "unshared")

Serve(t) ==
    /\ frame[t].pc \notin {"idle", "scan"} /\ frame[t].reply = None
    /\ \/ ServeCandidate(t) \/ ServeFind(t) \/ ServeLookup(t)
       \/ ServeShare(t) \/ ServeRebind(t)
    /\ UNCHANGED <<config, att, serialAt, reach, snap, grace, requested>>

Resume(t) ==
    /\ LoopFree
    /\ \/ TryCandidate(t) \/ TryRelocated(t) \/ RebindAnswered(t)
       \/ LookupAnswered(t) \/ ShareAnswered(t)

-----------------------------------------------------------------------------
(* External events.                                                        *)

(* A session of ours breaks: the server notices, or keeps a stale export.  *)
Drop(d) ==
    /\ export[d] \in Ports
    /\ \/ Sever(d, "idle")
       \/ "stale" \in Events /\ Sever(d, "foreign")
    /\ UNCHANGED <<serialAt, reach>>

(* The kernel gives up on a port whose session is gone.                    *)
Reap(p) ==
    /\ vhci[p] # None /\ \A d \in Devices : export[d] # p
    /\ vhci' = [vhci EXCEPT ![p] = None]
    /\ UNCHANGED <<export, serialAt, reach>>

(* Another client attaches a device, or lets it go.                        *)
Grab(d) ==
    /\ export[d] = "idle"
    /\ export' = [export EXCEPT ![d] = "foreign"]
    /\ UNCHANGED <<vhci, serialAt, reach>>

Release(d) ==
    /\ export[d] = "foreign"
    /\ export' = [export EXCEPT ![d] = "idle"]
    /\ UNCHANGED <<vhci, serialAt, reach>>

(* The server's admin, or its own watchdog, shares or unshares a device.   *)
Bind(d) ==
    /\ export[d] = "unshared"
    /\ export' = [export EXCEPT ![d] = "idle"]
    /\ UNCHANGED <<vhci, serialAt, reach>>

Unbind(d) ==
    /\ export[d] \notin {"absent", "unshared"}
    /\ Sever(d, "unshared")
    /\ UNCHANGED <<serialAt, reach>>

(* A device turns up under another busid of its server.                    *)
Renumber(s, from, to) ==
    LET d == <<s, from>>  e == <<s, to>> IN
    /\ export[d] # "absent" /\ export[e] = "absent"
    /\ export' = [export EXCEPT ![d] = "absent", ![e] = "unshared"]
    /\ \/ export[d] \in Ports /\ vhci' = [vhci EXCEPT ![export[d]] = None]
       \/ (export[d] \in Ports => "zombie" \in Events) /\ UNCHANGED vhci
    /\ serialAt' = [serialAt EXCEPT ![d] = None, ![e] = serialAt[d]]
    /\ UNCHANGED reach

Outage(s) == s \in reach /\ reach' = reach \ {s} /\ UNCHANGED <<vhci, export, serialAt>>
Heal(s)   == s \notin reach /\ reach' = reach \cup {s} /\ UNCHANGED <<vhci, export, serialAt>>

WorldStep ==
    /\ \/ \E d \in Devices :
            \/ "drop" \in Events /\ Drop(d)
            \/ "others" \in Events /\ (Grab(d) \/ Release(d))
            \/ "admin" \in Events /\ (Bind(d) \/ Unbind(d))
       \/ \E p \in Ports : "zombie" \in Events /\ Reap(p)
       \/ \E s \in Servers :
            \/ "outage" \in Events /\ (Outage(s) \/ Heal(s))
            \/ "renumber" \in Events /\ \E from, to \in Busids : Renumber(s, from, to)
    /\ UNCHANGED <<config, att, snap, frame, grace, requested>>

(* Without the flag nothing asks for the window.                           *)
GraceEnd ==
    /\ grace
    /\ \E flags \in Environments[env].flags : flags.auto_rebind_on_backoff
    /\ grace' = FALSE
    /\ UNCHANGED <<config, att, world, snap, frame, requested>>

(* The client process stops (on_shutdown cancels the watchdog wherever it  *)
(* waits) and starts again; the vhci ports survive.                        *)
ClientRestart ==
    /\ "restart" \in Events
    /\ snap' = NoSnap
    /\ frame' = [t \in Tasks |-> Idle]
    /\ grace' = TRUE
    /\ requested' = {}
    /\ UNCHANGED <<config, att, world>>

(* The host reboots: the ports are gone, and no server is told.            *)
HostReboot ==
    /\ "reboot" \in Events
    /\ vhci' = [p \in Ports |-> None]
    /\ export' = [d \in Devices |-> IF export[d] \in Ports THEN "foreign" ELSE export[d]]
    /\ snap' = NoSnap
    /\ frame' = [t \in Tasks |-> Idle]
    /\ grace' = TRUE
    /\ requested' = {}
    /\ UNCHANGED <<config, att, serialAt, reach>>

-----------------------------------------------------------------------------

WatchdogStep == WatchdogTick \/ \E id \in AttIds : WatchdogSkip(id) \/ WatchdogRestore(id)

(* A push carries the serial its server saw; a late one may be outdated.   *)
PushStep ==
    "push" \in Events /\ \E t \in Pushes, s \in Servers, b \in Busids :
        \E n \in IF "late" \in Events THEN Serials \cup {None} ELSE {serialAt[<<s, b>>]} :
            Push(t, s, b, n)

UserStep ==
    \/ \E t \in Users, d \in Devices, flags \in Environments[env].flags : DirectAttach(t, d, flags)
    \/ \E t \in Users, g \in Groups : AttachGroup(t, g)
    \/ \E id \in AttIds : "detach" \in Events /\ Detach(id)
    \/ \E id \in AttIds, flags \in Environments[env].flags : "edit" \in Events /\ UpdateAttachment(id, flags)
    \/ \E s \in Servers : "servers" \in Events /\ (AddServer(s) \/ DeleteServer(s))
    \/ \E g \in Groups, c \in CandidateLists, auto \in BOOLEAN : SaveGroup(g, c, auto)
    \/ \E g \in Groups : DeleteGroup(g)

TaskStep(t) == Serve(t) \/ Resume(t)

Next ==
    \/ WatchdogStep
    \/ PushStep
    \/ UserStep
    \/ \E t \in Tasks : TaskStep(t)
    \/ WorldStep
    \/ GraceEnd
    \/ ClientRestart
    \/ HostReboot

Spec == Init /\ [][Next]_vars

(* A backoff ends after at most BACKOFF_MAX_SECONDS, so that ticks which   *)
(* reach a record cannot skip it for ever.                                 *)
BackoffEnds(id) ==
    []<><<WatchdogSkip(id)>>_vars => []<><<WatchdogRestore(id)>>_vars

(* Servers answer or their calls time out, the loop runs what is ready,    *)
(* and the watchdog ticks for ever.                                        *)
Fairness ==
    /\ \A t \in Tasks : WF_vars(Serve(t)) /\ WF_vars(Resume(t))
    /\ WF_vars(WatchdogStep)
    /\ \A id \in AttIds : BackoffEnds(id)
    /\ WF_vars(GraceEnd)

FairSpec == Spec /\ Fairness

-----------------------------------------------------------------------------
(* Properties.                                                             *)

OnRecord(id) == att[id] # None

(* id is on record for device d, with the port that d is on.               *)
Connected(id, d) ==
    /\ OnRecord(id) /\ IsLive(vhci, att[id])
    /\ d = <<att[id].server, att[id].busid>> /\ export[d] = att[id].port

(* Whatever port a record believes live carries that record's own device   *)
(* and no other, also after relocations, pushes and stale write-backs, as  *)
(* long as there is no second record to take the port over.                *)
LiveRecordHasItsDevice ==
    \A id \in AttIds, d \in Devices :
        OnRecord(id) /\ IsLive(vhci, att[id]) /\ export[d] = att[id].port
            => d = <<att[id].server, att[id].busid>>

(* A device keeps its busid, a push the serial of the device it is about,  *)
(* and no two devices of a server have the same serial.                    *)
DevicesStay ==
    /\ Events \cap {"renumber", "late"} = {}
    /\ \A s \in Servers, b, c \in Busids :
         serialAt[<<s, b>>] # None /\ serialAt[<<s, b>>] = serialAt[<<s, c>>] => b = c

(* The servers have one device each, which may move from busid to busid.   *)
LoneDevices ==
    \A s \in Servers, b, c \in Busids :
        export[<<s, b>>] # "absent" /\ export[<<s, c>>] # "absent" => b = c

(* A device this host holds is on record, with the port it is on, so that  *)
(* the user can see it and detach it: no race of handlers leaves a session *)
(* nobody knows about, also when a port goes from one attachment to        *)
(* another and pushes cut sessions that are not theirs.  An attach that is *)
(* too slow does (AttachErrors), and a record that is dropped for having   *)
(* auto_failover off while its session lives: usbip detach has failed, or  *)
(* a tick goes by the flag of an older copy.  So does a restore that       *)
(* attaches a second device it takes for its own, by the serial, over a    *)
(* record a push has meanwhile brought back (groups.py:435).               *)
SessionsAreOnRecord ==
    Events \cap {"lag", "detachfails", "edit"} = {} /\ (DevicesStay \/ LoneDevices) =>
        \A d \in Devices : export[d] \in Ports => \E id \in AttIds : Connected(id, d)

(* "Detaching would kill someone else's live connection instead of         *)
(* clearing our own zombie" (groups.py:489-497): a push ends no session    *)
(* but that of a record for the device pushed.                             *)
SparingPush ==
    \A id \in AttIds, d \in Devices : Connected(id, d) /\ ~Connected(id, d)' =>
        \A t \in Pushes, s \in Servers, b \in Busids, n \in Serials \cup {None} :
            Push(t, s, b, n) => Matches(id, s, b)
PushSparesOthers == [][SparingPush]_vars

(* A direct attachment that is to be kept leaves the table only when the   *)
(* user detaches it, whatever fails or races (groups.py:364-368), unless   *)
(* the current tick copied its record before the user asked to keep it.    *)
KeptUntilDetached ==
    [][\A id \in AttIds :
          /\ OnRecord(id) /\ att[id].group = None /\ att[id].auto_failover
          /\ snap[id] = None \/ snap[id].auto_failover
          /\ att'[id] = None
        => Detach(id)]_vars

(* "Fires once per drop-out" (groups.py:55): outside the startup fast path *)
(* a rebind is requested only as the count of a direct attachment reaches  *)
(* the limit from below, and the count falls only when the attachment is   *)
(* live again, even with the watchdog and a push failing side by side.     *)
OneRebindPerDropout ==
    [][/\ \A t \in Tasks :
            frame[t].pc # "rebind" /\ frame'[t].pc = "rebind" =>
              LET id == frame'[t].id IN
              \/ id \in requested' \ requested
              \/ /\ OnRecord(id) /\ att[id].failure_count < FORCE_REBIND_AFTER_FAILURES
                 /\ att'[id].failure_count = FORCE_REBIND_AFTER_FAILURES
       /\ \A id \in AttIds :
            OnRecord(id) /\ att[id].group = None /\ att'[id] # None
              /\ att'[id].failure_count < att[id].failure_count => IsLive(vhci', att'[id])]_vars

(* A group is attached, or a handler is about to bring it back.            *)
Wanted(g) ==
    \/ \E id \in AttIds : OnRecord(id) /\ att[id].group = g
    \/ \E t \in Tasks : frame[t].pc = "candidate" /\ frame[t].group = g /\ frame[t].id # None

(* An attached group stays so, or on its way back, until the user detaches *)
(* it or its record is dropped for having auto_failover off, on record or  *)
(* in the copy the current tick goes by: "the record is only removed once  *)
(* a reattach actually succeeds" (groups.py:364).                          *)
GroupStaysWanted ==
    [][\A g \in Groups : Wanted(g) /\ ~Wanted(g)' =>
          \E id \in AttIds :
             /\ OnRecord(id) /\ att[id].group = g /\ att'[id] = None
             /\ \/ Detach(id)
                \/ ~att[id].auto_failover
                \/ snap[id] # None /\ ~snap[id].auto_failover]_vars

(* "attach_group() refuses to run if it sees any attachment record for     *)
(* this group_id" (groups.py:377): a group is attached at most once.       *)
OneRecordPerGroup ==
    \A i, j \in AttIds :
        OnRecord(i) /\ OnRecord(j) /\ att[i].group # None /\ att[i].group = att[j].group => i = j

(* A direct attachment can come back: its server is registered and can be  *)
(* reached, the process has been up for longer than its startup window, no *)
(* other device is on the port it had, and its device is idle or ours, at  *)
(* the busid on record or where its serial is now; or it is stuck in a     *)
(* stale export that the attachment may clear, and the one request for     *)
(* that is still ahead.                                                    *)
Recoverable(id) ==
    /\ OnRecord(id) /\ att[id].group = None /\ att[id].auto_failover
    /\ Registered(att[id].server) /\ att[id].server \in reach \ Hanging
    /\ ~grace
    /\ \A d \in Devices : export[d] = att[id].port => d = <<att[id].server, att[id].busid>>
    /\ \E b \in Busids : LET d == <<att[id].server, b>> IN
         \/ /\ b = att[id].busid \/ (att[id].serial # None /\ serialAt[d] = att[id].serial)
            /\ export[d] \in {"idle"} \cup Ports
         \/ b = att[id].busid /\ att[id].auto_rebind_on_backoff /\ export[d] = "foreign"

(* The request is ahead while the count is below the limit and no attempt  *)
(* is under way that read the record, or the device list, earlier.         *)
RebindAhead(id) ==
    \/ /\ att[id].failure_count < FORCE_REBIND_AFTER_FAILURES
       /\ snap[id] = None
       /\ \A t \in Tasks : frame[t].pc = "find" => frame[t].id # id
    \/ export[<<att[id].server, att[id].busid>>] # "foreign"

(* Any attachment with auto_failover set gets restored (groups.py:13-18).  *)
RecordsComeBack ==
    \A id \in AttIds :
        Recoverable(id) /\ RebindAhead(id) ~> (\E d \in Devices : Connected(id, d)) \/ ~Recoverable(id)
=============================================================================

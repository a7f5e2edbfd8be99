---------------------------- MODULE ServerShares ----------------------------
(***************************************************************************)
(* What the server shares (server/app/main.py): the list of shared busids  *)
(* and their last serials in server_config.json, the kernel's bindings,    *)
(* the admin's and the clients' requests, the startup pass and the         *)
(* watchdog that bind what is on the list, and the pushes that tell        *)
(* clients of a device that is available again.                            *)
(*                                                                         *)
(* As in the client, a handler is interrupted only where it awaits, which  *)
(* is in each push: frame[t] keeps what it read before.  The subprocess    *)
(* calls (usbip bind, unbind, list) block the loop.                        *)
(***************************************************************************)
EXTENDS Naturals, FiniteSets

CONSTANTS
    Busids,
    Devs,           \* the physical devices
    Serials,
    SerialOf,       \* the serial a device reports, None for many cheap ones
    Clients,        \* registered clients that have a token
    Watchdog,       \* the task that runs _ensure_shared_devices_bound
    Requests,       \* tasks that handle requests
    InitialPlug,    \* which device is at each busid at first
    Events,         \* the external events a model allows
    MaxRestarts,    \* bound: how often the server stops
    None

Tasks == {Watchdog} \cup Requests

ASSUME TasksAssumption == Watchdog \notin Requests

ASSUME SerialsAssumption ==
    /\ None \notin Devs \cup Serials
    /\ SerialOf \in [Devs -> Serials \cup {None}]
    /\ InitialPlug \in [Busids -> Devs \cup {None}]

ASSUME RestartsAssumption == MaxRestarts \in Nat

VARIABLES
    plug,       \* the device at each busid
    bound,      \* busids bound to usbip-host
    shared,     \* shared_devices
    known,      \* known_serials
    clients,    \* the registered clients
    up,         \* startup is over: requests are served and the watchdog runs
    frame,      \* the suspended handler of each task
    restarts,   \* how often the server has stopped
    owed        \* pushes somebody has yet to send, as <<busid, client>>

vars  == <<plug, bound, shared, known, clients, up, frame, restarts, owed>>
store == <<shared, known, clients>>

-----------------------------------------------------------------------------

Known == [Busids -> Serials \cup {None}]

(* A pass over the list: what it read at its start, and the busids it has  *)
(* still to visit.  It holds the event loop ("scan") or waits for a push.  *)
PassFrame == [pc : {"scan", "push"}, list : SUBSET Busids, known : Known,
              todo : SUBSET Busids, busid : Busids \cup {None}, rest : SUBSET Clients]

RequestFrame == [pc : {"push"}, busid : Busids, rest : SUBSET Clients]

Idle == [pc |-> "idle"]

TypeOK ==
    /\ plug \in [Busids -> Devs \cup {None}]
    /\ bound \subseteq {b \in Busids : plug[b] # None}
    /\ shared \subseteq Busids
    /\ known \in Known
    /\ clients \subseteq Clients
    /\ up \in BOOLEAN
    /\ restarts \in 0 .. MaxRestarts
    /\ frame[Watchdog] \in PassFrame \cup {Idle}
    /\ \A t \in Requests : frame[t] \in RequestFrame \cup {Idle}
    /\ DOMAIN frame = Tasks
    /\ owed \subseteq bound \X Clients

Init ==
    /\ plug = InitialPlug
    /\ bound = {}
    /\ shared = {}
    /\ known = [b \in Busids |-> None]
    /\ clients = Clients
    /\ up = FALSE
    /\ restarts = 0
    /\ frame = [t \in Tasks |-> Idle]
    /\ owed = {}

Plugged == {b \in Busids : plug[b] # None}
SerialAt(b) == IF plug[b] = None THEN None ELSE SerialOf[plug[b]]

LoopFree == frame[Watchdog].pc # "scan"

(* A request may run: uvicorn serves none before startup is over.          *)
Free(t) == up /\ LoopFree /\ frame[t] = Idle

(* The pushes of one round go out one after the other, and the handler     *)
(* waits for each.                                                         *)
OwePushes(o, b) == {p \in o : p[1] # b} \cup ({b} \X clients)
Forgiven(o, b)  == {p \in o : p[1] # b}

-----------------------------------------------------------------------------
(* Requests.                                                               *)

AnswerAfterPushes(t, b) ==
    frame' = [frame EXCEPT ![t] =
        IF clients = {} THEN Idle ELSE [pc |-> "push", busid |-> b, rest |-> clients]]

(* api_share and api_request_share.  A device that is bound already cannot *)
(* be bound: the request fails and changes nothing.                        *)
Share(t, b) ==
    /\ Free(t)
    /\ b \in Plugged \ bound
    /\ bound' = bound \cup {b}
    /\ shared' = shared \cup {b}
    /\ known' = IF SerialAt(b) = None THEN known ELSE [known EXCEPT ![b] = SerialAt(b)]
    /\ owed' = OwePushes(owed, b)
    /\ AnswerAfterPushes(t, b)
    /\ UNCHANGED <<plug, clients, up, restarts>>

(* api_unshare: it never waits.                                            *)
Unshare(b) ==
    /\ up /\ LoopFree
    /\ b \in bound
    /\ bound' = bound \ {b}
    /\ shared' = shared \ {b}
    /\ owed' = Forgiven(owed, b)
    /\ UNCHANGED <<plug, known, clients, up, restarts, frame>>

(* api_rebind: unbind, then bind; only a device on the list is pushed.     *)
Rebind(t, b) ==
    /\ Free(t)
    /\ b \in bound
    /\ \/ /\ b \in shared
          /\ owed' = OwePushes(owed, b)
          /\ AnswerAfterPushes(t, b)
          /\ UNCHANGED bound
       \/ /\ b \notin shared
          /\ owed' = Forgiven(owed, b)
          /\ UNCHANGED <<bound, frame>>
       \/ /\ "bindfails" \in Events
          /\ bound' = bound \ {b}
          /\ owed' = Forgiven(owed, b)
          /\ UNCHANGED frame
    /\ UNCHANGED <<plug, store, up, restarts>>

AddClient(c) ==
    /\ up /\ LoopFree
    /\ c \notin clients
    /\ clients' = clients \cup {c}
    /\ UNCHANGED <<plug, bound, shared, known, up, restarts, frame, owed>>

DeleteClient(c) ==
    /\ up /\ LoopFree
    /\ c \in clients
    /\ clients' = clients \ {c}
    /\ owed' = {p \in owed : p[2] # c}
    /\ UNCHANGED <<plug, bound, shared, known, up, restarts, frame>>

-----------------------------------------------------------------------------
(* _ensure_shared_devices_bound: at startup (force) and from the watchdog. *)

(* by_serial: a device for every serial that is plugged in.  Of several    *)
(* with one serial it has the last in the list of devices, here any.       *)
BySerial ==
    {at \in [{SerialAt(n) : n \in Plugged} \ {None} -> Plugged] :
        \A s \in DOMAIN at : SerialAt(at[s]) = s}

(* Mutants: a share moves although its new busid is on the list already;   *)
(* only a device that is bound is found.                                   *)
RelocatedOnto(at) == {b \in shared \ Plugged : known[b] \in DOMAIN at}
RelocatedBound(at) ==
    {b \in shared \ Plugged : known[b] \in DOMAIN at /\ at[known[b]] \in bound \ shared}

(* The missing busids that move to where their serial is now.              *)
Relocated(at) ==
    {b \in shared \ Plugged : known[b] \in DOMAIN at /\ at[known[b]] \notin shared}

(* Mutants: the pass goes over all devices, or binds at startup only.      *)
ToVisitAll(list) == Plugged \ bound
ToVisitAtStartup(list) == IF up THEN {} ELSE list

(* At startup every device on the list; later those that are not bound.    *)
(* What is bound is read once, at the start of the pass.                   *)
ToVisit(list) == IF up THEN list \ bound ELSE list

(* Up to the loop: busids that are missing make way for those their        *)
(* serials have been found at.  The pass keeps the serials it read first.  *)
BeginPass ==
    /\ frame[Watchdog] = Idle
    /\ shared # {}
    /\ \E at \in BySerial :
         LET list == (shared \ Relocated(at)) \cup {at[known[b]] : b \in Relocated(at)}
         IN  /\ shared' = list
             /\ frame' = [frame EXCEPT ![Watchdog] =
                  [pc |-> "scan", list |-> list, known |-> known,
                   todo |-> ToVisit(list), busid |-> None, rest |-> {}]]
    /\ UNCHANGED <<plug, bound, known, clients, up, restarts, owed>>

(* Nothing is shared: startup is over at once.                             *)
NothingShared ==
    /\ ~up /\ frame[Watchdog] = Idle /\ shared = {}
    /\ up' = TRUE
    /\ UNCHANGED <<plug, bound, store, restarts, frame, owed>>

(* Mutant: the watchdog binds and tells nobody.                            *)
VisitSilently(b) ==
    LET f == frame[Watchdog] IN
    /\ f.pc = "scan" /\ b \in f.todo
    /\ bound' = IF b \in Plugged THEN bound \cup {b} ELSE bound
    /\ owed' = IF b \in Plugged \ bound THEN OwePushes(owed, b) ELSE owed
    /\ frame' = [frame EXCEPT ![Watchdog].todo = @ \ {b}]
    /\ UNCHANGED <<plug, store, up, restarts>>

(* One busid of the list.  A bind fails when the device is bound already,  *)
(* which makes no difference, or when there is none.                       *)
Visit(b) ==
    LET f == [frame[Watchdog] EXCEPT !.todo = @ \ {b}] IN
    /\ frame[Watchdog].pc = "scan" /\ b \in frame[Watchdog].todo
    /\ \/ /\ b \notin Plugged
          /\ frame' = [frame EXCEPT ![Watchdog] = f]
          /\ UNCHANGED <<bound, owed>>
       \/ /\ b \in Plugged
          /\ bound' = bound \cup {b}
          /\ owed' = OwePushes(owed, b)
          /\ frame' = [frame EXCEPT ![Watchdog] =
               IF clients = {} THEN f ELSE [f EXCEPT !.pc = "push", !.busid = b, !.rest = clients]]
    /\ UNCHANGED <<plug, store, up, restarts>>

(* Mutants: only the entries of unshared busids are dropped; the device    *)
(* instead of its serial.                                                  *)
RefreshedKept(f) == [b \in Busids |-> IF b \notin f.list THEN None ELSE f.known[b]]
RefreshedDevs(f) ==
    [b \in Busids |-> IF b \notin f.list THEN None
                      ELSE IF SerialAt(b) # None THEN plug[b] ELSE f.known[b]]

(* The serials of what the pass went over, from those it read at its start *)
(* and the devices there now.                                              *)
Refreshed(f) ==
    [b \in Busids |-> IF b \notin f.list THEN None
                      ELSE IF SerialAt(b) # None THEN SerialAt(b) ELSE f.known[b]]

(* The serials are written only when they differ from those read; at       *)
(* startup, requests are served from here on.                              *)
FinishPass ==
    LET f == frame[Watchdog] IN
    /\ f.pc = "scan" /\ f.todo = {}
    /\ known' = IF Refreshed(f) # f.known THEN Refreshed(f) ELSE known
    /\ up' = TRUE
    /\ frame' = [frame EXCEPT ![Watchdog] = Idle]
    /\ UNCHANGED <<plug, bound, shared, clients, restarts, owed>>

-----------------------------------------------------------------------------

(* notify_clients_device_available: the push to client c goes out and is   *)
(* answered, or its 5 seconds pass; either way the next one follows.       *)
PushTo(t, c) ==
    LET f == frame[t]
        rest == f.rest \ {c}
        after == IF rest # {} THEN [f EXCEPT !.rest = rest]
                 ELSE IF t = Watchdog THEN [f EXCEPT !.pc = "scan", !.busid = None, !.rest = {}]
                 ELSE Idle
    IN  /\ f.pc = "push" /\ c \in f.rest
        /\ owed' = owed \ {<<f.busid, c>>}
        /\ frame' = [frame EXCEPT ![t] = after]
        /\ UNCHANGED <<plug, bound, store, up, restarts>>

-----------------------------------------------------------------------------
(* External events.                                                        *)

(* A device leaves its busid and turns up at another, unbound.             *)
Renumber(from, to) ==
    /\ plug[from] # None /\ plug[to] = None
    /\ plug' = [plug EXCEPT ![from] = None, ![to] = plug[from]]
    /\ bound' = bound \ {from}
    /\ owed' = Forgiven(owed, from)
    /\ UNCHANGED <<store, up, restarts, frame>>

(* A reset takes a device from usbip-host where it is.                     *)
Reset(b) ==
    /\ b \in bound
    /\ bound' = bound \ {b}
    /\ owed' = Forgiven(owed, b)
    /\ UNCHANGED <<plug, store, up, restarts, frame>>

WorldStep ==
    \/ \E from, to \in Busids : "renumber" \in Events /\ Renumber(from, to)
    \/ \E b \in Busids : "reset" \in Events /\ Reset(b)

(* The server's process stops wherever its tasks are and starts again; the *)
(* bindings are the kernel's.  It may stop between the bind of a share and *)
(* the update of the list, or the unbind and the update.                   *)
Restart ==
    /\ "restart" \in Events
    /\ restarts < MaxRestarts /\ restarts' = restarts + 1
    /\ up' = FALSE
    /\ frame' = [t \in Tasks |-> Idle]
    /\ \/ UNCHANGED <<bound, owed>>
       \/ /\ "killed" \in Events /\ up
          /\ \E b \in Plugged \ bound : bound' = bound \cup {b}
          /\ UNCHANGED owed
       \/ /\ "killed" \in Events /\ up
          /\ \E b \in bound : bound' = bound \ {b} /\ owed' = Forgiven(owed, b)
    /\ UNCHANGED <<plug, store>>

HostReboot ==
    /\ "reboot" \in Events
    /\ restarts < MaxRestarts /\ restarts' = restarts + 1
    /\ up' = FALSE
    /\ frame' = [t \in Tasks |-> Idle]
    /\ bound' = {}
    /\ owed' = {}
    /\ UNCHANGED <<plug, store>>

-----------------------------------------------------------------------------

Pass == BeginPass \/ NothingShared \/ (\E b \in Busids : Visit(b)) \/ FinishPass

RequestStep ==
    \/ \E t \in Requests, b \in Busids : Share(t, b) \/ Rebind(t, b)
    \/ \E b \in Busids : Unshare(b)
    \/ \E c \in Clients : "clients" \in Events /\ (AddClient(c) \/ DeleteClient(c))

PushStep(t) == \E c \in Clients : PushTo(t, c)

Next ==
    \/ Pass
    \/ RequestStep
    \/ \E t \in Tasks : PushStep(t)
    \/ WorldStep
    \/ Restart
    \/ HostReboot

Spec == Init /\ [][Next]_vars

(* The watchdog never stops (_watchdog_loop catches every exception) and a *)
(* push is answered or times out.                                          *)
FairSpec == Spec /\ WF_vars(Pass) /\ \A t \in Tasks : WF_vars(PushStep(t))

-----------------------------------------------------------------------------
(* Properties.                                                             *)

(* Busids leave the list one at a time by the admin's hand, or because the *)
(* serials last seen there have been found elsewhere: then the list gains  *)
(* one busid, that was not on it, for each serial it lost (main.py:118).   *)
(* So no share is moved onto another, and shares become one only if they   *)
(* remembered one serial.                                                  *)
SharesFollowSerials ==
    [][LET left == shared \ shared'
           new  == shared' \ shared
       IN  left # {} =>
              \/ \E b \in left : left = {b} /\ Unshare(b)
              \/ /\ {SerialAt(n) : n \in new} = {known[b] : b \in left}
                 /\ \A b \in left : known[b] # None
                 /\ \A n, o \in new : SerialAt(n) = SerialAt(o) => n = o]_vars

(* Nobody but the admin's own request has a device bound that is not       *)
(* shared.  The pass may do it for the busids it read before it waited,    *)
(* and a process that dies between bind and update leaves one.             *)
OnlySharedAreBound ==
    [][\A b \in bound' \ bound :
          b \in shared' \/ (frame[Watchdog] # Idle /\ b \in frame[Watchdog].list) \/ (up /\ ~up')]_vars

(* "Make sure every device the admin has shared is actually bound right    *)
(* now" (main.py:80), whatever handlers and passes interleave, from any    *)
(* state a crash leaves.                                                   *)
SharedAreBound ==
    \A b \in Busids :
        b \in shared \cap Plugged ~> b \in bound \/ b \notin shared \cap Plugged

(* "relocating it automatically if its busid changed" (main.py:81): as     *)
(* long as a shared busid is missing and the one device with its serial is *)
(* plugged in at a busid that is not shared.                               *)
MissingAreFound ==
    \A b, n \in Busids :
        LET Missing == /\ b \in shared \ Plugged /\ n \in Plugged \ shared
                       /\ known[b] # None
                       /\ \A o \in Busids : SerialAt(o) = known[b] <=> o = n
        IN  Missing ~> ~Missing

(* The snapshot a relocation needs is kept up to date, although each pass  *)
(* writes back serials it read before it waited (main.py:160-171).         *)
SerialsAreLearnt ==
    \A b \in Busids, s \in Serials :
        b \in shared /\ SerialAt(b) = s ~> known[b] = s \/ ~(b \in shared /\ SerialAt(b) = s)

(* Every client registered when a shared device is bound is sent a push    *)
(* for it, even if the server dies in the middle of the round.             *)
ReturnsArePushed ==
    \A b \in Busids, c \in Clients :
        <<b, c>> \in owed /\ b \in shared ~> <<b, c>> \notin owed \/ b \notin shared

(* "a device dropping off and reappearing at a different busid - doesn't   *)
(* silently drop the share" (config.py:26-28): the device that was last    *)
(* seen at a shared busid and is plugged in elsewhere gets bound there, or *)
(* leaves, or its share is taken from the list.                            *)
SharesFollowDevices ==
    \A b, n \in Busids, s \in Serials :
        b \in shared /\ known[b] = s /\ n # b /\ SerialAt(n) = s
            ~> n \in bound \/ SerialAt(n) # s \/ b \notin shared
=============================================================================

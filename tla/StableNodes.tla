----------------------------- MODULE StableNodes -----------------------------
(***************************************************************************)
(* The stable device nodes /dev/usbip-web/<key> of the client              *)
(* (client/app/usbip_client.py, client/app/groups.py): one per direct      *)
(* attachment and one per group, which mirrors the device node of the      *)
(* attachment's current session so that other containers can map one path  *)
(* for ever.  What a node is gets written in three places: the node        *)
(* itself, which lives in a tmpfs, the attachment's record in config.json, *)
(* and a systemd-tmpfiles entry from which the host recreates the node at  *)
(* boot.                                                                   *)
(*                                                                         *)
(* A handler that has attached or detached updates the three one after the *)
(* other without waiting for anything, so no other handler interferes;     *)
(* but the device can go, the client can be killed and the host can reboot *)
(* between two of its steps.  job is the handler that is running, and      *)
(* restoring and asking are those that wait for a server, any number of    *)
(* them for one record or group.                                           *)
(*                                                                         *)
(* When and why a record is restored is the subject of ClientAttachments;  *)
(* here an attempt begins, and succeeds or fails, at any time.  Left out   *)
(* are detaches that fail and attaches slower than their poll.             *)
(*                                                                         *)
(* vhci_hcd names a session after its port, so local_busid says no more    *)
(* than port does and is not in the records.                               *)
(***************************************************************************)
EXTENDS Naturals, FiniteSets

CONSTANTS
    AttIds, Groups,
    Tasks,          \* watchdog visits and pushes under way
    Ports,          \* vhci ports
    Ttys,           \* the numbers (major:minor) of serial device nodes
    Raws,           \* the numbers of raw usbfs nodes
    MaxAttaches,    \* bound: how many sessions there are in all
    MaxCrashes,     \* bound: how often the client is killed or the host reboots
    None

Keys    == AttIds \cup Groups
Numbers == Ttys \cup Raws

ASSUME KeysAssumption ==
    /\ AttIds \cap Groups = {}
    /\ Ttys \cap Raws = {}
    /\ None \notin Keys \cup Numbers \cup Ports \cup Tasks

ASSUME BoundsAssumption == MaxAttaches \in Nat /\ MaxCrashes \in Nat

VARIABLES
    att,        \* attachment records (config.json "attachments")
    vhci,       \* the session on each port: whose it is and its device's nodes
    nodes,      \* NODE_DIR/<key>: the number of the node there
    tmpfiles,   \* usbip-web.conf on the host: the nodes a boot recreates
    restoring,  \* the record each task has read and is to bring back
    asking,     \* groups some user's attach_group is waiting for
    job,        \* the rest of the handler that is running
    up,         \* startup is over
    twice,      \* history: groups that have had two records at a time
    attaches, crashes

vars == <<att, vhci, nodes, tmpfiles, restoring, asking, job, up, twice, attaches, crashes>>

-----------------------------------------------------------------------------

(* auto_failover may be edited at any time: what a restore reads is any.   *)
Record == [group : Groups \cup {None}, port : Ports, stable_node : Numbers \cup {None}]

ASSUME NoRecordAssumption == None \notin Record

(* of is no state of the kernel's: the attachment the session was made for. *)
Session == [of : AttIds \cup {None}, tty : Ttys \cup {None}, raw : Raws]

ASSUME NoSessionAssumption == None \notin Session

(* A copy of a record; a group's is popped from the store meanwhile.       *)
Copy == [id : AttIds, att : Record, popped : BOOLEAN]

ASSUME NoCopyAssumption == None \notin Copy

Idle    == [pc |-> "idle"]
Syncing == [pc |-> "sync"]

(* update_node_for_port(key, port, id) up to its list_ports, up to         *)
(* _place_node and up to _persist; the removal of a node; sync; and the    *)
(* startup between two attachments.                                        *)
UpdateJob == [pc : {"resolve"}, id : AttIds, key : Keys, port : Ports]
PlaceJob  == [pc : {"place", "persist"}, id : AttIds, key : Keys, num : Numbers]
RemoveJob == [pc : {"remove"}, key : Keys]
Job == {Idle, Syncing} \cup UpdateJob \cup PlaceJob \cup RemoveJob

(* A handler runs, or the startup has these attachments left to see to.    *)
TypeOK ==
    /\ att \in [AttIds -> Record \cup {None}]
    /\ vhci \in [Ports -> Session \cup {None}]
    /\ nodes \in [Keys -> Numbers \cup {None}]
    /\ tmpfiles \in [Keys -> Numbers \cup {None}]
    /\ restoring \in [Tasks -> Copy \cup {None}]
    /\ asking \subseteq Groups
    /\ job \in [todo : SUBSET AttIds, step : Job]
    /\ up \in BOOLEAN
    /\ twice \subseteq Groups
    /\ attaches \in 0 .. MaxAttaches
    /\ crashes \in 0 .. MaxCrashes

NoTasks == [t \in Tasks |-> None]

Init ==
    /\ att = [id \in AttIds |-> None]
    /\ vhci = [p \in Ports |-> None]
    /\ nodes = [k \in Keys |-> None]
    /\ tmpfiles = [k \in Keys |-> None]
    /\ restoring = NoTasks
    /\ asking = {}
    /\ job = [todo |-> {}, step |-> Idle]
    /\ up = TRUE
    /\ twice = {}
    /\ attaches = 0
    /\ crashes = 0

OnRecord(id) == att[id] # None
Key(id, a)   == IF a.group = None THEN id ELSE a.group

(* The session on the record's port is the attachment's own.               *)
IsLive(id) ==
    /\ OnRecord(id) /\ vhci[att[id].port] # None
    /\ vhci[att[id].port].of = id

(* The groups with two records in A.                                       *)
Shared(A) ==
    {g \in Groups : \E i, j \in AttIds :
        i # j /\ A[i] # None /\ A[j] # None /\ A[i].group = g /\ A[j].group = g}

Stored(A) == att' = A /\ twice' = twice \cup Shared(A)

AtRest == up /\ job.step = Idle

Run(step) == job' = [job EXCEPT !.step = step]

-----------------------------------------------------------------------------
(* The host kernel.                                                        *)

(* A new session's device has a raw node, and a serial one at once, later  *)
(* or never, with numbers no other device has.                             *)
InUse == {vhci[p].tty : p \in {q \in Ports : vhci[q] # None}}
           \cup {vhci[p].raw : p \in {q \in Ports : vhci[q] # None}}

Sessions(id) == [of : {id}, tty : (Ttys \ InUse) \cup {None}, raw : Raws \ InUse]

Attached(p, s) ==
    /\ attaches < MaxAttaches /\ attaches' = attaches + 1
    /\ vhci[p] = None /\ vhci' = [vhci EXCEPT ![p] = s]

TtyAppears(p, tty) ==
    /\ vhci[p] # None /\ vhci[p].tty = None /\ tty \notin InUse
    /\ vhci' = [vhci EXCEPT ![p].tty = tty]
    /\ UNCHANGED <<att, nodes, tmpfiles, restoring, asking, job, up, twice, attaches, crashes>>

(* resolve_device_paths: the serial node, else the raw one.                *)
NumberOf(s) == IF s.tty # None THEN s.tty ELSE s.raw

(* A session ends and its device goes.                                     *)
Drop(p) ==
    /\ vhci[p] # None
    /\ vhci' = [vhci EXCEPT ![p] = None]
    /\ UNCHANGED <<att, nodes, tmpfiles, restoring, asking, job, up, twice, attaches, crashes>>

-----------------------------------------------------------------------------
(* Attaching.  Each ends in update_node_for_port.                          *)

Update(id, key, port) ==
    Run([pc |-> "resolve", id |-> id, key |-> key, port |-> port])

(* An id is a fresh uuid: no record, no task but t and no node has it.     *)
Fresh(id, t) ==
    /\ ~OnRecord(id) /\ nodes[id] = None /\ tmpfiles[id] = None
    /\ \A u \in Tasks \ {t} : restoring[u] # None => restoring[u].id # id

(* Mutant: the port is that of the group.                                  *)
NewRecordSwapped(g, p) == [group |-> p, port |-> p, stable_node |-> None]

NewRecord(g, p) == [group |-> g, port |-> p, stable_node |-> None]

DirectAttach(id) ==
    /\ AtRest /\ Fresh(id, None)
    /\ \E p \in Ports : \E s \in Sessions(id) :
         /\ Attached(p, s)
         /\ att' = [att EXCEPT ![id] = NewRecord(None, p)]
         /\ Update(id, id, p)
    /\ UNCHANGED <<nodes, tmpfiles, restoring, asking, up, twice, crashes>>

HasRecord(g) == \E id \in AttIds : OnRecord(id) /\ att[id].group = g

(* A group may be attached while its restore waits and has its record out  *)
(* of the store, and by two users at a time: the test is not made again.   *)
AskForGroup(g) ==
    /\ AtRest /\ ~HasRecord(g)
    /\ asking' = asking \cup {g}
    /\ UNCHANGED <<att, vhci, nodes, tmpfiles, restoring, job, up, twice, attaches, crashes>>

Answered(g) == asking' \in {asking, asking \ {g}}

GroupAttached(g, id) ==
    \E p \in Ports : \E s \in Sessions(id) :
       /\ Attached(p, s)
       /\ Stored([att EXCEPT ![id] = NewRecord(g, p)])
       /\ Update(id, g, p)

GroupAttach(g, id) ==
    /\ AtRest /\ g \in asking /\ Fresh(id, None)
    /\ GroupAttached(g, id)
    /\ Answered(g)
    /\ UNCHANGED <<nodes, tmpfiles, restoring, up, crashes>>

GroupNotAttached(g) ==
    /\ AtRest /\ g \in asking
    /\ asking' = asking \ {g}
    /\ UNCHANGED <<att, vhci, nodes, tmpfiles, restoring, job, up, twice, attaches, crashes>>

-----------------------------------------------------------------------------
(* _restore_dropped_attachment, in each task of a copy of its own.         *)

(* The watchdog reads a record whose port is free; a push detaches what is *)
(* on the port first.  What is read may have changed when it is used.      *)
Read(t, id) ==
    /\ AtRest /\ OnRecord(id) /\ restoring[t] = None
    /\ vhci' = [vhci EXCEPT ![att[id].port] = None]
    /\ restoring' = [restoring EXCEPT ![t] = [id |-> id, att |-> att[id], popped |-> FALSE]]
    /\ UNCHANGED <<att, nodes, tmpfiles, asking, job, up, twice, attaches, crashes>>

Restoring(t) == AtRest /\ restoring[t] # None

Over(t) == restoring' = [restoring EXCEPT ![t] = None]

(* Without auto_failover the record is dropped, and nothing else is done.  *)
Forget(t) ==
    LET c == restoring[t] IN
    /\ Restoring(t) /\ ~c.popped
    /\ att' = [att EXCEPT ![c.id] = None]
    /\ Over(t)
    /\ UNCHANGED <<vhci, nodes, tmpfiles, asking, job, up, twice, attaches, crashes>>

(* Whether attach_group finds a record of the group besides the one popped. *)
Elsewhere(c) == \E i \in AttIds \ {c.id} : OnRecord(i) /\ att[i].group = c.att.group

(* A group's record is out of the store until the attempt is over.         *)
Pop(t) ==
    LET c == restoring[t] IN
    /\ Restoring(t) /\ c.att.group # None /\ ~c.popped /\ ~Elsewhere(c)
    /\ att' = [att EXCEPT ![c.id] = None]
    /\ restoring' = [restoring EXCEPT ![t].popped = TRUE]
    /\ UNCHANGED <<vhci, nodes, tmpfiles, asking, job, up, twice, attaches, crashes>>

(* The copy is stored with the new port.                                   *)
WrittenBack(a, p) == [a EXCEPT !.port = p]

DirectRestored(t) ==
    LET c == restoring[t] IN
    /\ Restoring(t) /\ c.att.group = None
    /\ \E p \in Ports : \E s \in Sessions(c.id) :
         /\ Attached(p, s)
         /\ att' = [att EXCEPT ![c.id] = WrittenBack(c.att, p)]
         /\ Update(c.id, c.id, p)
    /\ Over(t)
    /\ UNCHANGED <<nodes, tmpfiles, asking, up, twice, crashes>>

(* attach_group makes a new record, which knows of no node yet.  It may    *)
(* have the id of the old one, which nobody else holds any more.           *)
GroupRestored(t, id) ==
    /\ Restoring(t) /\ restoring[t].popped /\ Fresh(id, t)
    /\ GroupAttached(restoring[t].att.group, id)
    /\ Over(t)
    /\ UNCHANGED <<nodes, tmpfiles, asking, up, crashes>>

(* A group's record is put back as it was read.                            *)
NotRestored(t) ==
    LET c == restoring[t] IN
    /\ Restoring(t)
    /\ \/ c.att.group = None /\ UNCHANGED <<att, twice>>
       \/ c.att.group # None /\ (c.popped \/ Elsewhere(c)) /\ Stored([att EXCEPT ![c.id] = c.att])
    /\ Over(t)
    /\ UNCHANGED <<vhci, nodes, tmpfiles, asking, job, up, attaches, crashes>>

(* api_detach, detach_group: the port on record, whatever is on it.        *)
Detach(id) ==
    /\ AtRest /\ OnRecord(id) /\ vhci[att[id].port] # None
    /\ vhci' = [vhci EXCEPT ![att[id].port] = None]
    /\ att' = [att EXCEPT ![id] = None]
    /\ Run([pc |-> "remove", key |-> Key(id, att[id])])
    /\ UNCHANGED <<nodes, tmpfiles, restoring, asking, up, twice, attaches, crashes>>

-----------------------------------------------------------------------------
(* The steps of update_node_for_port, and of a detach after its update.    *)

(* Nothing to mirror: the device has gone again, and nothing is updated.   *)
Resolve ==
    LET j == job.step IN
    /\ j.pc = "resolve"
    /\ Run(IF vhci[j.port] = None THEN Idle
           ELSE [pc |-> "place", id |-> j.id, key |-> j.key, num |-> NumberOf(vhci[j.port])])
    /\ UNCHANGED <<att, vhci, nodes, tmpfiles, restoring, asking, up, twice, attaches, crashes>>

Place ==
    LET j == job.step IN
    /\ j.pc = "place"
    /\ nodes' = [nodes EXCEPT ![j.key] = j.num]
    /\ Run([j EXCEPT !.pc = "persist"])
    /\ UNCHANGED <<att, vhci, tmpfiles, restoring, asking, up, twice, attaches, crashes>>

Recorded(A, id, num) ==
    IF A[id] = None THEN A ELSE [A EXCEPT ![id].stable_node = num]

Persist ==
    LET j == job.step IN
    /\ j.pc = "persist"
    /\ att' = Recorded(att, j.id, j.num)
    /\ Run(Syncing)
    /\ UNCHANGED <<vhci, nodes, tmpfiles, restoring, asking, up, twice, attaches, crashes>>

(* Mutant: the entry of a dropped attachment is left out.                  *)
PersistedNodesLive(k) ==
    {att[id].stable_node : id \in {i \in AttIds : IsLive(i) /\ Key(i, att[i]) = k}} \ {None}

(* _persisted_nodes: the nodes on record under key k; of two records of    *)
(* one group the later one counts, here any.                               *)
PersistedNodes(k) ==
    {att[id].stable_node : id \in {i \in AttIds : OnRecord(i) /\ Key(i, att[i]) = k}} \ {None}

(* sync_tmpfiles_conf.  The sync that ends the startup opens the client.   *)
Sync ==
    LET kept == {k \in Keys : PersistedNodes(k) # {}} IN
    /\ job.step = Syncing
    /\ \E conf \in [kept -> UNION {PersistedNodes(k) : k \in kept}] :
         /\ \A k \in kept : conf[k] \in PersistedNodes(k)
         /\ tmpfiles' = [k \in Keys |-> IF k \in kept THEN conf[k] ELSE None]
    /\ Run(Idle)
    /\ UNCHANGED <<att, vhci, nodes, restoring, asking, up, twice, attaches, crashes>>

Remove ==
    /\ job.step.pc = "remove"
    /\ nodes' = [nodes EXCEPT ![job.step.key] = None]
    /\ Run(Syncing)
    /\ UNCHANGED <<att, vhci, tmpfiles, restoring, asking, up, twice, attaches, crashes>>

-----------------------------------------------------------------------------
(* restore_persisted_nodes, at startup.                                    *)

(* Mutant: every node is made again as it was, none refreshed.             *)
RefreshesNone(id) == FALSE

(* The test is by the port's number alone.                                 *)
Refreshes(id) == vhci[att[id].port] # None

(* An attachment whose port is in use is refreshed from the device there;  *)
(* the node of any other is made again as it was.                          *)
StartupVisit(id) ==
    /\ ~up /\ job.step = Idle /\ id \in job.todo
    /\ \/ /\ Refreshes(id)
          /\ job' = [todo |-> job.todo \ {id},
                     step |-> [pc |-> "resolve", id |-> id, key |-> Key(id, att[id]), port |-> att[id].port]]
          /\ UNCHANGED nodes
       \/ /\ ~Refreshes(id)
          /\ nodes' = IF att[id].stable_node = None THEN nodes
                      ELSE [nodes EXCEPT ![Key(id, att[id])] = att[id].stable_node]
          /\ job' = [job EXCEPT !.todo = @ \ {id}]
    /\ UNCHANGED <<att, vhci, tmpfiles, restoring, asking, up, twice, attaches, crashes>>

StartupDone ==
    /\ ~up /\ job.step = Idle /\ job.todo = {}
    /\ up' = TRUE
    /\ Run(Syncing)
    /\ UNCHANGED <<att, vhci, nodes, tmpfiles, restoring, asking, twice, attaches, crashes>>

(* The client is killed wherever it is, and starts again.                  *)
Restarted ==
    /\ crashes < MaxCrashes /\ crashes' = crashes + 1
    /\ restoring' = NoTasks /\ asking' = {}
    /\ up' = FALSE
    /\ job' = [todo |-> {id \in AttIds : OnRecord(id)}, step |-> Idle]
    /\ UNCHANGED <<att, tmpfiles, twice>>

(* Whom an attach may be for: a user's new attachment, a record restored.  *)
AttachingFor ==
    {None} \cup {restoring[t].id : t \in {u \in Tasks : restoring[u] # None /\ ~restoring[u].popped}}

(* Between its attach and its record, too: the session stays.              *)
ClientRestart ==
    /\ Restarted
    /\ \/ UNCHANGED <<vhci, attaches>>
       \/ \E id \in AttachingFor, p \in Ports : AtRest /\ \E s \in Sessions(id) : Attached(p, s)
    /\ UNCHANGED nodes

(* /dev is a fresh tmpfs, which systemd fills from the entries.            *)
HostReboot ==
    /\ Restarted
    /\ vhci' = [p \in Ports |-> None] /\ UNCHANGED attaches
    /\ nodes' = tmpfiles

-----------------------------------------------------------------------------

JobStep ==
    \/ Resolve \/ Place \/ Persist \/ Sync \/ Remove
    \/ \E id \in AttIds : StartupVisit(id)
    \/ StartupDone

UserStep ==
    \/ \E id \in AttIds : DirectAttach(id) \/ Detach(id)
    \/ \E g \in Groups : AskForGroup(g) \/ GroupNotAttached(g)
    \/ \E g \in Groups, id \in AttIds : GroupAttach(g, id)

RestoreStep ==
    \/ \E t \in Tasks : Forget(t) \/ Pop(t) \/ DirectRestored(t) \/ NotRestored(t)
    \/ \E t \in Tasks, id \in AttIds : Read(t, id) \/ GroupRestored(t, id)

KernelStep ==
    \/ \E p \in Ports : Drop(p)
    \/ \E p \in Ports, tty \in Ttys : TtyAppears(p, tty)

Next == JobStep \/ UserStep \/ RestoreStep \/ KernelStep \/ ClientRestart \/ HostReboot

Spec == Init /\ [][Next]_vars

-----------------------------------------------------------------------------
(* Properties.                                                             *)

DeviceNodes(s) == {s.tty, s.raw} \ {None}

(* The node, the record and the boot entry of a live attachment all have   *)
(* the number of one node of its own session's device, whatever was        *)
(* interrupted or written back before: "created on attach and re-pointed   *)
(* automatically on every reconnect or relocation" (README.md:410-411).    *)
(* A group that has had two records at a time is exempt: they share one    *)
(* node.                                                                   *)
Agrees(id) ==
    LET k == Key(id, att[id])
    IN  /\ nodes[k] \in DeviceNodes(vhci[att[id].port])
        /\ att[id].stable_node = nodes[k] /\ tmpfiles[k] = nodes[k]

LiveNodesAgree ==
    \A id \in AttIds : AtRest /\ IsLive(id) /\ att[id].group \notin twice => Agrees(id)

(* As long as a direct attachment is on record with its node, neither the  *)
(* boot entry nor, with it, the node in /dev goes, through drops, failed   *)
(* restores, kills and reboots (README.md:418-428); and the record loses   *)
(* its node only to a restore that began before it had one, which writes   *)
(* its own copy back (groups.py:428-435).                                  *)
NodesStay ==
    [][\A id \in AttIds :
          OnRecord(id) /\ att'[id] # None /\ att[id].group = None /\ att[id].stable_node # None
            => /\ tmpfiles[id] # None
                    => tmpfiles'[id] # None /\ (nodes[id] # None => nodes'[id] # None)
               /\ \/ att'[id].stable_node # None
                  \/ \E t \in Tasks : /\ restoring[t] # None /\ restoring[t].id = id
                                       /\ restoring[t].att.stable_node = None
                                       /\ restoring'[t] = None]_vars
=============================================================================

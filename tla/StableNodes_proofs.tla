------------------------- MODULE StableNodes_proofs -------------------------
(***************************************************************************)
(* Proofs about StableNodes: typing, that the node, the record and the     *)
(* boot entry of a live attachment agree, and that a node stays as long as *)
(* its attachment, for any number of attachments, ports, devices and       *)
(* tasks, and kills and reboots.                                           *)
(***************************************************************************)
EXTENDS StableNodes, TLAPS

(* The job at hand is about a record that exists: only its own steps run   *)
(* until it is over, and none of them removes a record.                    *)
JobFits ==
    LET j == job.step IN
    /\ up => job.todo = {}
    /\ \A id \in job.todo : OnRecord(id)
    /\ j.pc \in {"resolve", "place", "persist"} =>
         OnRecord(j.id) /\ Key(j.id, att[j.id]) = j.key
    /\ j.pc = "resolve" => att[j.id].port = j.port
    /\ j.pc = "remove" => \A id \in AttIds : OnRecord(id) /\ att[id].group = None => j.key # id

(* All that is read or kept under one id is of one group.                  *)
CopiesFit ==
    \A t \in Tasks : restoring[t] # None =>
       /\ OnRecord(restoring[t].id) => att[restoring[t].id].group = restoring[t].att.group
       /\ \A u \in Tasks : restoring[u] # None /\ restoring[u].id = restoring[t].id
            => restoring[u].att.group = restoring[t].att.group
       /\ restoring[t].popped => restoring[t].att.group # None

Inv == TypeOK /\ JobFits /\ CopiesFit

-----------------------------------------------------------------------------
(* The operators the actions are built from.                               *)

LEMMA NumberTyped ==
    ASSUME NEW s \in Session
    PROVE  NumberOf(s) \in Numbers /\ NumberOf(s) # None /\ NumberOf(s) \in DeviceNodes(s)
  BY KeysAssumption DEF NumberOf, Session, Numbers, DeviceNodes

LEMMA NewRecordTyped ==
    ASSUME NEW g \in Groups \cup {None}, NEW p \in Ports
    PROVE  /\ NewRecord(g, p) \in Record
           /\ NewRecord(g, p) # None
           /\ NewRecord(g, p).group = g
           /\ NewRecord(g, p).port = p
  BY NoRecordAssumption DEF NewRecord, Record

LEMMA WrittenBackTyped ==
    ASSUME NEW a \in Record, NEW p \in Ports
    PROVE  /\ WrittenBack(a, p) \in Record
           /\ WrittenBack(a, p) # None
           /\ WrittenBack(a, p).group = a.group
           /\ WrittenBack(a, p).port = p
           /\ WrittenBack(a, p).stable_node = a.stable_node
  BY NoRecordAssumption DEF WrittenBack, Record

LEMMA SessionTyped ==
    ASSUME NEW id \in AttIds \cup {None}, NEW s \in Sessions(id)
    PROVE  s \in Session /\ s # None /\ s.of = id
  BY NoSessionAssumption DEF Sessions, Session

(* What a new session does to the ports.                                   *)
LEMMA Attaches ==
    ASSUME TypeOK, NEW id \in AttIds \cup {None}, NEW p \in Ports, NEW s \in Sessions(id), Attached(p, s)
    PROVE  /\ vhci' \in [Ports -> Session \cup {None}]
           /\ attaches' \in 0 .. MaxAttaches
           /\ vhci[p] = None /\ vhci'[p] = s /\ \A q \in Ports \ {p} : vhci'[q] = vhci[q]
  BY SessionTyped, BoundsAssumption DEF TypeOK, Attached

(* What a task holds.                                                      *)
LEMMA CopyTyped ==
    ASSUME TypeOK, NEW t \in Tasks, restoring[t] # None
    PROVE  /\ restoring[t] \in Copy /\ restoring[t].id \in AttIds
           /\ restoring[t].att \in Record /\ restoring[t].att # None
           /\ restoring[t].att.group \in Groups \cup {None}
           /\ restoring[t].att.port \in Ports
  BY NoRecordAssumption DEF TypeOK, Copy, Record

LEMMA GroupsShared ==
    ASSUME NEW A
    PROVE  Shared(A) \subseteq Groups
  BY DEF Shared

(* What a job that is not idle looks like.                                 *)
LEMMA JobShapes ==
    ASSUME TypeOK
    PROVE  LET j == job.step IN
           /\ j.pc = "resolve" => j \in UpdateJob
           /\ j.pc \in {"place", "persist"} => j \in PlaceJob
           /\ j.pc = "remove" => j \in RemoveJob
  BY DEF TypeOK, Job, Idle, Syncing, UpdateJob, PlaceJob, RemoveJob

LEMMA Runs ==
    ASSUME TypeOK, NEW step \in Job, Run(step)
    PROVE  /\ job' \in [todo : SUBSET AttIds, step : Job]
           /\ job'.step = step /\ job'.todo = job.todo
  BY DEF TypeOK, Run

LEMMA Updates ==
    ASSUME TypeOK, NEW id \in AttIds, NEW key \in Keys, NEW p \in Ports, Update(id, key, p)
    PROVE  /\ job' \in [todo : SUBSET AttIds, step : Job]
           /\ job'.todo = job.todo
           /\ job'.step.pc = "resolve" /\ job'.step.id = id
           /\ job'.step.key = key /\ job'.step.port = p
  <1> DEFINE u == [pc |-> "resolve", id |-> id, key |-> key, port |-> p]
  <1>1. u \in Job
    BY DEF Job, UpdateJob
  <1> QED
    BY <1>1, Runs DEF Update

LEMMA KeyTyped ==
    ASSUME NEW id \in AttIds, NEW a \in Record
    PROVE  Key(id, a) \in Keys /\ (Key(id, a) \in AttIds => Key(id, a) = id /\ a.group = None)
  BY KeysAssumption DEF Key, Keys, Record

LEMMA InitInv == Init => Inv
  BY BoundsAssumption, KeysAssumption
     DEF Init, Inv, TypeOK, JobFits, CopiesFit, NoTasks, Job, Idle, OnRecord

-----------------------------------------------------------------------------
(* Each step preserves the invariant.                                      *)

LEMMA KernelInv ==
    ASSUME Inv, KernelStep
    PROVE  Inv'
  <1>1. UNCHANGED <<att, nodes, tmpfiles, restoring, asking, job, up, twice, attaches, crashes>>
    BY DEF KernelStep, Drop, TtyAppears
  <1>2. vhci' \in [Ports -> Session \cup {None}]
    <2>1. ASSUME NEW p \in Ports, NEW tty \in Ttys, TtyAppears(p, tty)
          PROVE  vhci' \in [Ports -> Session \cup {None}]
      <3>1. vhci[p] \in Session
        BY <2>1 DEF TtyAppears, Inv, TypeOK
      <3>2. [vhci[p] EXCEPT !.tty = tty] \in Session
        BY <3>1 DEF Session
      <3> QED
        BY <2>1, <3>2 DEF TtyAppears, Inv, TypeOK
    <2>2. ASSUME NEW p \in Ports, Drop(p)
          PROVE  vhci' \in [Ports -> Session \cup {None}]
      BY <2>2 DEF Drop, Inv, TypeOK
    <2> QED
      BY <2>1, <2>2 DEF KernelStep
  <1>3. TypeOK'
    BY <1>1, <1>2 DEF Inv, TypeOK
  <1>4. JobFits' /\ CopiesFit'
    BY <1>1 DEF Inv, JobFits, CopiesFit, OnRecord
  <1> QED
    BY <1>3, <1>4 DEF Inv

(* Tasks only end, and what those left hold under id is of group g.        *)
CopiesGo == \A t \in Tasks : restoring'[t] = restoring[t] \/ restoring'[t] = None

CopiesOf(id, g) ==
    \A t \in Tasks : restoring[t] # None /\ restoring[t].id = id => restoring[t].att.group = g

(* A record r comes under id with a session, and its node is updated.      *)
LEMMA AttachedInv ==
    ASSUME Inv, AtRest, NEW id \in AttIds, NEW p \in Ports, NEW s \in Sessions(id),
           NEW r \in Record, r # None, r.port = p,
           Attached(p, s), att' = [att EXCEPT ![id] = r], Update(id, Key(id, r), p),
           twice' \subseteq Groups, asking' \subseteq Groups,
           CopiesGo, restoring' \in [Tasks -> Copy \cup {None}], CopiesOf(id, r.group)',
           UNCHANGED <<nodes, tmpfiles, up, crashes>>
    PROVE  Inv'
  <1>1. Key(id, r) \in Keys
    BY KeyTyped
  <1>2. /\ job' \in [todo : SUBSET AttIds, step : Job] /\ job'.todo = job.todo
        /\ job'.step.pc = "resolve" /\ job'.step.id = id
        /\ job'.step.key = Key(id, r) /\ job'.step.port = p
    BY <1>1, Updates DEF Inv
  <1>3. att'[id] = r /\ \A i \in AttIds \ {id} : att'[i] = att[i]
    BY DEF Inv, TypeOK
  <1>4. vhci' \in [Ports -> Session \cup {None}] /\ attaches' \in 0 .. MaxAttaches
    BY Attaches DEF Inv
  <1>5. TypeOK'
    BY <1>2, <1>4 DEF Inv, TypeOK
  <1>6. JobFits'
    BY <1>2, <1>3 DEF Inv, TypeOK, AtRest, JobFits, OnRecord
  <1>7. CopiesFit'
    <2>1. ASSUME NEW t \in Tasks, restoring'[t] # None
          PROVE  /\ restoring'[t] = restoring[t] /\ restoring[t] # None
                 /\ restoring[t].id \in AttIds
      BY <2>1, CopyTyped DEF Inv, CopiesGo
    <2> QED
      BY <1>3, <2>1 DEF Inv, CopiesFit, CopiesOf, OnRecord
  <1> QED
    BY <1>5, <1>6, <1>7 DEF Inv

LEMMA DirectAttachInv ==
    ASSUME Inv, NEW id \in AttIds, DirectAttach(id)
    PROVE  Inv'
  <1>1. PICK p \in Ports : \E s \in Sessions(id) :
          /\ Attached(p, s)
          /\ att' = [att EXCEPT ![id] = NewRecord(None, p)]
          /\ Update(id, id, p)
    BY DEF DirectAttach
  <1>2. PICK s \in Sessions(id) :
          /\ Attached(p, s)
          /\ att' = [att EXCEPT ![id] = NewRecord(None, p)]
          /\ Update(id, id, p)
    BY <1>1
  <1> DEFINE r == NewRecord(None, p)
  <1>3. r \in Record /\ r # None /\ r.group = None /\ r.port = p /\ Key(id, r) = id
    BY NewRecordTyped DEF Key
  <1>4. att' = [att EXCEPT ![id] = r]
    BY <1>2
  <1> HIDE DEF r
  <1>5. \A t \in Tasks : restoring[t] # None => restoring[t].id # id
    BY KeysAssumption DEF DirectAttach, Fresh
  <1>6. /\ AtRest /\ UNCHANGED <<nodes, tmpfiles, restoring, asking, up, twice, crashes>>
        /\ restoring \in [Tasks -> Copy \cup {None}] /\ asking \subseteq Groups /\ twice \subseteq Groups
    BY DEF DirectAttach, Inv, TypeOK
  <1>7. Update(id, Key(id, r), p)
    BY <1>2, <1>3
  <1>8. /\ twice' \subseteq Groups /\ asking' \subseteq Groups
        /\ restoring' \in [Tasks -> Copy \cup {None}]
        /\ UNCHANGED <<nodes, tmpfiles, up, crashes>>
    BY <1>6
  <1>9. CopiesGo /\ CopiesOf(id, r.group)'
    BY <1>5, <1>6 DEF CopiesGo, CopiesOf
  <1>10. r \in Record /\ r # None /\ r.port = p
    BY <1>3
  <1>11. AtRest /\ Attached(p, s)
    BY <1>2, <1>6
  <1> QED
    BY <1>4, <1>7, <1>8, <1>9, <1>10, <1>11, AttachedInv

(* What GroupAttach and GroupRestored have in common.                      *)
LEMMA GroupAttachedInv ==
    ASSUME Inv, AtRest, NEW g \in Groups, NEW id \in AttIds, GroupAttached(g, id),
           asking' \subseteq Groups,
           CopiesGo, restoring' \in [Tasks -> Copy \cup {None}],
           \A t \in Tasks : restoring'[t] # None => restoring'[t].id # id,
           UNCHANGED <<nodes, tmpfiles, up, crashes>>
    PROVE  Inv'
  <1>1. PICK p \in Ports : \E s \in Sessions(id) :
          /\ Attached(p, s)
          /\ Stored([att EXCEPT ![id] = NewRecord(g, p)])
          /\ Update(id, g, p)
    BY DEF GroupAttached
  <1>2. PICK s \in Sessions(id) :
          /\ Attached(p, s)
          /\ Stored([att EXCEPT ![id] = NewRecord(g, p)])
          /\ Update(id, g, p)
    BY <1>1
  <1> DEFINE r == NewRecord(g, p)
  <1>3. r \in Record /\ r # None /\ r.group = g /\ r.port = p /\ Key(id, r) = g
    BY NewRecordTyped, KeysAssumption DEF Key, Keys
  <1>4. att' = [att EXCEPT ![id] = r] /\ twice' \subseteq Groups
    BY <1>2, GroupsShared DEF Stored, Inv, TypeOK
  <1> HIDE DEF r
  <1>5. Update(id, Key(id, r), p)
    BY <1>2, <1>3
  <1>6. CopiesOf(id, r.group)'
    BY DEF CopiesOf
  <1>7. r \in Record /\ r # None /\ r.port = p /\ Attached(p, s)
    BY <1>2, <1>3
  <1> QED
    BY <1>4, <1>5, <1>6, <1>7, AttachedInv

LEMMA GroupAttachInv ==
    ASSUME Inv, NEW g \in Groups, NEW id \in AttIds, GroupAttach(g, id)
    PROVE  Inv'
  <1>1. /\ AtRest /\ GroupAttached(g, id) /\ asking' \subseteq Groups
        /\ restoring' \in [Tasks -> Copy \cup {None}]
        /\ CopiesGo /\ UNCHANGED <<nodes, tmpfiles, restoring, up, crashes>>
    BY DEF GroupAttach, Answered, CopiesGo, Inv, TypeOK
  <1>2. \A t \in Tasks : restoring[t] # None => restoring[t].id # id
    BY KeysAssumption DEF GroupAttach, Fresh
  <1> QED
    BY <1>1, <1>2, GroupAttachedInv

LEMMA GroupRestoredInv ==
    ASSUME Inv, NEW t \in Tasks, NEW id \in AttIds, GroupRestored(t, id)
    PROVE  Inv'
  <1>1. restoring[t].att.group \in Groups
    BY CopyTyped DEF GroupRestored, Restoring, Inv, CopiesFit
  <1>2. /\ AtRest /\ GroupAttached(restoring[t].att.group, id) /\ asking' \subseteq Groups
        /\ restoring' \in [Tasks -> Copy \cup {None}]
        /\ UNCHANGED <<nodes, tmpfiles, up, crashes>>
    BY DEF GroupRestored, Restoring, Over, Inv, TypeOK
  <1>3. \A u \in Tasks : restoring'[u] = IF u = t THEN None ELSE restoring[u]
    BY DEF GroupRestored, Over, Inv, TypeOK
  <1>4. CopiesGo /\ \A u \in Tasks : restoring'[u] # None => restoring'[u].id # id
    BY <1>3 DEF GroupRestored, Fresh, CopiesGo
  <1> QED
    BY <1>1, <1>2, <1>3, <1>4, GroupAttachedInv

LEMMA DirectRestoredInv ==
    ASSUME Inv, NEW t \in Tasks, DirectRestored(t)
    PROVE  Inv'
  <1>c. restoring[t].id \in AttIds /\ restoring[t].att \in Record /\ restoring[t].att.group = None
    BY CopyTyped DEF DirectRestored, Restoring, Inv
  <1>i. PICK id \in AttIds : id = restoring[t].id
    BY <1>c
  <1>a. PICK a \in Record : a = restoring[t].att
    BY <1>c
  <1>0. a.group = None
    BY <1>c, <1>a
  <1>1. PICK p \in Ports : \E s \in Sessions(id) :
          /\ Attached(p, s)
          /\ att' = [att EXCEPT ![id] = WrittenBack(a, p)]
          /\ Update(id, id, p)
    BY <1>i, <1>a DEF DirectRestored
  <1>2. PICK s \in Sessions(id) :
          /\ Attached(p, s)
          /\ att' = [att EXCEPT ![id] = WrittenBack(a, p)]
          /\ Update(id, id, p)
    BY <1>1
  <1>r. PICK r \in Record : r = WrittenBack(a, p)
    BY WrittenBackTyped
  <1>3. r # None /\ r.group = None /\ r.port = p /\ Key(id, r) = id
    BY <1>0, <1>r, WrittenBackTyped DEF Key
  <1>4. att' = [att EXCEPT ![id] = r]
    BY <1>2, <1>r
  <1>5. Update(id, Key(id, r), p)
    BY <1>2, <1>3
  <1>6. /\ AtRest /\ asking' \subseteq Groups /\ twice' \subseteq Groups
        /\ restoring' \in [Tasks -> Copy \cup {None}]
        /\ UNCHANGED <<nodes, tmpfiles, up, crashes>>
    BY DEF DirectRestored, Restoring, Over, Inv, TypeOK
  <1>7. \A u \in Tasks : restoring'[u] = IF u = t THEN None ELSE restoring[u]
    BY DEF DirectRestored, Over, Inv, TypeOK
  <1>8. \A u \in Tasks : restoring'[u] # None /\ restoring'[u].id = id => restoring'[u].att.group = None
    BY <1>c, <1>i, <1>7 DEF DirectRestored, Restoring, Inv, CopiesFit
  <1>9. CopiesGo
    BY <1>7 DEF CopiesGo
  <1>10. CopiesOf(id, r.group)'
    BY <1>3, <1>8 DEF CopiesOf
  <1>11. r # None /\ r.port = p /\ AtRest /\ Attached(p, s)
    BY <1>2, <1>3, <1>6
  <1> QED
    BY <1>4, <1>5, <1>6, <1>9, <1>10, <1>11, AttachedInv

LEMMA AskingInv ==
    ASSUME Inv, NEW g \in Groups, AskForGroup(g) \/ GroupNotAttached(g)
    PROVE  Inv'
  <1>1. TypeOK'
    BY DEF Inv, TypeOK, AskForGroup, GroupNotAttached
  <1>2. JobFits' /\ CopiesFit'
    BY DEF Inv, AskForGroup, GroupNotAttached, JobFits, CopiesFit, OnRecord
  <1> QED
    BY <1>1, <1>2 DEF Inv

LEMMA ForgetInv ==
    ASSUME Inv, NEW t \in Tasks, Forget(t)
    PROVE  Inv'
  <1>1. TypeOK'
    BY DEF Inv, TypeOK, Forget, Over
  <1>2. JobFits'
    BY DEF Inv, TypeOK, Forget, Restoring, AtRest, Idle, JobFits, OnRecord
  <1>3. /\ \A i \in AttIds : att'[i] = att[i] \/ att'[i] = None
        /\ \A u \in Tasks : restoring'[u] = restoring[u] \/ restoring'[u] = None
    BY DEF Forget, Over, Inv, TypeOK
  <1>4. CopiesFit'
    BY <1>3, CopyTyped DEF Inv, CopiesFit, OnRecord
  <1> QED
    BY <1>1, <1>2, <1>4 DEF Inv

LEMMA PopInv ==
    ASSUME Inv, NEW t \in Tasks, Pop(t)
    PROVE  Inv'
  <1> DEFINE c == [restoring[t] EXCEPT !.popped = TRUE]
  <1>1. restoring[t] \in Copy /\ restoring[t].id \in AttIds
    BY CopyTyped DEF Pop, Restoring, Inv
  <1>2. c \in Copy /\ c # None /\ c.id = restoring[t].id /\ c.att = restoring[t].att /\ c.popped
    BY <1>1, NoCopyAssumption DEF Copy
  <1>3. restoring' = [restoring EXCEPT ![t] = c]
    BY DEF Pop
  <1> HIDE DEF c
  <1>4. TypeOK'
    BY <1>2, <1>3 DEF Inv, TypeOK, Pop
  <1>5. JobFits'
    BY DEF Inv, TypeOK, Pop, Restoring, AtRest, Idle, JobFits, OnRecord
  <1>6. /\ \A i \in AttIds : att'[i] = att[i] \/ att'[i] = None
        /\ \A u \in Tasks : restoring'[u] = IF u = t THEN c ELSE restoring[u]
    BY <1>3 DEF Pop, Inv, TypeOK
  <1>7. \A u \in Tasks : /\ restoring'[u] # None <=> restoring[u] # None
                         /\ restoring'[u] # None =>
                              /\ restoring'[u].id = restoring[u].id /\ restoring'[u].att = restoring[u].att
                              /\ restoring'[u].popped => restoring[u].popped \/ restoring[u].att.group # None
    BY <1>2, <1>6 DEF Pop, Restoring
  <1>8. CopiesFit'
    BY <1>6, <1>7, CopyTyped DEF Inv, CopiesFit, OnRecord
  <1> QED
    BY <1>4, <1>5, <1>8 DEF Inv

LEMMA ReadInv ==
    ASSUME Inv, NEW t \in Tasks, NEW id \in AttIds, Read(t, id)
    PROVE  Inv'
  <1> DEFINE c == [id |-> id, att |-> att[id], popped |-> FALSE]
  <1>0. att[id] \in Record /\ att[id] # None
    BY DEF Read, OnRecord, Inv, TypeOK
  <1>1. c \in Copy /\ c.id = id /\ c.att = att[id] /\ ~c.popped
    BY <1>0 DEF Copy
  <1>n. c # None
    BY <1>1, NoCopyAssumption
  <1>2. restoring' = [restoring EXCEPT ![t] = c]
    BY DEF Read
  <1> HIDE DEF c
  <1>3. TypeOK'
    BY <1>1, <1>2 DEF Inv, TypeOK, Read
  <1>4. JobFits'
    BY DEF Inv, TypeOK, Read, AtRest, Idle, JobFits, OnRecord
  <1>5. \A u \in Tasks : restoring'[u] = IF u = t THEN c ELSE restoring[u]
    BY <1>2 DEF Inv, TypeOK
  <1>6. CopiesFit'
    BY <1>0, <1>1, <1>n, <1>5 DEF Inv, CopiesFit, Read, OnRecord
  <1> QED
    BY <1>3, <1>4, <1>6 DEF Inv

LEMMA NotRestoredInv ==
    ASSUME Inv, NEW t \in Tasks, NotRestored(t)
    PROVE  Inv'
  <1> DEFINE c == restoring[t]
  <1>1. c \in Copy /\ c.id \in AttIds /\ c.att \in Record /\ c.att # None
    BY CopyTyped DEF NotRestored, Restoring, Inv
  <1>2. /\ att' \in [AttIds -> Record \cup {None}] /\ twice' \subseteq Groups
        /\ \A i \in AttIds : att'[i] = att[i] \/ (i = c.id /\ att'[i] = c.att)
    <2>1. CASE UNCHANGED <<att, twice>>
      BY <2>1 DEF Inv, TypeOK
    <2>2. CASE Stored([att EXCEPT ![c.id] = c.att])
      <3>1. att' = [att EXCEPT ![c.id] = c.att] /\ twice' \subseteq Groups
        BY <2>2, GroupsShared DEF Stored, Inv, TypeOK
      <3> QED
        BY <1>1, <3>1 DEF Inv, TypeOK
    <2> QED
      BY <2>1, <2>2 DEF NotRestored
  <1>3. \A u \in Tasks : restoring'[u] = IF u = t THEN None ELSE restoring[u]
    BY DEF NotRestored, Over, Inv, TypeOK
  <1>4. TypeOK'
    BY <1>2 DEF Inv, TypeOK, NotRestored, Over
  <1>5. JobFits'
    BY <1>2 DEF Inv, TypeOK, NotRestored, Restoring, AtRest, Idle, JobFits, OnRecord
  <1>6. CopiesFit'
    <2>1. \A u \in Tasks : restoring[u] # None => restoring[u].id \in AttIds
      BY CopyTyped DEF Inv
    <2>2. c # None
      BY DEF NotRestored, Restoring
    <2> QED
      BY <1>2, <1>3, <2>1, <2>2 DEF Inv, CopiesFit, OnRecord
  <1> QED
    BY <1>4, <1>5, <1>6 DEF Inv

LEMMA DetachInv ==
    ASSUME Inv, NEW id \in AttIds, Detach(id)
    PROVE  Inv'
  <1> DEFINE key == Key(id, att[id])
  <1>1. key \in Keys /\ (key \in AttIds => key = id)
    BY KeyTyped DEF Inv, TypeOK, Detach, OnRecord
  <1>2. [pc |-> "remove", key |-> key] \in Job
    BY <1>1 DEF Job, RemoveJob
  <1>3. /\ job' \in [todo : SUBSET AttIds, step : Job]
        /\ job'.step = [pc |-> "remove", key |-> key] /\ job'.todo = job.todo
    BY <1>2, Runs DEF Inv, Detach
  <1>4. TypeOK'
    BY <1>3 DEF Inv, TypeOK, Detach
  <1>5. JobFits'
    BY <1>1, <1>3 DEF Inv, TypeOK, Detach, AtRest, JobFits, OnRecord
  <1>6. CopiesFit'
    <2>1. \A i \in AttIds : att'[i] = att[i] \/ att'[i] = None
      BY DEF Detach, Inv, TypeOK
    <2> QED
      BY <2>1, CopyTyped DEF Inv, Detach, CopiesFit, OnRecord
  <1> QED
    BY <1>4, <1>5, <1>6 DEF Inv

LEMMA ResolveInv ==
    ASSUME Inv, Resolve
    PROVE  Inv'
  <1> DEFINE j == job.step
             next == IF vhci[j.port] = None THEN Idle
                     ELSE [pc |-> "place", id |-> j.id, key |-> j.key, num |-> NumberOf(vhci[j.port])]
  <1>1. j \in UpdateJob
    BY JobShapes DEF Inv, Resolve
  <1>2. next \in Job
    BY <1>1, NumberTyped DEF Inv, TypeOK, Job, UpdateJob, PlaceJob
  <1>3. job' \in [todo : SUBSET AttIds, step : Job] /\ job'.step = next /\ job'.todo = job.todo
    BY <1>2, Runs DEF Inv, Resolve
  <1>4. TypeOK'
    BY <1>3 DEF Inv, TypeOK, Resolve
  <1>5. JobFits'
    BY <1>3 DEF Inv, Resolve, JobFits, OnRecord, Idle
  <1>6. CopiesFit'
    BY DEF Inv, Resolve, CopiesFit, OnRecord
  <1> QED
    BY <1>4, <1>5, <1>6 DEF Inv

LEMMA PlaceInv ==
    ASSUME Inv, Place
    PROVE  Inv'
  <1> DEFINE j == job.step
             next == [j EXCEPT !.pc = "persist"]
  <1>1. j \in PlaceJob
    BY JobShapes DEF Inv, Place
  <1>2. next \in Job /\ next.pc = "persist" /\ next.id = j.id /\ next.key = j.key
    BY <1>1 DEF Job, PlaceJob
  <1>3. job' \in [todo : SUBSET AttIds, step : Job] /\ job'.step = next /\ job'.todo = job.todo
    BY <1>2, Runs DEF Inv, Place
  <1>4. TypeOK'
    BY <1>1, <1>3 DEF Inv, TypeOK, Place, PlaceJob
  <1>5. JobFits'
    BY <1>2, <1>3 DEF Inv, Place, JobFits, OnRecord
  <1>6. CopiesFit'
    BY DEF Inv, Place, CopiesFit, OnRecord
  <1> QED
    BY <1>4, <1>5, <1>6 DEF Inv

LEMMA PersistInv ==
    ASSUME Inv, Persist
    PROVE  Inv'
  <1> DEFINE j == job.step
             r == [att[j.id] EXCEPT !.stable_node = j.num]
  <1>1. j \in PlaceJob /\ j.id \in AttIds /\ j.num \in Numbers /\ j.num # None
    BY JobShapes, KeysAssumption DEF Inv, Persist, PlaceJob
  <1>2. OnRecord(j.id)
    BY DEF Inv, Persist, JobFits
  <1>3. att[j.id] \in Record
    BY <1>1, <1>2 DEF Inv, TypeOK, OnRecord
  <1>4. /\ r \in Record /\ r # None /\ r.group = att[j.id].group
        /\ r.stable_node = j.num
    BY <1>1, <1>3, NoRecordAssumption DEF Record
  <1>5. att' = [att EXCEPT ![j.id] = r]
    BY <1>2 DEF Persist, Recorded, OnRecord
  <1> HIDE DEF r
  <1>6. Syncing \in Job
    BY DEF Job
  <1>7. job' \in [todo : SUBSET AttIds, step : Job] /\ job'.step = Syncing /\ job'.todo = job.todo
    BY <1>6, Runs DEF Inv, Persist
  <1>8. att'[j.id] = r /\ \A i \in AttIds \ {j.id} : att'[i] = att[i]
    BY <1>1, <1>5 DEF Inv, TypeOK
  <1>9. TypeOK'
    BY <1>4, <1>5, <1>7 DEF Inv, TypeOK, Persist
  <1>10. JobFits'
    BY <1>4, <1>7, <1>8 DEF Inv, TypeOK, Persist, JobFits, OnRecord, Syncing
  <1>11. CopiesFit'
    <2>1. \A i \in AttIds : /\ OnRecord(i)' <=> OnRecord(i)
                            /\ OnRecord(i) => att'[i].group = att[i].group
      BY <1>1, <1>2, <1>4, <1>8 DEF OnRecord
    <2> QED
      BY <2>1, CopyTyped DEF Inv, Persist, CopiesFit
  <1> QED
    BY <1>9, <1>10, <1>11 DEF Inv

(* The entry of a direct attachment is the node on record.                 *)
LEMMA PersistedDirect ==
    ASSUME TypeOK, NEW id \in AttIds
    PROVE  IF OnRecord(id) /\ att[id].group = None
           THEN PersistedNodes(id) = {att[id].stable_node} \ {None}
           ELSE PersistedNodes(id) = {}
  BY KeysAssumption DEF TypeOK, Record, PersistedNodes, OnRecord, Key

LEMMA SyncInv ==
    ASSUME Inv, Sync
    PROVE  Inv'
  <1>1. tmpfiles' \in [Keys -> Numbers \cup {None}]
    <2> DEFINE kept == {k \in Keys : PersistedNodes(k) # {}}
    <2>1. PICK conf \in [kept -> UNION {PersistedNodes(k) : k \in kept}] :
            tmpfiles' = [k \in Keys |-> IF k \in kept THEN conf[k] ELSE None]
      BY DEF Sync
    <2>2. UNION {PersistedNodes(k) : k \in kept} \subseteq Numbers
      BY DEF Inv, TypeOK, PersistedNodes, OnRecord, Record
    <2> QED
      BY <2>1, <2>2
  <1>2. Idle \in Job
    BY DEF Job
  <1>3. job' \in [todo : SUBSET AttIds, step : Job] /\ job'.step = Idle /\ job'.todo = job.todo
    BY <1>2, Runs DEF Inv, Sync
  <1>4. TypeOK'
    BY <1>1, <1>3 DEF Inv, TypeOK, Sync
  <1>5. JobFits'
    BY <1>3 DEF Inv, Sync, JobFits, OnRecord, Idle
  <1>7. CopiesFit'
    BY DEF Inv, Sync, CopiesFit, OnRecord
  <1> QED
    BY <1>4, <1>5, <1>7 DEF Inv

LEMMA RemoveInv ==
    ASSUME Inv, Remove
    PROVE  Inv'
  <1>1. Syncing \in Job
    BY DEF Job
  <1>2. job' \in [todo : SUBSET AttIds, step : Job] /\ job'.step = Syncing /\ job'.todo = job.todo
    BY <1>1, Runs DEF Inv, Remove
  <1>3. TypeOK'
    BY <1>2 DEF Inv, TypeOK, Remove
  <1>4. JobFits' /\ CopiesFit'
    BY <1>2 DEF Inv, Remove, JobFits, CopiesFit, OnRecord, Syncing
  <1> QED
    BY <1>3, <1>4 DEF Inv

LEMMA StartupVisitInv ==
    ASSUME Inv, NEW id \in AttIds, StartupVisit(id)
    PROVE  Inv'
  <1>1. att[id] \in Record /\ OnRecord(id)
    BY DEF Inv, TypeOK, JobFits, OnRecord, StartupVisit
  <1>2. Key(id, att[id]) \in Keys /\ att[id].port \in Ports /\ att[id].stable_node \in Numbers \cup {None}
    BY <1>1, KeyTyped DEF Record
  <1>3. CopiesFit'
    BY DEF Inv, CopiesFit, StartupVisit, OnRecord
  <1>4. CASE Refreshes(id)
    <2> DEFINE u == [pc |-> "resolve", id |-> id, key |-> Key(id, att[id]), port |-> att[id].port]
    <2>1. u \in Job /\ u.pc = "resolve" /\ u.id = id /\ u.key = Key(id, att[id]) /\ u.port = att[id].port
      BY <1>2 DEF Job, UpdateJob
    <2> HIDE DEF u
    <2>2. job' = [todo |-> job.todo \ {id}, step |-> u] /\ UNCHANGED nodes
      BY <1>4 DEF StartupVisit, u
    <2>3. TypeOK'
      BY <2>1, <2>2 DEF Inv, TypeOK, StartupVisit
    <2>4. JobFits'
      BY <1>1, <2>1, <2>2 DEF Inv, JobFits, StartupVisit, OnRecord
    <2> QED
      BY <1>3, <2>3, <2>4 DEF Inv
  <1>5. CASE ~Refreshes(id)
    <2>1. TypeOK'
      BY <1>2, <1>5 DEF Inv, TypeOK, StartupVisit
    <2>2. JobFits'
      BY <1>5 DEF Inv, TypeOK, JobFits, StartupVisit, OnRecord, Idle
    <2> QED
      BY <1>3, <2>1, <2>2 DEF Inv
  <1> QED
    BY <1>4, <1>5

LEMMA StartupDoneInv ==
    ASSUME Inv, StartupDone
    PROVE  Inv'
  <1>1. Syncing \in Job
    BY DEF Job
  <1>2. job' \in [todo : SUBSET AttIds, step : Job] /\ job'.step = Syncing /\ job'.todo = job.todo
    BY <1>1, Runs DEF Inv, StartupDone
  <1>3. TypeOK'
    BY <1>2 DEF Inv, TypeOK, StartupDone
  <1>4. JobFits' /\ CopiesFit'
    BY <1>2 DEF Inv, StartupDone, JobFits, CopiesFit, OnRecord, Syncing
  <1> QED
    BY <1>3, <1>4 DEF Inv

(* A restart: the copies are gone, and the visits cover what is on record. *)
LEMMA RestartInv ==
    ASSUME Inv, ClientRestart \/ HostReboot
    PROVE  Inv'
  <1>1. Idle \in Job
    BY DEF Job
  <1>2. TypeOK'
    <2>1. crashes' \in 0 .. MaxCrashes
      BY BoundsAssumption DEF Inv, TypeOK, ClientRestart, HostReboot, Restarted
    <2>2. /\ job' \in [todo : SUBSET AttIds, step : Job]
          /\ restoring' \in [Tasks -> Copy \cup {None}]
      BY <1>1 DEF ClientRestart, HostReboot, Restarted, NoTasks
    <2>3. /\ vhci' \in [Ports -> Session \cup {None}]
          /\ attaches' \in 0 .. MaxAttaches
      <3>1. CASE UNCHANGED <<vhci, attaches>> \/ HostReboot
        BY <3>1 DEF Inv, TypeOK, HostReboot
      <3>2. CASE \E id \in AttachingFor, p \in Ports : \E s \in Sessions(id) : Attached(p, s)
        <4>1. AttachingFor \subseteq AttIds \cup {None}
          BY CopyTyped DEF AttachingFor, Inv
        <4> QED
          BY <3>2, <4>1, Attaches DEF Inv
      <3> QED
        BY <3>1, <3>2 DEF ClientRestart
    <2>4. nodes' \in [Keys -> Numbers \cup {None}]
      BY DEF Inv, TypeOK, ClientRestart, HostReboot
    <2> QED
      BY <2>1, <2>2, <2>3, <2>4 DEF Inv, TypeOK, ClientRestart, HostReboot, Restarted
  <1>3. JobFits'
    BY DEF Inv, ClientRestart, HostReboot, Restarted, JobFits, OnRecord, Idle
  <1>4. CopiesFit'
    BY DEF Inv, ClientRestart, HostReboot, Restarted, CopiesFit, OnRecord, NoTasks
  <1> QED
    BY <1>2, <1>3, <1>4 DEF Inv

LEMMA NextInv ==
    ASSUME Inv, [Next]_vars
    PROVE  Inv'
  <1>1. CASE JobStep
    BY <1>1, ResolveInv, PlaceInv, PersistInv, SyncInv, RemoveInv, StartupVisitInv, StartupDoneInv
       DEF JobStep
  <1>2. CASE UserStep
    BY <1>2, DirectAttachInv, AskingInv, GroupAttachInv, DetachInv DEF UserStep
  <1>3. CASE RestoreStep
    BY <1>3, ForgetInv, PopInv, ReadInv, DirectRestoredInv, NotRestoredInv, GroupRestoredInv
       DEF RestoreStep
  <1>4. CASE ClientRestart \/ HostReboot \/ KernelStep
    BY <1>4, RestartInv, KernelInv
  <1>5. CASE UNCHANGED vars
    BY <1>5 DEF vars, Inv, TypeOK, JobFits, CopiesFit, OnRecord
  <1> QED
    BY <1>1, <1>2, <1>3, <1>4, <1>5 DEF Next

LEMMA Invariance == Spec => []Inv
  <1>1. Inv /\ [Next]_vars => Inv'
    BY NextInv
  <1> QED
    BY <1>1, InitInv, PTL DEF Spec

(* The records, nodes, entries and the handler at work are well typed, for *)
(* any number of attachments, groups, tasks and ports (groups.py, main.py). *)
THEOREM NodesTyping == Spec => []TypeOK
  <1>1. Inv => TypeOK
    BY DEF Inv
  <1> QED
    BY <1>1, Invariance, PTL

-----------------------------------------------------------------------------
(* Nodes stay.                                                             *)

(* The node in /dev and the entry of a direct attachment.                  *)
NodeStays(id) ==
    OnRecord(id) /\ att'[id] # None /\ att[id].group = None /\ att[id].stable_node # None
      => (tmpfiles[id] # None => tmpfiles'[id] # None /\ (nodes[id] # None => nodes'[id] # None))

(* The node in its record.                                                 *)
RecordStays(id) ==
    OnRecord(id) /\ att'[id] # None /\ att[id].group = None /\ att[id].stable_node # None
      => \/ att'[id].stable_node # None
         \/ \E t \in Tasks : /\ restoring[t] # None /\ restoring[t].id = id
                              /\ restoring[t].att.stable_node = None
                              /\ restoring'[t] = None

LEMMA StepNodeStays ==
    ASSUME Inv, [Next]_vars, NEW id \in AttIds
    PROVE  NodeStays(id)
  <1> SUFFICES ASSUME OnRecord(id), att'[id] # None, att[id].group = None,
                      att[id].stable_node # None, tmpfiles[id] # None
               PROVE  tmpfiles'[id] # None /\ (nodes[id] # None => nodes'[id] # None)
    BY DEF NodeStays
  <1>0. id \in Keys
    BY DEF Keys
  <1>1. CASE Place
    <2>1. job.step \in PlaceJob
      BY <1>1, JobShapes DEF Inv, Place
    <2> QED
      BY <1>0, <1>1, <2>1, KeysAssumption DEF Inv, TypeOK, Place, PlaceJob
  <1>2. CASE Remove
    BY <1>2 DEF Inv, TypeOK, JobFits, Remove
  <1>3. CASE Sync
    <2> DEFINE kept == {k \in Keys : PersistedNodes(k) # {}}
    <2>1. PersistedNodes(id) = {att[id].stable_node} /\ id \in kept
      BY <1>0, PersistedDirect DEF Inv
    <2>2. PICK conf \in [kept -> UNION {PersistedNodes(k) : k \in kept}] :
            /\ \A k \in kept : conf[k] \in PersistedNodes(k)
            /\ tmpfiles' = [k \in Keys |-> IF k \in kept THEN conf[k] ELSE None]
      BY <1>3 DEF Sync
    <2>3. conf[id] = att[id].stable_node /\ tmpfiles'[id] = conf[id]
      BY <1>0, <2>1, <2>2
    <2> QED
      BY <1>3, <2>3 DEF Sync
  <1>4. CASE \E i \in AttIds : StartupVisit(i)
    <2>1. PICK i \in AttIds : StartupVisit(i)
      BY <1>4
    <2>2. nodes' = nodes \/ (att[i].stable_node # None
             /\ nodes' = [nodes EXCEPT ![Key(i, att[i])] = att[i].stable_node])
      BY <2>1 DEF StartupVisit
    <2> QED
      BY <1>0, <2>1, <2>2 DEF Inv, TypeOK, StartupVisit
  <1>5. CASE HostReboot
    BY <1>5 DEF HostReboot, Restarted
  <1>6. CASE UNCHANGED <<nodes, tmpfiles>>
    BY <1>6
  <1>7. CASE JobStep
    BY <1>1, <1>2, <1>3, <1>4, <1>6, <1>7 DEF JobStep, Resolve, Persist, StartupDone
  <1>8. CASE UserStep
    BY <1>6, <1>8 DEF UserStep, DirectAttach, AskForGroup, GroupNotAttached, GroupAttach, Detach
  <1>9. CASE RestoreStep
    BY <1>6, <1>9 DEF RestoreStep, Forget, Pop, Read, DirectRestored, NotRestored, GroupRestored
  <1>10. CASE ClientRestart \/ KernelStep \/ UNCHANGED vars
    BY <1>6, <1>10 DEF ClientRestart, Restarted, KernelStep, Drop, TtyAppears, vars
  <1> QED
    BY <1>5, <1>7, <1>8, <1>9, <1>10 DEF Next

LEMMA StepRecordStays ==
    ASSUME Inv, [Next]_vars, NEW id \in AttIds
    PROVE  RecordStays(id)
  <1> SUFFICES ASSUME OnRecord(id), att'[id] # None, att[id].group = None, att[id].stable_node # None
               PROVE  \/ att'[id] = att[id] \/ att'[id].stable_node # None
                      \/ \E t \in Tasks : /\ restoring[t] # None /\ restoring[t].id = id
                                           /\ restoring[t].att.stable_node = None
                                           /\ restoring'[t] = None
    BY DEF RecordStays
  <1>1. CASE JobStep
    <2>1. CASE Persist
      <3>1. job.step.id \in AttIds /\ job.step.num # None /\ OnRecord(job.step.id)
        BY <2>1, JobShapes, KeysAssumption DEF Inv, JobFits, Persist, PlaceJob
      <3>2. att' = [att EXCEPT ![job.step.id].stable_node = job.step.num]
        BY <2>1, <3>1 DEF Persist, Recorded, OnRecord
      <3>3. CASE job.step.id = id
        <4>1. att[id] \in Record
          BY DEF Inv, TypeOK, OnRecord
        <4>2. att'[id].stable_node = job.step.num
          BY <3>2, <3>3, <4>1 DEF Inv, TypeOK, Record
        <4> QED
          BY <3>1, <4>2
      <3>4. CASE job.step.id # id
        BY <3>1, <3>2, <3>4 DEF Inv, TypeOK
      <3> QED
        BY <3>3, <3>4
    <2>2. CASE UNCHANGED att
      BY <2>2
    <2> QED
      BY <1>1, <2>1, <2>2 DEF JobStep, Resolve, Place, Sync, Remove, StartupVisit, StartupDone
  <1>2. CASE UserStep
    <2>1. ASSUME NEW i \in AttIds, DirectAttach(i) PROVE att'[id] = att[id]
      BY <2>1 DEF DirectAttach, Fresh, Inv, TypeOK
    <2>2. ASSUME NEW i \in AttIds, Detach(i) PROVE att'[id] = att[id]
      BY <2>2 DEF Detach, Inv, TypeOK
    <2>3. ASSUME NEW g \in Groups, NEW i \in AttIds, GroupAttach(g, i) PROVE att'[id] = att[id]
      BY <2>3 DEF GroupAttach, GroupAttached, Stored, Fresh, Inv, TypeOK
    <2>4. ASSUME NEW g \in Groups, AskForGroup(g) \/ GroupNotAttached(g) PROVE att'[id] = att[id]
      BY <2>4 DEF AskForGroup, GroupNotAttached
    <2> QED
      BY <1>2, <2>1, <2>2, <2>3, <2>4 DEF UserStep
  <1>3. ASSUME NEW t \in Tasks, Forget(t) \/ Pop(t) PROVE att'[id] = att[id]
    BY <1>3 DEF Forget, Pop, Inv, TypeOK
  <1>4. ASSUME NEW t \in Tasks, DirectRestored(t), att'[id] # att[id], att'[id].stable_node = None
        PROVE  /\ restoring[t] # None /\ restoring[t].id = id
               /\ restoring[t].att.stable_node = None /\ restoring'[t] = None
    <2>1. restoring[t] # None /\ restoring[t].id \in AttIds /\ restoring[t].att \in Record
      BY <1>4, CopyTyped DEF DirectRestored, Restoring, Inv
    <2>2. PICK p \in Ports : att' = [att EXCEPT ![restoring[t].id] = WrittenBack(restoring[t].att, p)]
      BY <1>4 DEF DirectRestored
    <2>3. restoring[t].id = id /\ att'[id] = WrittenBack(restoring[t].att, p)
      BY <1>4, <2>1, <2>2 DEF Inv, TypeOK
    <2>4. att'[id].stable_node = restoring[t].att.stable_node
      BY <2>1, <2>3, WrittenBackTyped
    <2> QED
      BY <1>4, <2>1, <2>3, <2>4 DEF DirectRestored, Over, Inv, TypeOK
  <1>5. ASSUME NEW t \in Tasks, NotRestored(t) PROVE att'[id] = att[id]
    <2>1. restoring[t] # None /\ restoring[t].id \in AttIds
      BY <1>5, CopyTyped DEF NotRestored, Restoring, Inv
    <2>2. restoring[t].att.group # None => restoring[t].id # id
      BY <2>1 DEF Inv, CopiesFit
    <2> QED
      BY <1>5, <2>1, <2>2 DEF NotRestored, Stored, Inv, TypeOK
  <1>6. ASSUME NEW t \in Tasks, NEW i \in AttIds, Read(t, i) \/ GroupRestored(t, i) PROVE att'[id] = att[id]
    BY <1>6 DEF Read, GroupRestored, GroupAttached, Stored, Fresh, Inv, TypeOK
  <1>7. CASE RestoreStep
    <2>1. CASE \E t \in Tasks : DirectRestored(t)
      BY <1>4, <2>1
    <2> QED
      BY <1>3, <1>5, <1>6, <1>7, <2>1 DEF RestoreStep
  <1>8. CASE ClientRestart \/ HostReboot \/ KernelStep \/ UNCHANGED vars
    BY <1>8 DEF ClientRestart, HostReboot, Restarted, KernelStep, Drop, TtyAppears, vars
  <1> QED
    BY <1>1, <1>2, <1>7, <1>8 DEF Next

(* The node of a direct attachment stays as long as its record, in /dev    *)
(* and among what a boot recreates, whatever is killed and rebooted, and   *)
(* its record forgets it only to an older copy that a restore writes back  *)
(* (groups.py:219-262, groups.py:428-435, README.md:418-428).              *)
THEOREM NodesKept == Spec => NodesStay
  <1> DEFINE Stays ==
        \A id \in AttIds :
          OnRecord(id) /\ att'[id] # None /\ att[id].group = None /\ att[id].stable_node # None
            => /\ tmpfiles[id] # None
                    => tmpfiles'[id] # None /\ (nodes[id] # None => nodes'[id] # None)
               /\ \/ att'[id].stable_node # None
                  \/ \E t \in Tasks : /\ restoring[t] # None /\ restoring[t].id = id
                                       /\ restoring[t].att.stable_node = None
                                       /\ restoring'[t] = None
  <1>1. Inv /\ [Next]_vars => [Stays]_vars
    BY StepNodeStays, StepRecordStays DEF NodeStays, RecordStays
  <1> QED
    BY <1>1, Invariance, PTL DEF Spec, NodesStay

-----------------------------------------------------------------------------
(* The nodes of live attachments agree.                                    *)

(* Two records of one group have made it one of twice.                     *)
OnePerGroup ==
    \A i, j \in AttIds :
       i # j /\ OnRecord(i) /\ OnRecord(j) /\ att[i].group = att[j].group /\ att[i].group # None
         => att[i].group \in twice

(* A group's record that is put back is not live.                          *)
CopiesAreDead ==
    \A t \in Tasks :
       restoring[t] # None /\ restoring[t].att.group # None /\ vhci[restoring[t].att.port] # None
         => vhci[restoring[t].att.port].of # restoring[t].id

(* What the job has read is of the device there is, and what it has placed *)
(* is still there; a removal is of a node nobody wants.                    *)
JobIsFresh ==
    LET j == job.step IN
    /\ j.pc \in {"place", "persist"} /\ IsLive(j.id) => j.num \in DeviceNodes(vhci[att[j.id].port])
    /\ j.pc = "persist" => nodes[j.key] = j.num
    /\ j.pc = "remove" =>
         \A id \in AttIds : OnRecord(id) /\ att[id].group \notin twice => Key(id, att[id]) # j.key

(* The node of a live attachment is right, or somebody is about to see to  *)
(* it.                                                                     *)
Due(id) ==
    \/ id \in job.todo
    \/ job.step.pc \in {"resolve", "place", "persist"} /\ job.step.id = id

Settled(id) ==
    LET k == Key(id, att[id])
    IN  /\ nodes[k] \in DeviceNodes(vhci[att[id].port])
        /\ att[id].stable_node = nodes[k]
        /\ (tmpfiles[k] = nodes[k] \/ job.step = Syncing)

SettledOrDue == \A id \in AttIds : IsLive(id) /\ att[id].group \notin twice => Due(id) \/ Settled(id)

Live == OnePerGroup /\ CopiesAreDead /\ JobIsFresh /\ SettledOrDue

LEMMA KeysApart ==
    ASSUME TypeOK, OnePerGroup, NEW i \in AttIds, NEW j \in AttIds, i # j,
           OnRecord(i), OnRecord(j), Key(i, att[i]) = Key(j, att[j])
    PROVE  att[i].group \in twice /\ att[j].group = att[i].group
  <1>1. att[i].group \in Groups \cup {None} /\ att[j].group \in Groups \cup {None}
    BY DEF TypeOK, OnRecord, Record
  <1> QED
    BY <1>1, KeysAssumption DEF Key, OnePerGroup

(* At rest a live attachment agrees.                                       *)
LEMMA RestAgrees ==
    ASSUME Inv, SettledOrDue, AtRest, NEW id \in AttIds, IsLive(id), att[id].group \notin twice
    PROVE  Agrees(id)
  <1>1. job.step.pc = "idle" /\ job.step # Syncing /\ job.todo = {}
    BY DEF AtRest, Idle, Syncing, Inv, JobFits
  <1> QED
    BY <1>1 DEF SettledOrDue, Due, Settled, Agrees

(* Sessions only end, or their device gets its serial node.                *)
SessionsGoOn ==
    \A p \in Ports : vhci'[p] # None =>
       /\ vhci[p] # None /\ vhci'[p].of = vhci[p].of
       /\ DeviceNodes(vhci[p]) \subseteq DeviceNodes(vhci'[p])

(* Records and sessions that go leave the others as they were.             *)
LEMMA FewerLive ==
    ASSUME Inv, SettledOrDue, JobIsFresh, SessionsGoOn,
           \A i \in AttIds : att'[i] = att[i] \/ att'[i] = None,
           twice \subseteq twice',
           UNCHANGED <<nodes, tmpfiles, job>>
    PROVE  SettledOrDue' /\ JobIsFresh'
  <1>1. ASSUME NEW i \in AttIds, IsLive(i)'
        PROVE  /\ IsLive(i) /\ att'[i] = att[i]
               /\ DeviceNodes(vhci[att[i].port]) \subseteq DeviceNodes(vhci'[att[i].port])
    BY <1>1 DEF IsLive, OnRecord, SessionsGoOn, Inv, TypeOK, Record
  <1>2. SettledOrDue'
    BY <1>1 DEF SettledOrDue, Due, Settled
  <1>3. job.step.pc \in {"place", "persist"} => job.step.id \in AttIds
    BY JobShapes DEF Inv, PlaceJob
  <1>4. JobIsFresh'
    BY <1>1, <1>3 DEF JobIsFresh, OnRecord
  <1> QED
    BY <1>2, <1>4

LEMMA FewerShared ==
    ASSUME OnePerGroup, twice \subseteq twice',
           \A i \in AttIds : att'[i] # None /\ att'[i].group # None
             => att[i] # None /\ att'[i].group = att[i].group
    PROVE  OnePerGroup'
  BY DEF OnePerGroup, OnRecord

LEMMA StoredShared ==
    ASSUME NEW A, Stored(A), A \in [AttIds -> Record \cup {None}]
    PROVE  OnePerGroup' /\ twice \subseteq twice'
  <1>1. \A i \in AttIds : A[i] # None => A[i].group \in Groups \cup {None}
    BY DEF Record
  <1> QED
    BY <1>1 DEF Stored, Shared, OnePerGroup, OnRecord

(* The copies that are left are as they were, but for being popped.        *)
LEMMA FewerCopies ==
    ASSUME Inv, CopiesAreDead, SessionsGoOn,
           \A t \in Tasks : restoring'[t] # None =>
              /\ restoring[t] # None /\ restoring'[t].id = restoring[t].id
              /\ restoring'[t].att = restoring[t].att
    PROVE  CopiesAreDead'
  <1>1. ASSUME NEW t \in Tasks, restoring[t] # None
        PROVE  restoring[t].att.port \in Ports
    BY <1>1, CopyTyped DEF Inv
  <1> QED
    BY <1>1 DEF CopiesAreDead, SessionsGoOn

(* A new session makes nothing live but the record it is for.              *)
LEMMA AttachedLive ==
    ASSUME Inv, Live, AtRest, NEW id \in AttIds, NEW p \in Ports, NEW s \in Sessions(id),
           NEW r \in Record, r # None, r.port = p,
           Attached(p, s), att' = [att EXCEPT ![id] = r], Update(id, Key(id, r), p),
           CopiesGo, CopiesOf(id, None)', twice \subseteq twice',
           UNCHANGED <<nodes, tmpfiles>>
    PROVE  CopiesAreDead' /\ JobIsFresh' /\ SettledOrDue'
  <1>1. s \in Session /\ s # None /\ s.of = id
    BY SessionTyped
  <1>2. vhci'[p] = s /\ vhci[p] = None /\ \A q \in Ports \ {p} : vhci'[q] = vhci[q]
    BY Attaches DEF Inv
  <1>3. att'[id] = r /\ \A i \in AttIds \ {id} : att'[i] = att[i]
    BY DEF Inv, TypeOK
  <1>4. job'.todo = job.todo /\ job'.step.pc = "resolve" /\ job'.step.id = id
    BY KeyTyped, Updates DEF Inv
  <1>5. CopiesAreDead'
    <2>1. ASSUME NEW t \in Tasks, restoring'[t] # None, restoring'[t].att.group # None
          PROVE  /\ restoring'[t] = restoring[t] /\ restoring[t] # None
                 /\ restoring[t].id # id /\ restoring[t].att.port \in Ports
      BY <2>1, CopyTyped DEF CopiesGo, CopiesOf, Inv
    <2> QED
      BY <1>1, <1>2, <2>1 DEF Live, CopiesAreDead
  <1>6. JobIsFresh'
    BY <1>4 DEF JobIsFresh
  <1>7. ASSUME NEW i \in AttIds, IsLive(i)', att'[i].group \notin twice', i # id
        PROVE  Settled(i)'
    <2>1. OnRecord(i) /\ att'[i] = att[i] /\ att[i].port \in Ports /\ att[i].group \notin twice
      BY <1>3, <1>7 DEF IsLive, OnRecord, Inv, TypeOK, Record
    <2>2. att[i].port # p /\ vhci'[att[i].port] = vhci[att[i].port] /\ IsLive(i)
      BY <1>1, <1>2, <1>7, <2>1 DEF IsLive, OnRecord
    <2>3. Agrees(i)
      BY <2>1, <2>2, RestAgrees DEF Live
    <2> QED
      BY <2>1, <2>2, <2>3 DEF Agrees, Settled
  <1>8. SettledOrDue'
    BY <1>4, <1>7 DEF SettledOrDue, Due
  <1> QED
    BY <1>5, <1>6, <1>8

LEMMA InitLive == Init => Live
  BY DEF Init, Live, OnePerGroup, CopiesAreDead, JobIsFresh, SettledOrDue,
         IsLive, OnRecord, NoTasks, Idle

-----------------------------------------------------------------------------
(* Each step preserves it.                                                 *)

LEMMA DirectAttachLive ==
    ASSUME Inv, Live, NEW id \in AttIds, DirectAttach(id)
    PROVE  Live'
  <1>1. PICK p \in Ports : \E s \in Sessions(id) :
          /\ Attached(p, s)
          /\ att' = [att EXCEPT ![id] = NewRecord(None, p)]
          /\ Update(id, id, p)
    BY DEF DirectAttach
  <1>2. PICK s \in Sessions(id) :
          /\ Attached(p, s)
          /\ att' = [att EXCEPT ![id] = NewRecord(None, p)]
          /\ Update(id, id, p)
    BY <1>1
  <1>r. PICK r \in Record : r = NewRecord(None, p)
    BY NewRecordTyped
  <1>3. r # None /\ r.group = None /\ r.port = p /\ Key(id, r) = id
    BY <1>r, NewRecordTyped DEF Key
  <1>4. att' = [att EXCEPT ![id] = r] /\ Update(id, Key(id, r), p) /\ Attached(p, s)
    BY <1>2, <1>3, <1>r
  <1>5. AtRest /\ UNCHANGED <<nodes, tmpfiles, restoring, twice>>
    BY DEF DirectAttach
  <1>6. CopiesGo /\ CopiesOf(id, None)'
    <2>1. \A t \in Tasks : restoring[t] # None => restoring[t].id # id
      BY KeysAssumption DEF DirectAttach, Fresh
    <2> QED
      BY <1>5, <2>1 DEF CopiesGo, CopiesOf
  <1>7. UNCHANGED <<nodes, tmpfiles>> /\ twice \subseteq twice'
    BY <1>5
  <1>8. AtRest /\ r # None /\ r.port = p
    BY <1>3, <1>5
  <1>9. CopiesAreDead' /\ JobIsFresh' /\ SettledOrDue'
    BY <1>4, <1>6, <1>7, <1>8, AttachedLive
  <1>10. OnePerGroup'
    <2>1. \A i \in AttIds : att'[i] # None /\ att'[i].group # None
            => att[i] # None /\ att'[i].group = att[i].group
      BY <1>3, <1>4 DEF Inv, TypeOK
    <2> QED
      BY <1>7, <2>1, FewerShared DEF Live
  <1> QED
    BY <1>9, <1>10 DEF Live

LEMMA GroupAttachedLive ==
    ASSUME Inv, Live, AtRest, NEW g \in Groups, NEW id \in AttIds, GroupAttached(g, id),
           CopiesGo, CopiesOf(id, None)', UNCHANGED <<nodes, tmpfiles>>
    PROVE  Live'
  <1>1. PICK p \in Ports : \E s \in Sessions(id) :
          /\ Attached(p, s)
          /\ Stored([att EXCEPT ![id] = NewRecord(g, p)])
          /\ Update(id, g, p)
    BY DEF GroupAttached
  <1>2. PICK s \in Sessions(id) :
          /\ Attached(p, s)
          /\ Stored([att EXCEPT ![id] = NewRecord(g, p)])
          /\ Update(id, g, p)
    BY <1>1
  <1>r. PICK r \in Record : r = NewRecord(g, p)
    BY NewRecordTyped
  <1>3. r # None /\ r.port = p /\ Key(id, r) = g
    BY <1>r, NewRecordTyped, KeysAssumption DEF Key, Keys
  <1>4. Stored([att EXCEPT ![id] = r])
    BY <1>2, <1>r
  <1>5. [att EXCEPT ![id] = r] \in [AttIds -> Record \cup {None}]
    BY DEF Inv, TypeOK
  <1>6. OnePerGroup' /\ twice \subseteq twice'
    BY <1>4, <1>5, StoredShared
  <1>7. att' = [att EXCEPT ![id] = r]
    BY <1>4 DEF Stored
  <1>8. Update(id, Key(id, r), p) /\ Attached(p, s)
    BY <1>2, <1>3
  <1>9. CopiesAreDead' /\ JobIsFresh' /\ SettledOrDue'
    BY <1>3, <1>6, <1>7, <1>8, AttachedLive
  <1> QED
    BY <1>6, <1>9 DEF Live

LEMMA DirectRestoredLive ==
    ASSUME Inv, Live, NEW t \in Tasks, DirectRestored(t)
    PROVE  Live'
  <1>c. restoring[t].id \in AttIds /\ restoring[t].att \in Record /\ restoring[t].att.group = None
    BY CopyTyped DEF DirectRestored, Restoring, Inv
  <1>i. PICK id \in AttIds : id = restoring[t].id
    BY <1>c
  <1>a. PICK a \in Record : a = restoring[t].att
    BY <1>c
  <1>1. PICK p \in Ports : \E s \in Sessions(id) :
          /\ Attached(p, s)
          /\ att' = [att EXCEPT ![id] = WrittenBack(a, p)]
          /\ Update(id, id, p)
    BY <1>i, <1>a DEF DirectRestored
  <1>2. PICK s \in Sessions(id) :
          /\ Attached(p, s)
          /\ att' = [att EXCEPT ![id] = WrittenBack(a, p)]
          /\ Update(id, id, p)
    BY <1>1
  <1>r. PICK r \in Record : r = WrittenBack(a, p)
    BY WrittenBackTyped
  <1>3. r # None /\ r.group = None /\ r.port = p /\ Key(id, r) = id
    BY <1>c, <1>a, <1>r, WrittenBackTyped DEF Key
  <1>4. att' = [att EXCEPT ![id] = r] /\ Update(id, Key(id, r), p) /\ Attached(p, s)
    BY <1>2, <1>3, <1>r
  <1>5. AtRest /\ UNCHANGED <<nodes, tmpfiles, twice>>
    BY DEF DirectRestored, Restoring
  <1>6. \A u \in Tasks : restoring'[u] = IF u = t THEN None ELSE restoring[u]
    BY DEF DirectRestored, Over, Inv, TypeOK
  <1>7. CopiesGo /\ CopiesOf(id, None)'
    <2>1. \A u \in Tasks : restoring[u] # None /\ restoring[u].id = id => restoring[u].att.group = None
      BY <1>c, <1>i DEF DirectRestored, Restoring, Inv, CopiesFit
    <2> QED
      BY <1>6, <2>1 DEF CopiesGo, CopiesOf
  <1>8. UNCHANGED <<nodes, tmpfiles>> /\ twice \subseteq twice'
    BY <1>5
  <1>9. AtRest /\ r # None /\ r.port = p
    BY <1>3, <1>5
  <1>10. CopiesAreDead' /\ JobIsFresh' /\ SettledOrDue'
    BY <1>4, <1>7, <1>8, <1>9, AttachedLive
  <1>11. OnePerGroup'
    <2>1. \A i \in AttIds : att'[i] # None /\ att'[i].group # None
            => att[i] # None /\ att'[i].group = att[i].group
      BY <1>3, <1>4 DEF Inv, TypeOK
    <2> QED
      BY <1>8, <2>1, FewerShared DEF Live
  <1> QED
    BY <1>10, <1>11 DEF Live

LEMMA DetachLive ==
    ASSUME Inv, Live, NEW id \in AttIds, Detach(id)
    PROVE  Live'
  <1> DEFINE key == Key(id, att[id])
  <1>1. /\ \A i \in AttIds : att'[i] = IF i = id THEN None ELSE att[i]
        /\ \A p \in Ports : vhci'[p] = vhci[p] \/ vhci'[p] = None
        /\ UNCHANGED <<nodes, tmpfiles, restoring, twice>>
    BY DEF Detach, Inv, TypeOK
  <1>2. SessionsGoOn
    BY <1>1 DEF SessionsGoOn
  <1>3. job'.step = [pc |-> "remove", key |-> key] /\ job'.todo = job.todo
    BY DEF Detach, Run, Inv, TypeOK
  <1>4. ASSUME NEW i \in AttIds, IsLive(i)'
        PROVE  IsLive(i) /\ att'[i] = att[i] /\ vhci'[att[i].port] = vhci[att[i].port]
    BY <1>1, <1>4 DEF IsLive, OnRecord, Inv, TypeOK, Record
  <1>5. SettledOrDue'
    BY <1>1, <1>4, RestAgrees DEF Detach, Live, SettledOrDue, Settled, Agrees
  <1>6. JobIsFresh'
    <2>1. ASSUME NEW i \in AttIds, OnRecord(i)', att'[i].group \notin twice'
          PROVE  Key(i, att'[i]) # key
      BY <1>1, <2>1, KeysApart DEF Detach, Inv, Live, OnRecord
    <2> QED
      BY <1>3, <2>1 DEF JobIsFresh
  <1>7. OnePerGroup'
    BY <1>1, FewerShared DEF Live
  <1>8. CopiesAreDead'
    BY <1>1, <1>2, FewerCopies DEF Live
  <1> QED
    BY <1>5, <1>6, <1>7, <1>8 DEF Live

LEMMA UserLive ==
    ASSUME Inv, Live, UserStep
    PROVE  Live'
  <1>1. ASSUME NEW g \in Groups, NEW id \in AttIds, GroupAttach(g, id) PROVE Live'
    <2>1. /\ AtRest /\ GroupAttached(g, id) /\ CopiesGo /\ CopiesOf(id, None)'
          /\ UNCHANGED <<nodes, tmpfiles>>
      <3>1. \A t \in Tasks : restoring[t] # None => restoring[t].id # id
        BY <1>1, KeysAssumption DEF GroupAttach, Fresh
      <3> QED
        BY <1>1, <3>1 DEF GroupAttach, CopiesGo, CopiesOf
    <2> QED
      BY <2>1, GroupAttachedLive
  <1>2. ASSUME NEW g \in Groups, AskForGroup(g) \/ GroupNotAttached(g) PROVE Live'
    <2>1. UNCHANGED <<att, vhci, nodes, tmpfiles, restoring, job, up, twice>>
      BY <1>2 DEF AskForGroup, GroupNotAttached
    <2> QED
      BY <2>1 DEF Live, OnePerGroup, CopiesAreDead, JobIsFresh, SettledOrDue, Due, Settled, IsLive, OnRecord
  <1> QED
    BY <1>1, <1>2, DirectAttachLive, DetachLive DEF UserStep

(* Steps that only take records, sessions and copies away.                 *)
LEMMA GoingLive ==
    ASSUME Inv, Live, SessionsGoOn,
           \A i \in AttIds : att'[i] = att[i] \/ att'[i] = None,
           \A t \in Tasks : restoring'[t] # None =>
              /\ restoring[t] # None /\ restoring'[t].id = restoring[t].id
              /\ restoring'[t].att = restoring[t].att,
           UNCHANGED <<nodes, tmpfiles, job, twice>>
    PROVE  Live'
  <1>1. SettledOrDue' /\ JobIsFresh'
    BY FewerLive DEF Live
  <1>2. OnePerGroup'
    BY FewerShared DEF Live
  <1>3. CopiesAreDead'
    BY FewerCopies DEF Live
  <1> QED
    BY <1>1, <1>2, <1>3 DEF Live

LEMMA PopLive ==
    ASSUME Inv, Live, NEW t \in Tasks, Pop(t)
    PROVE  Live'
  <1>1. restoring[t] \in Copy
    BY CopyTyped DEF Pop, Restoring, Inv
  <1>2. /\ restoring'[t] = [restoring[t] EXCEPT !.popped = TRUE]
        /\ \A u \in Tasks \ {t} : restoring'[u] = restoring[u]
    BY DEF Pop, Inv, TypeOK
  <1>3. \A u \in Tasks : restoring'[u] # None =>
              /\ restoring[u] # None /\ restoring'[u].id = restoring[u].id
              /\ restoring'[u].att = restoring[u].att
    BY <1>1, <1>2 DEF Pop, Restoring, Copy
  <1>4. \A i \in AttIds : att'[i] = att[i] \/ att'[i] = None
    BY DEF Pop, Inv, TypeOK
  <1>5. SessionsGoOn /\ UNCHANGED <<nodes, tmpfiles, job, twice>>
    BY DEF Pop, SessionsGoOn
  <1> QED
    BY <1>3, <1>4, <1>5, GoingLive

LEMMA ForgetLive ==
    ASSUME Inv, Live, NEW t \in Tasks, Forget(t)
    PROVE  Live'
  <1>1. \A u \in Tasks : restoring'[u] # None => restoring'[u] = restoring[u]
    BY DEF Forget, Over, Inv, TypeOK
  <1>2. \A i \in AttIds : att'[i] = att[i] \/ att'[i] = None
    BY DEF Forget, Inv, TypeOK
  <1>3. SessionsGoOn /\ UNCHANGED <<nodes, tmpfiles, job, twice>>
    BY DEF Forget, SessionsGoOn
  <1> QED
    BY <1>1, <1>2, <1>3, GoingLive

LEMMA ReadLive ==
    ASSUME Inv, Live, NEW t \in Tasks, NEW id \in AttIds, Read(t, id)
    PROVE  Live'
  <1>1. att[id] \in Record /\ att[id].port \in Ports
    BY DEF Read, OnRecord, Inv, TypeOK, Record
  <1>2. /\ vhci'[att[id].port] = None
        /\ \A p \in Ports : vhci'[p] = vhci[p] \/ vhci'[p] = None
    BY <1>1 DEF Read, Inv, TypeOK
  <1>3. SessionsGoOn /\ UNCHANGED <<att, nodes, tmpfiles, job, twice>>
    BY <1>2 DEF Read, SessionsGoOn
  <1>4. SettledOrDue' /\ JobIsFresh'
    BY <1>3, FewerLive DEF Live
  <1>5. OnePerGroup'
    BY <1>3 DEF Live, OnePerGroup, OnRecord
  <1>6. CopiesAreDead'
    <2>1. \A u \in Tasks : restoring'[u] =
            IF u = t THEN [id |-> id, att |-> att[id], popped |-> FALSE] ELSE restoring[u]
      BY DEF Read, Inv, TypeOK
    <2>2. \A u \in Tasks : restoring[u] # None => restoring[u].att.port \in Ports
      BY CopyTyped DEF Inv
    <2>3. ASSUME NEW u \in Tasks, restoring'[u] # None, restoring'[u].att.group # None,
                 vhci'[restoring'[u].att.port] # None
          PROVE  vhci'[restoring'[u].att.port].of # restoring'[u].id
      <3>1. CASE u = t
        BY <1>2, <2>1, <2>3, <3>1
      <3>2. CASE u # t
        BY <1>2, <2>1, <2>2, <2>3, <3>2 DEF Live, CopiesAreDead
      <3> QED
        BY <3>1, <3>2
    <2> QED
      BY <2>3 DEF CopiesAreDead
  <1> QED
    BY <1>4, <1>5, <1>6 DEF Live

LEMMA NotRestoredLive ==
    ASSUME Inv, Live, NEW t \in Tasks, NotRestored(t)
    PROVE  Live'
  <1> DEFINE c == restoring[t]
  <1>1. c # None /\ c.id \in AttIds /\ c.att \in Record
    BY CopyTyped DEF NotRestored, Restoring, Inv
  <1>2. CASE UNCHANGED <<att, twice>>
    <2>1. \A u \in Tasks : restoring'[u] # None => restoring'[u] = restoring[u]
      BY DEF NotRestored, Over, Inv, TypeOK
    <2>2. SessionsGoOn /\ UNCHANGED <<nodes, tmpfiles, job, twice>>
      BY <1>2 DEF NotRestored, SessionsGoOn
    <2>3. \A i \in AttIds : att'[i] = att[i] \/ att'[i] = None
      BY <1>2
    <2> QED
      BY <2>1, <2>2, <2>3, GoingLive
  <1>3. CASE c.att.group # None /\ Stored([att EXCEPT ![c.id] = c.att])
    <2> DEFINE A == [att EXCEPT ![c.id] = c.att]
    <2>1. A \in [AttIds -> Record \cup {None}]
      BY <1>1 DEF Inv, TypeOK
    <2>2. OnePerGroup' /\ twice \subseteq twice'
      BY <1>3, <2>1, StoredShared
    <2>3. \A i \in AttIds : att'[i] = IF i = c.id THEN c.att ELSE att[i]
      BY <1>1, <1>3 DEF Stored, Inv, TypeOK
    <2> HIDE DEF A
    <2>4. UNCHANGED <<vhci, nodes, tmpfiles, job>> /\ job.step.pc = "idle"
      BY DEF NotRestored, Restoring, AtRest, Idle
    <2>5. ASSUME NEW i \in AttIds, IsLive(i)' PROVE IsLive(i) /\ att'[i] = att[i]
      <3>1. i # c.id
        BY <1>1, <1>3, <2>3, <2>4, <2>5 DEF IsLive, OnRecord, Live, CopiesAreDead
      <3> QED
        BY <2>3, <2>4, <2>5, <3>1 DEF IsLive, OnRecord
    <2>6. SettledOrDue'
      BY <2>2, <2>4, <2>5 DEF Live, SettledOrDue, Due, Settled
    <2>7. JobIsFresh'
      BY <2>4 DEF JobIsFresh
    <2>8. CopiesAreDead'
      BY <2>4 DEF NotRestored, Over, Live, CopiesAreDead, Inv, TypeOK
    <2> QED
      BY <2>2, <2>6, <2>7, <2>8 DEF Live
  <1> QED
    BY <1>2, <1>3 DEF NotRestored

LEMMA RestoreLive ==
    ASSUME Inv, Live, RestoreStep
    PROVE  Live'
  <1>1. ASSUME NEW t \in Tasks, NEW id \in AttIds, GroupRestored(t, id) PROVE Live'
    <2>1. restoring[t].att.group \in Groups
      BY <1>1, CopyTyped DEF GroupRestored, Restoring, Inv, CopiesFit
    <2>2. \A u \in Tasks : restoring'[u] = IF u = t THEN None ELSE restoring[u]
      BY <1>1 DEF GroupRestored, Over, Inv, TypeOK
    <2>3. CopiesGo /\ CopiesOf(id, None)'
      BY <1>1, <2>2 DEF GroupRestored, Fresh, CopiesGo, CopiesOf
    <2>4. AtRest /\ GroupAttached(restoring[t].att.group, id) /\ UNCHANGED <<nodes, tmpfiles>>
      BY <1>1 DEF GroupRestored, Restoring
    <2> QED
      BY <2>1, <2>3, <2>4, GroupAttachedLive
  <1> QED
    BY <1>1, ForgetLive, PopLive, ReadLive, DirectRestoredLive, NotRestoredLive DEF RestoreStep

LEMMA KernelLive ==
    ASSUME Inv, Live, KernelStep
    PROVE  Live'
  <1>1. UNCHANGED <<att, nodes, tmpfiles, restoring, job, twice>>
    BY DEF KernelStep, Drop, TtyAppears
  <1>2. SessionsGoOn
    <2>1. ASSUME NEW p \in Ports, NEW tty \in Ttys, TtyAppears(p, tty) PROVE SessionsGoOn
      <3>1. vhci[p] \in Session /\ vhci[p].tty = None
        BY <2>1 DEF TtyAppears, Inv, TypeOK
      <3>2. vhci'[p] = [vhci[p] EXCEPT !.tty = tty] /\ \A q \in Ports \ {p} : vhci'[q] = vhci[q]
        BY <2>1 DEF TtyAppears, Inv, TypeOK
      <3>3. vhci'[p].of = vhci[p].of /\ vhci'[p].raw = vhci[p].raw
        BY <3>1, <3>2 DEF Session
      <3> QED
        BY <2>1, <3>1, <3>2, <3>3 DEF TtyAppears, SessionsGoOn, DeviceNodes
    <2>2. ASSUME NEW p \in Ports, Drop(p) PROVE SessionsGoOn
      BY <2>2 DEF Drop, SessionsGoOn, Inv, TypeOK
    <2> QED
      BY <2>1, <2>2 DEF KernelStep
  <1> QED
    BY <1>1, <1>2, GoingLive

(* A step of the job leaves the sessions and the restores alone.           *)
LEMMA JobKeeps ==
    ASSUME Inv, Live, JobStep
    PROVE  OnePerGroup' /\ CopiesAreDead'
  <1>1. UNCHANGED <<vhci, restoring, asking, twice>>
    BY DEF JobStep, Resolve, Place, Persist, Sync, Remove, StartupVisit, StartupDone
  <1>2. ASSUME NEW i \in AttIds PROVE (OnRecord(i)' => OnRecord(i)) /\ (OnRecord(i)' => att'[i].group = att[i].group)
    <2>1. CASE Persist
      <3>1. job.step.id \in AttIds /\ att[job.step.id] \in Record
        BY <2>1, JobShapes DEF Persist, PlaceJob, Inv, TypeOK, JobFits, OnRecord
      <3> QED
        BY <2>1, <3>1 DEF Persist, Recorded, OnRecord, Inv, TypeOK, Record
    <2>2. CASE UNCHANGED att
      BY <2>2 DEF OnRecord
    <2> QED
      BY <2>1, <2>2 DEF JobStep, Resolve, Place, Sync, Remove, StartupVisit, StartupDone
  <1>3. OnePerGroup'
    BY <1>1, <1>2, FewerShared DEF Live, OnRecord
  <1>4. CopiesAreDead'
    BY <1>1 DEF Live, CopiesAreDead
  <1> QED
    BY <1>3, <1>4

LEMMA ResolveLive ==
    ASSUME Inv, Live, Resolve
    PROVE  JobIsFresh' /\ SettledOrDue'
  <1> DEFINE j == job.step
             next == IF vhci[j.port] = None THEN Idle
                     ELSE [pc |-> "place", id |-> j.id, key |-> j.key, num |-> NumberOf(vhci[j.port])]
  <1>1. job'.step = next /\ job'.todo = job.todo
    BY DEF Resolve, Run, Inv, TypeOK
  <1>2. att[j.id].port = j.port /\ j # Syncing
    BY DEF Resolve, Inv, JobFits, Syncing
  <1>3. UNCHANGED <<att, vhci, nodes, tmpfiles, twice>>
    BY DEF Resolve
  <1>4. CASE vhci[j.port] = None
    BY <1>1, <1>2, <1>3, <1>4
       DEF Live, JobIsFresh, SettledOrDue, Due, Settled, IsLive, OnRecord, Idle, Syncing
  <1>5. CASE vhci[j.port] # None
    <2>1. vhci[j.port] \in Session
      BY <1>5, JobShapes DEF Resolve, UpdateJob, Inv, TypeOK
    <2>2. NumberOf(vhci[j.port]) \in DeviceNodes(vhci[j.port])
      BY <2>1, NumberTyped
    <2>3. job'.step.pc = "place" /\ job'.step.id = j.id /\ job'.step.num = NumberOf(vhci[j.port])
      BY <1>1, <1>5
    <2> QED
      BY <1>1, <1>2, <1>3, <2>2, <2>3 DEF Live, JobIsFresh, SettledOrDue, Due, Settled, IsLive, OnRecord, Syncing
  <1> QED
    BY <1>4, <1>5

LEMMA PlaceLive ==
    ASSUME Inv, Live, Place
    PROVE  JobIsFresh' /\ SettledOrDue'
  <1> DEFINE j == job.step
  <1>1. j \in PlaceJob /\ j.key \in Keys /\ j.id \in AttIds
    BY JobShapes DEF Place, Inv, PlaceJob
  <1>2. /\ job'.todo = job.todo
        /\ job'.step.pc = "persist" /\ job'.step.id = j.id
        /\ job'.step.key = j.key /\ job'.step.num = j.num
    BY <1>1 DEF Place, Run, Inv, TypeOK, PlaceJob
  <1>3. /\ nodes'[j.key] = j.num /\ \A k \in Keys \ {j.key} : nodes'[k] = nodes[k]
        /\ UNCHANGED <<att, vhci, tmpfiles, twice>>
    BY <1>1 DEF Place, Inv, TypeOK
  <1>4. JobIsFresh'
    BY <1>2, <1>3 DEF Place, Live, JobIsFresh, IsLive, OnRecord
  <1>5. ASSUME NEW i \in AttIds, IsLive(i)', att'[i].group \notin twice' PROVE Due(i)' \/ Settled(i)'
    <2>1. IsLive(i) /\ OnRecord(i) /\ Key(i, att[i]) \in Keys /\ att[i].group \notin twice
      BY <1>3, <1>5, KeyTyped DEF IsLive, OnRecord, Inv, TypeOK
    <2>2. CASE i = j.id
      BY <1>2, <2>2 DEF Due
    <2>3. CASE i # j.id
      <3>1. Key(i, att[i]) # j.key
        BY <1>1, <2>1, <2>3, KeysApart DEF Inv, Live, JobFits, Place
      <3>2. j # Syncing
        BY DEF Place, Syncing
      <3> QED
        BY <1>2, <1>3, <2>1, <2>3, <3>1, <3>2 DEF Live, SettledOrDue, Due, Settled
    <2> QED
      BY <2>2, <2>3
  <1> QED
    BY <1>4, <1>5 DEF SettledOrDue

LEMMA PersistLive ==
    ASSUME Inv, Live, Persist
    PROVE  JobIsFresh' /\ SettledOrDue'
  <1> DEFINE j == job.step
  <1>1. j \in PlaceJob /\ j.id \in AttIds /\ OnRecord(j.id) /\ att[j.id] \in Record
    BY JobShapes DEF Persist, Inv, TypeOK, JobFits, OnRecord, PlaceJob
  <1>2. job'.step = Syncing /\ job'.todo = job.todo
    BY DEF Persist, Run, Inv, TypeOK
  <1>3. /\ att'[j.id] = [att[j.id] EXCEPT !.stable_node = j.num]
        /\ \A i \in AttIds \ {j.id} : att'[i] = att[i]
        /\ UNCHANGED <<vhci, nodes, tmpfiles, twice>>
    BY <1>1 DEF Persist, Recorded, OnRecord, Inv, TypeOK
  <1>4. JobIsFresh'
    BY <1>2 DEF JobIsFresh, Syncing
  <1>5. ASSUME NEW i \in AttIds, IsLive(i)', att'[i].group \notin twice' PROVE Due(i)' \/ Settled(i)'
    <2>1. CASE i = j.id
      <3>1. /\ att'[i].port = att[i].port
            /\ att'[i].group = att[i].group /\ att'[i].stable_node = j.num
        BY <1>1, <1>3, <2>1 DEF Record
      <3>2. IsLive(i)
        BY <1>1, <1>3, <1>5, <2>1, <3>1 DEF IsLive
      <3>3. nodes[j.key] = j.num /\ j.num \in DeviceNodes(vhci[att[i].port]) /\ Key(i, att[i]) = j.key
        BY <2>1, <3>2 DEF Persist, Live, JobIsFresh, Inv, JobFits
      <3>4. Key(i, att'[i]) = j.key
        BY <3>1, <3>3 DEF Key
      <3> QED
        BY <1>2, <1>3, <3>1, <3>3, <3>4 DEF Settled
    <2>2. CASE i # j.id
      <3>1. att'[i] = att[i] /\ IsLive(i) /\ att[i].group \notin twice
        BY <1>3, <1>5, <2>2 DEF IsLive, OnRecord
      <3>2. j # Syncing
        BY DEF Persist, Syncing
      <3> QED
        BY <1>2, <1>3, <2>2, <3>1, <3>2 DEF Live, SettledOrDue, Due, Settled
    <2> QED
      BY <2>1, <2>2
  <1> QED
    BY <1>4, <1>5 DEF SettledOrDue

LEMMA SyncLive ==
    ASSUME Inv, Live, Sync
    PROVE  JobIsFresh' /\ SettledOrDue'
  <1>1. job'.step = Idle /\ job'.todo = job.todo /\ UNCHANGED <<att, vhci, nodes, twice>>
    BY DEF Sync, Run, Inv, TypeOK
  <1>2. JobIsFresh'
    BY <1>1 DEF JobIsFresh, Idle
  <1> DEFINE kept == {k \in Keys : PersistedNodes(k) # {}}
  <1>3. PICK conf \in [kept -> UNION {PersistedNodes(k) : k \in kept}] :
          /\ \A k \in kept : conf[k] \in PersistedNodes(k)
          /\ tmpfiles' = [k \in Keys |-> IF k \in kept THEN conf[k] ELSE None]
    BY DEF Sync
  <1>4. ASSUME NEW k \in Keys, PersistedNodes(k) # {} PROVE tmpfiles'[k] \in PersistedNodes(k)
    BY <1>3, <1>4
  <1> HIDE DEF kept
  <1>5. ASSUME NEW i \in AttIds, IsLive(i)', att'[i].group \notin twice' PROVE Due(i)' \/ Settled(i)'
    <2> DEFINE k == Key(i, att[i])
               n == att[i].stable_node
    <2>1. /\ IsLive(i) /\ OnRecord(i) /\ k \in Keys /\ vhci[att[i].port] \in Session
          /\ att[i].group \notin twice
      BY <1>1, <1>5, KeyTyped DEF IsLive, OnRecord, Inv, TypeOK, Record
    <2>2. CASE i \in job.todo
      BY <1>1, <2>2 DEF Due
    <2>3. CASE i \notin job.todo
      <3>1. nodes[k] \in DeviceNodes(vhci[att[i].port]) /\ n = nodes[k]
        BY <2>1, <2>3 DEF Live, SettledOrDue, Due, Settled, Sync, Syncing
      <3>2. n # None
        BY <3>1 DEF DeviceNodes
      <3>3. PersistedNodes(k) = {n}
        <4>1. \A m \in AttIds : OnRecord(m) /\ Key(m, att[m]) = k => m = i
          BY <2>1, KeysApart DEF Inv, Live
        <4> QED
          BY <2>1, <3>2, <4>1 DEF PersistedNodes
      <3>4. tmpfiles'[k] = n
        BY <1>4, <2>1, <3>3
      <3> QED
        BY <1>1, <3>1, <3>4 DEF Settled
    <2> QED
      BY <2>2, <2>3
  <1> QED
    BY <1>2, <1>5 DEF SettledOrDue

LEMMA RemoveLive ==
    ASSUME Inv, Live, Remove
    PROVE  JobIsFresh' /\ SettledOrDue'
  <1>1. job'.step = Syncing /\ job'.todo = job.todo /\ UNCHANGED <<att, vhci, tmpfiles, twice>>
    BY DEF Remove, Run, Inv, TypeOK
  <1>2. JobIsFresh'
    BY <1>1 DEF JobIsFresh, Syncing
  <1>3. ASSUME NEW i \in AttIds, IsLive(i)', att'[i].group \notin twice' PROVE Due(i)' \/ Settled(i)'
    <2>1. IsLive(i) /\ OnRecord(i) /\ Key(i, att[i]) \in Keys /\ att[i].group \notin twice
      BY <1>1, <1>3, KeyTyped DEF IsLive, OnRecord, Inv, TypeOK
    <2>2. Key(i, att[i]) # job.step.key
      BY <2>1 DEF Remove, Live, JobIsFresh
    <2>3. nodes'[Key(i, att[i])] = nodes[Key(i, att[i])]
      BY <2>1, <2>2 DEF Remove, Inv, TypeOK
    <2> QED
      BY <1>1, <2>1, <2>3 DEF Remove, Live, SettledOrDue, Due, Settled
  <1> QED
    BY <1>2, <1>3 DEF SettledOrDue

LEMMA StartupLive ==
    ASSUME Inv, Live, StartupDone \/ \E id \in AttIds : StartupVisit(id)
    PROVE  JobIsFresh' /\ SettledOrDue'
  <1>1. CASE StartupDone
    <2>1. /\ job.step.pc = "idle" /\ job'.step = Syncing /\ job'.todo = job.todo
          /\ UNCHANGED <<att, vhci, nodes, tmpfiles, twice>>
      BY <1>1 DEF StartupDone, Run, Inv, TypeOK, Idle
    <2> QED
      BY <2>1 DEF Live, JobIsFresh, SettledOrDue, Due, Settled, IsLive, OnRecord, Syncing
  <1>2. ASSUME NEW id \in AttIds, StartupVisit(id) PROVE JobIsFresh' /\ SettledOrDue'
    <2>1. /\ OnRecord(id) /\ Key(id, att[id]) \in Keys
          /\ job.step.pc = "idle" /\ job.step # Syncing /\ job'.step # Syncing
          /\ job'.todo = job.todo \ {id} /\ UNCHANGED <<att, vhci, tmpfiles, twice>>
      BY <1>2, KeyTyped DEF StartupVisit, Inv, TypeOK, JobFits, OnRecord, Idle, Syncing
    <2>2. job'.step.pc \in {"idle", "resolve"}
      BY <1>2 DEF StartupVisit, Inv, TypeOK, Idle
    <2>3. JobIsFresh'
      BY <2>2 DEF JobIsFresh
    <2>4. ASSUME NEW i \in AttIds, IsLive(i)', att'[i].group \notin twice' PROVE Due(i)' \/ Settled(i)'
      <3>1. IsLive(i) /\ OnRecord(i) /\ att[i].group \notin twice
        BY <2>1, <2>4 DEF IsLive, OnRecord
      <3>2. CASE i = id
        <4>1. job'.step.pc = "resolve" /\ job'.step.id = id
          BY <1>2, <3>1, <3>2 DEF StartupVisit, Refreshes, IsLive
        <4> QED
          BY <3>2, <4>1 DEF Due
      <3>3. CASE i # id
        <4>1. Key(i, att[i]) # Key(id, att[id]) /\ Key(i, att[i]) \in Keys
          BY <2>1, <3>1, <3>3, KeysApart, KeyTyped DEF Inv, Live, TypeOK, OnRecord
        <4>2. nodes'[Key(i, att[i])] = nodes[Key(i, att[i])]
          BY <1>2, <2>1, <4>1 DEF StartupVisit, Inv, TypeOK
        <4> QED
          BY <2>1, <3>1, <3>3, <4>2 DEF Live, SettledOrDue, Due, Settled
      <3> QED
        BY <3>2, <3>3
    <2> QED
      BY <2>3, <2>4 DEF SettledOrDue
  <1> QED
    BY <1>1, <1>2

LEMMA RestartLive ==
    ASSUME Inv, Live, ClientRestart \/ HostReboot
    PROVE  Live'
  <1>1. /\ restoring' = NoTasks /\ UNCHANGED <<att, twice>>
        /\ job' = [todo |-> {id \in AttIds : OnRecord(id)}, step |-> Idle]
    BY DEF ClientRestart, HostReboot, Restarted
  <1>2. OnePerGroup' /\ CopiesAreDead'
    BY <1>1 DEF Live, OnePerGroup, CopiesAreDead, OnRecord, NoTasks
  <1>3. JobIsFresh'
    BY <1>1 DEF JobIsFresh, Idle
  <1>4. SettledOrDue'
    BY <1>1 DEF SettledOrDue, Due, IsLive, OnRecord
  <1> QED
    BY <1>2, <1>3, <1>4 DEF Live

LEMMA NextLive ==
    ASSUME Inv, Live, [Next]_vars
    PROVE  Live'
  <1>1. CASE JobStep
    <2>1. JobIsFresh' /\ SettledOrDue'
      BY <1>1, ResolveLive, PlaceLive, PersistLive, SyncLive, RemoveLive, StartupLive DEF JobStep
    <2> QED
      BY <1>1, <2>1, JobKeeps DEF Live
  <1>2. CASE UNCHANGED vars
    BY <1>2 DEF vars, Live, OnePerGroup, CopiesAreDead, JobIsFresh, SettledOrDue, Due, Settled,
                IsLive, OnRecord
  <1> QED
    BY <1>1, <1>2, UserLive, RestoreLive, KernelLive, RestartLive DEF Next

(* The node, the record and the boot entry of a live attachment agree      *)
(* whenever no handler is at work, for any number of attachments, tasks    *)
(* and crashes, whatever several restores of one record write back; a      *)
(* group that has had two records at a time shares one node among them     *)
(* (groups.py:182-262, usbip_client.py:318-379).                           *)
THEOREM NodesAgree == Spec => []LiveNodesAgree
  <1>1. Init => Inv /\ Live
    BY InitInv, InitLive
  <1>2. (Inv /\ Live) /\ [Next]_vars => (Inv /\ Live)'
    BY NextInv, NextLive
  <1>3. Inv /\ Live => LiveNodesAgree
    BY RestAgrees DEF LiveNodesAgree, Live
  <1> QED
    BY <1>1, <1>2, <1>3, PTL DEF Spec
=============================================================================

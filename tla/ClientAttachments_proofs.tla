----------------------- MODULE ClientAttachments_proofs -----------------------
(***************************************************************************)
(* Proofs about ClientAttachments, for every value of its constants: the   *)
(* typing of its state.                                                    *)
(*                                                                         *)
(* It rests on lemmas about the ways a stretch of a handler changes the    *)
(* table: each names the store A, the ports v and the exports x it starts  *)
(* from, as the operators of ClientAttachments do.                         *)
(***************************************************************************)
EXTENDS ClientAttachments, TLAPS

Table  == [AttIds -> Record \cup {None}]
Vhci   == [Ports -> LocalBusids \cup {None}]
Exports == [Devices -> ExportStates]

(* The restore of a record always has the record, and the candidates left  *)
(* to try are candidates.                                                  *)
WholeFrame(f) ==
    f.pc = "candidate" => /\ f.id # None => f.att # None
                          /\ f.untried \subseteq DOMAIN f.candidates
WholeFrames == \A t \in Tasks : WholeFrame(frame[t])

(* TypeOK and WholeFrames, in the two parts handlers do and do not change. *)
Handlers == snap \in Table /\ frame \in [Tasks -> Frame] /\ WholeFrames
Changing == /\ att \in Table /\ vhci \in Vhci /\ export \in Exports
            /\ requested \subseteq AttIds /\ Handlers
Resting  == /\ env \in DOMAIN Environments
            /\ servers \in [Servers -> ServerStates] /\ groups \in [Groups -> Group \cup {None}]
            /\ serialAt \in [Devices -> Serials \cup {None}]
            /\ reach \subseteq Servers /\ grace \in BOOLEAN
Typed    == Changing /\ Resting

-----------------------------------------------------------------------------
(* Records.                                                                *)

LEMMA ZeroIsCount == 0 \in FailureCounts
  BY ThresholdsAssumption DEF FailureCounts

(* A failure noted, or a success, keeps a record a record                  *)
(* (groups.py:85-106, 143-150).                                            *)
LEMMA BumpIsRecord ==
    ASSUME NEW a \in Record
    PROVE  Bump(a) \in Record
  BY DEF Bump, Record

LEMMA SuccessIsRecord ==
    ASSUME NEW a \in Record
    PROVE  NoteReconnectSuccess(a) \in Record
  BY ZeroIsCount DEF NoteReconnectSuccess, Record

(* A new attachment's record (groups.py:309-325, main.py:489-511).         *)
LEMMA NewRecordIsRecord ==
    ASSUME NEW d \in Devices, NEW serial \in Serials \cup {None}, NEW g \in Groups \cup {None},
           NEW flags \in [auto_failover : BOOLEAN, auto_rebind_on_backoff : BOOLEAN],
           NEW pb \in Ports \X LocalBusids
    PROVE  NewRecord(d, serial, g, flags, pb) \in Record
  BY ZeroIsCount DEF NewRecord, Record, Devices

(* The record of a reattached device.                                      *)
LEMMA ReattachedIsRecord ==
    ASSUME NEW a \in Record, NEW d \in Devices, NEW pb \in Ports \X LocalBusids
    PROVE  NoteReconnectSuccess([a EXCEPT !.busid = d[2], !.port = pb[1], !.local_busid = pb[2]])
               \in Record
  <1> DEFINE b == [a EXCEPT !.busid = d[2], !.port = pb[1], !.local_busid = pb[2]]
  <1>1. b \in Record
    BY DEF Record, Devices
  <1> QED
    BY <1>1, SuccessIsRecord

-----------------------------------------------------------------------------
(* The kernel.                                                             *)

LEMMA AttachableTyped ==
    ASSUME NEW v \in Vhci, NEW x \in Exports, NEW d \in Devices, NEW pb \in Attachable(v, x, d)
    PROVE  /\ pb \in Ports \X LocalBusids
           /\ Occupy(v, pb) \in Vhci /\ Export(x, d, pb) \in Exports
  <1>1. pb \in Ports \X LocalBusids
    BY LocalNamesAssumption DEF Attachable, FreePorts
  <1> QED
    BY <1>1 DEF Occupy, Export, Vhci, Exports, ExportStates

LEMMA AttachErrorsTyped ==
    ASSUME NEW v \in Vhci, NEW x \in Exports, NEW d \in Devices, NEW o \in AttachErrors(v, x, d)
    PROVE  o[1] \in Vhci /\ o[2] \in Exports
  BY AttachableTyped DEF AttachErrors

LEMMA DetachTyped ==
    ASSUME NEW v \in Vhci, NEW x \in Exports, NEW p \in Ports, NEW o \in DetachResults(v, x, p)
    PROVE  o[1] \in Vhci /\ o[2] \in Exports
  BY DEF DetachResults, Vhci, Exports, ExportStates

-----------------------------------------------------------------------------
(* How a stretch ends.                                                     *)

LEMMA ReturnTyped ==
    ASSUME Handlers, NEW t \in Tasks, NEW s \in Table, Return(t, s)
    PROVE  Handlers'
  <1>1. frame' \in [Tasks -> Frame]
    BY DEF Handlers, Return, Frame
  <1>2. WholeFrames'
    BY DEF Handlers, Return, WholeFrames, WholeFrame, Idle, Scan
  <1> QED
    BY <1>1, <1>2 DEF Handlers, Return

LEMMA RaiseTyped ==
    ASSUME Handlers, NEW t \in Tasks, NEW s \in Table, Raise(t, s)
    PROVE  Handlers'
  <1>1. frame' \in [Tasks -> Frame]
    BY DEF Handlers, Raise, Frame
  <1>2. WholeFrames'
    BY DEF Handlers, Raise, WholeFrames, WholeFrame, Idle
  <1>3. snap' \in Table
    BY DEF Raise, Table, NoSnap
  <1> QED
    BY <1>1, <1>2, <1>3 DEF Handlers

LEMMA AwaitTyped ==
    ASSUME Handlers, NEW t \in Tasks, NEW s \in Table, NEW f \in Frame, Await(t, s, f),
           WholeFrame(f)
    PROVE  Handlers'
  <1>1. frame' \in [Tasks -> Frame]
    BY DEF Handlers, Await
  <1>2. WholeFrames'
    BY DEF Handlers, Await, WholeFrames
  <1> QED
    BY <1>1, <1>2 DEF Handlers, Await

(* One record changed, or taken out.                                       *)
LEMMA SameInTable ==
    ASSUME NEW A \in Table, NEW n \in AttIds, NEW r \in Record
    PROVE  [A EXCEPT ![n] = r] \in Table
  BY DEF Table

LEMMA LessInTable ==
    ASSUME NEW A \in Table, NEW n \in AttIds
    PROVE  [A EXCEPT ![n] = None] \in Table
  BY DEF Table

-----------------------------------------------------------------------------
(* attach_group and the restore, over the store A, the ports v and the     *)
(* exports x.                                                              *)

(* What is captured with id: None, or a record.                            *)
Captures(id, a) ==
    \/ id = None /\ a = None
    \/ id \in AttIds /\ a \in Record /\ a # None

LEMMA PutBackOK ==
    ASSUME NEW A \in Table, NEW id, NEW a, Captures(id, a)
    PROVE  PutBack(A, id, a) \in Table
  <1>1. CASE id = None
    BY <1>1 DEF PutBack
  <1>2. CASE id # None
    <2>1. id \in AttIds /\ a \in Record
      BY <1>2 DEF Captures
    <2>2. Bump(a) \in Record
      BY <2>1, BumpIsRecord
    <2> QED
      BY <1>2, <2>1, <2>2, SameInTable DEF PutBack
  <1> QED
    BY <1>1, <1>2

LEMMA GroupFrameTyped ==
    ASSUME Resting, NEW g \in Groups, groups[g] # None,
           NEW id \in AttIds \cup {None}, NEW a \in Record \cup {None}
    PROVE  [pc |-> "candidate", group |-> g, candidates |-> groups[g].candidates,
            untried |-> Reachable(g), auto_failover |-> groups[g].auto_failover,
            id |-> id, att |-> a, reply |-> None] \in GroupFrame
  <1>1. groups[g] \in Group
    BY DEF Resting
  <1>2. groups[g].candidates \in CandidateLists /\ groups[g].auto_failover \in BOOLEAN
    BY <1>1 DEF Group
  <1>3. groups[g].candidates \in Seq(Devices)
    BY <1>2, ValuesAssumption
  <1>4. Reachable(g) \in SUBSET Nat
    BY <1>3 DEF Reachable
  <1> QED
    BY <1>2, <1>4 DEF GroupFrame

(* Refused, or waiting for the first candidate (groups.py:285-307).        *)
LEMMA BeginAttachGroupOK ==
    ASSUME Handlers, Resting, NEW t \in Tasks, NEW s \in Table, NEW g \in Groups,
           NEW id, NEW a, Captures(id, a), NEW A \in Table,
           BeginAttachGroup(t, s, g, id, a, A)
    PROVE  att' \in Table /\ Handlers'
  <1>1. CASE GroupRefused(A, g)
    <2>1. att' = PutBack(A, id, a) /\ Return(t, s)
      BY <1>1 DEF BeginAttachGroup
    <2> QED
      BY <2>1, PutBackOK, ReturnTyped
  <1>2. CASE ~GroupRefused(A, g)
    <2> DEFINE f == [pc |-> "candidate", group |-> g, candidates |-> groups[g].candidates,
                     untried |-> Reachable(g), auto_failover |-> groups[g].auto_failover,
                     id |-> id, att |-> a, reply |-> None]
    <2>1. att' = A /\ Await(t, s, f)
      BY <1>2 DEF BeginAttachGroup
    <2>2. groups[g] # None
      BY <1>2 DEF GroupRefused
    <2>3. id \in AttIds \cup {None} /\ a \in Record \cup {None}
      BY DEF Captures
    <2>4. f \in Frame
      BY <2>2, <2>3, GroupFrameTyped DEF Frame
    <2>5. /\ f.pc = "candidate" /\ f.id = id /\ f.att = a
          /\ f.untried = Reachable(g) /\ f.candidates = groups[g].candidates
      OBVIOUS
    <2>6. WholeFrame(f)
      BY <2>5 DEF Captures, WholeFrame, Reachable
    <2> HIDE DEF f
    <2>8. Handlers'
      BY <2>1, <2>4, <2>6, AwaitTyped
    <2> QED
      BY <2>1, <2>8
  <1> QED
    BY <1>1, <1>2

(* What a restore starts from, and what it leaves.                         *)
Start(t, s, id, a, A, v, x) ==
    /\ t \in Tasks /\ s \in Table
    /\ id \in AttIds /\ a \in Record /\ Captures(id, a)
    /\ A \in Table /\ v \in Vhci /\ x \in Exports

LEMMA ForgetOK ==
    ASSUME Changing, NEW t, NEW s, NEW id, NEW a, NEW A, NEW v, NEW x,
           Start(t, s, id, a, A, v, x), Forget(t, s, id, A, v, x)
    PROVE  Changing'
  <1>1. att' = [A EXCEPT ![id] = None] /\ Return(t, s)
    BY DEF Forget
  <1>2. att' \in Table
    BY <1>1, LessInTable DEF Start
  <1>3. Handlers'
    BY <1>1, ReturnTyped DEF Start, Changing
  <1> QED
    BY <1>2, <1>3 DEF Changing, Forget, Start

LEMMA RestoreGroupOK ==
    ASSUME Changing, Resting, NEW t, NEW s, NEW id, NEW a, NEW A, NEW v, NEW x,
           Start(t, s, id, a, A, v, x), a.group # None, RestoreGroup(t, s, id, a, A, v, x)
    PROVE  Changing'
  <1>1. a.group \in Groups
    BY DEF Start, Record
  <1>2. [A EXCEPT ![id] = None] \in Table
    BY LessInTable DEF Start
  <1>3. BeginAttachGroup(t, s, a.group, id, a, [A EXCEPT ![id] = None])
    BY DEF RestoreGroup
  <1>4. att' \in Table /\ Handlers'
    BY <1>1, <1>2, <1>3, BeginAttachGroupOK DEF Start, Changing
  <1> QED
    BY <1>4 DEF Changing, RestoreGroup, Start

(* The captured record with the new port, written back (groups.py:424-444).*)
LEMMA ReattachedOK ==
    ASSUME Changing, NEW t, NEW s, NEW id, NEW a, NEW A, NEW v, NEW x, NEW d \in Devices,
           Start(t, s, id, a, A, v, x), Reattached(t, s, id, a, A, v, x, d)
    PROVE  Changing'
  <1>1. PICK pb \in Attachable(v, x, d) :
          /\ att' = [A EXCEPT ![id] = NoteReconnectSuccess(
                        [a EXCEPT !.busid = d[2], !.port = pb[1], !.local_busid = pb[2]])]
          /\ vhci' = Occupy(v, pb) /\ export' = Export(x, d, pb)
          /\ requested' = requested
          /\ Return(t, s)
    BY DEF Reattached
  <1> DEFINE r == NoteReconnectSuccess(
                     [a EXCEPT !.busid = d[2], !.port = pb[1], !.local_busid = pb[2]])
  <1>2. pb \in Ports \X LocalBusids /\ vhci' \in Vhci /\ export' \in Exports
    BY <1>1, AttachableTyped DEF Start
  <1>3. r \in Record
    BY <1>2, ReattachedIsRecord DEF Start
  <1>4. att' = [A EXCEPT ![id] = r]
    BY <1>1
  <1> HIDE DEF r
  <1>5. att' \in Table
    BY <1>3, <1>4 DEF Start, Table
  <1>6. Handlers'
    BY <1>1, ReturnTyped DEF Start, Changing
  <1> QED
    BY <1>1, <1>2, <1>5, <1>6 DEF Changing

LEMMA NoteFailureOK ==
    ASSUME NEW A \in Table, NEW id \in AttIds
    PROVE  NoteReconnectFailure(A, id) \in Table
  <1>1. CASE A[id] = None
    BY <1>1 DEF NoteReconnectFailure
  <1>2. CASE A[id] # None
    <2>1. A[id] \in Record
      BY <1>2 DEF Table
    <2>2. Bump(A[id]) \in Record
      BY <2>1, BumpIsRecord
    <2>4. NoteReconnectFailure(A, id) = [A EXCEPT ![id] = Bump(A[id])]
      BY <1>2 DEF NoteReconnectFailure
    <2> QED
      BY <2>2, <2>4, SameInTable
  <1> QED
    BY <1>1, <1>2

(* A failure noted, perhaps a rebind requested (groups.py:85-140).         *)
LEMMA FailDirectOK ==
    ASSUME Changing, NEW t, NEW s, NEW id, NEW a, NEW A, NEW v, NEW x, NEW d \in Devices,
           NEW busy, Start(t, s, id, a, A, v, x), FailDirect(t, s, id, a, A, d, busy),
           vhci' \in Vhci, export' \in Exports
    PROVE  Changing'
  <1> DEFINE f == [pc |-> "rebind", id |-> id, device |-> d, reply |-> None]
  <1>1. att' = NoteReconnectFailure(A, id)
    BY DEF FailDirect
  <1>2. att' \in Table
    BY <1>1, NoteFailureOK DEF Start
  <1>3. requested' \subseteq AttIds
    BY DEF FailDirect, Start, Changing
  <1>4. Return(t, s) \/ Await(t, s, f)
    BY DEF FailDirect
  <1>5. f \in Frame /\ f.pc = "rebind"
    BY DEF Frame, RebindFrame, Start
  <1> HIDE DEF f
  <1>6. Handlers'
    BY <1>4, <1>5, ReturnTyped, AwaitTyped DEF Start, Changing, WholeFrame
  <1> QED
    BY <1>2, <1>3, <1>6 DEF Changing

(* A direct attachment's restore, up to its first await (groups.py:392-424).*)
LEMMA RestoreDirectOK ==
    ASSUME Changing, NEW t, NEW s, NEW id, NEW a, NEW A, NEW v, NEW x,
           Start(t, s, id, a, A, v, x), RestoreDirect(t, s, id, a, A, v, x)
    PROVE  Changing'
  <1> DEFINE d == <<a.server, a.busid>>
  <1>d. d \in Devices
    BY DEF Start, Record, Devices
  <1>1. CASE /\ att' = NoteReconnectFailure(A, id) /\ vhci' = v /\ export' = x
             /\ requested' = requested /\ Return(t, s)
    <2>1. att' \in Table
      BY <1>1, NoteFailureOK DEF Start
    <2>2. Handlers'
      BY <1>1, ReturnTyped DEF Start, Changing
    <2> QED
      BY <1>1, <2>1, <2>2 DEF Changing, Start
  <1>2. CASE Reattached(t, s, id, a, A, v, x, d)
    BY <1>2, <1>d, ReattachedOK
  <1>3. CASE att' = A /\ vhci' = v /\ export' = x /\ requested' = requested /\ Raise(t, s)
    <2>1. Handlers'
      BY <1>3, RaiseTyped DEF Start, Changing
    <2> QED
      BY <1>3, <2>1 DEF Changing, Start
  <1>4. CASE /\ \E o \in AttachErrors(v, x, d) : vhci' = o[1] /\ export' = o[2]
             /\ \/ FailDirect(t, s, id, a, A, d, Busy(x, d))
                \/ /\ att' = A /\ requested' = requested
                   /\ Await(t, s, [pc |-> "find", id |-> id, att |-> a, busy |-> Busy(x, d), reply |-> None])
    <2>1. vhci' \in Vhci /\ export' \in Exports
      BY <1>4, <1>d, AttachErrorsTyped DEF Start
    <2>2. CASE FailDirect(t, s, id, a, A, d, Busy(x, d))
      BY <2>1, <2>2, <1>d, FailDirectOK
    <2>3. CASE /\ att' = A /\ requested' = requested
               /\ Await(t, s, [pc |-> "find", id |-> id, att |-> a, busy |-> Busy(x, d), reply |-> None])
      <3> DEFINE f == [pc |-> "find", id |-> id, att |-> a, busy |-> Busy(x, d), reply |-> None]
      <3>1. f \in Frame /\ f.pc = "find" /\ f.id = id /\ f.att = a
        <4>1. Busy(x, d) \in BOOLEAN
          BY DEF Busy
        <4> QED
          BY <4>1 DEF Frame, FindFrame, Start
      <3>2. Await(t, s, f)
        BY <2>3
      <3> HIDE DEF f
      <3>3. Handlers'
        BY <3>1, <3>2, AwaitTyped DEF Start, Changing, WholeFrame
      <3>4. id # None
        BY NoneAssumption DEF Start, Captures
      <3> QED
        BY <2>1, <2>3, <3>3 DEF Changing, Start
    <2> QED
      BY <1>4, <2>2, <2>3
  <1> QED
    BY <1>1, <1>2, <1>3, <1>4 DEF RestoreDirect

(* _restore_dropped_attachment, up to its first await.                     *)
LEMMA RestoreOK ==
    ASSUME Changing, Resting, NEW t, NEW s, NEW id, NEW a, NEW A, NEW v, NEW x,
           Start(t, s, id, a, A, v, x), Restore(t, s, id, a, A, v, x)
    PROVE  Changing' /\ UNCHANGED <<env, servers, groups, serialAt, reach, grace>>
  <1>1. CASE Forget(t, s, id, A, v, x)
    BY <1>1, ForgetOK DEF Restore, config
  <1>2. CASE a.group # None /\ RestoreGroup(t, s, id, a, A, v, x)
    BY <1>2, RestoreGroupOK DEF Restore, config
  <1>3. CASE RestoreDirect(t, s, id, a, A, v, x)
    BY <1>3, RestoreDirectOK DEF Restore, config
  <1> QED
    BY <1>1, <1>2, <1>3 DEF Restore

-----------------------------------------------------------------------------
(* The steps of Next, one lemma per action.                                *)

(* A handler that leaves the servers and groups alone.                     *)
LEMMA EndsStep ==
    ASSUME Resting, Changing', UNCHANGED <<env, servers, groups, serialAt, reach, grace>>
    PROVE  Typed'
  BY DEF Resting, Typed

LEMMA WatchdogTickStep ==
    ASSUME Typed, WatchdogTick
    PROVE  Typed'
  <1> DEFINE s == [id \in AttIds |-> IF id \in Dropped THEN att[id] ELSE None]
  <1>1. s \in Table
    BY DEF Typed, Changing, Table
  <1>2. snap' = s /\ frame' = [frame EXCEPT ![Watchdog] = Scan]
    BY DEF WatchdogTick
  <1>3. frame' \in [Tasks -> Frame] /\ WholeFrames'
    BY <1>2 DEF Typed, Changing, Handlers, WholeFrames, WholeFrame, Frame, Scan
  <1> HIDE DEF s
  <1>6. Changing'
    BY <1>1, <1>2, <1>3 DEF Typed, Changing, Handlers, WatchdogTick, world
  <1>7. Resting'
    BY DEF Typed, Resting, WatchdogTick, world, config
  <1> QED
    BY <1>6, <1>7 DEF Typed

LEMMA NextSnap ==
    ASSUME Typed, NEW id \in AttIds
    PROVE  [snap EXCEPT ![id] = None] \in Table
  BY LessInTable DEF Typed, Changing, Handlers

LEMMA WatchdogSkipStep ==
    ASSUME Typed, NEW id \in AttIds, WatchdogSkip(id)
    PROVE  Typed'
  <1>1. Return(Watchdog, [snap EXCEPT ![id] = None]) /\ Watchdog \in Tasks
    BY DEF WatchdogSkip, Tasks
  <1>2. Handlers'
    BY <1>1, NextSnap, ReturnTyped DEF Typed, Changing
  <1>3. att' = att
    BY DEF WatchdogSkip
  <1>5. Changing'
    BY <1>2 DEF Typed, Changing, WatchdogSkip, world
  <1>6. Resting'
    BY DEF Typed, Resting, WatchdogSkip, world, config
  <1> QED
    BY <1>5, <1>6 DEF Typed

LEMMA WatchdogRestoreStep ==
    ASSUME Typed, NEW id \in AttIds, WatchdogRestore(id)
    PROVE  Typed'
  <1> DEFINE s == [snap EXCEPT ![id] = None]
  <1>1. Restore(Watchdog, s, id, snap[id], att, vhci, export) /\ snap[id] # None
    BY DEF WatchdogRestore, IsNext
  <1>2. s \in Table
    BY NextSnap
  <1>3. snap[id] \in Record
    BY <1>1 DEF Typed, Changing, Handlers, Table
  <1>5. Start(Watchdog, s, id, snap[id], att, vhci, export)
    BY <1>1, <1>2, <1>3 DEF Start, Captures, Tasks, Typed, Changing
  <1> QED
    BY <1>1, <1>5, RestoreOK, EndsStep DEF Typed

(* The table's record has only moved.                                      *)
LEMMA PushRelocatedStep ==
    ASSUME Typed, NEW t \in Pushes, NEW s \in Servers, NEW b \in Busids, NEW n, NEW id \in AttIds,
           PushRelocated(t, id, s, b, n)
    PROVE  Typed'
  <1> DEFINE a == [att[id] EXCEPT !.busid = b]
             A == [att EXCEPT ![id] = a]
  <1>1. att[id] \in Record /\ att[id] # None
    BY DEF PushRelocated, Relocated, Typed, Changing, Table
  <1>2. a \in Record
    BY <1>1 DEF Record
  <1>4. A \in Table
    BY <1>2, SameInTable DEF Typed, Changing
  <1>5. Restore(t, snap, id, a, A, vhci, export)
    BY DEF PushRelocated
  <1>6. a # None
    BY <1>2, NoRecordAssumption
  <1> HIDE DEF a, A
  <1>7. Start(t, snap, id, a, A, vhci, export)
    BY <1>2, <1>4, <1>6 DEF Start, Captures, Tasks, Typed, Changing, Handlers
  <1> QED
    BY <1>5, <1>7, RestoreOK, EndsStep DEF Typed

LEMMA PushMatchedStep ==
    ASSUME Typed, NEW t \in Pushes, NEW s \in Servers, NEW b \in Busids, NEW id \in AttIds,
           PushMatched(t, id, s, b)
    PROVE  Typed'
  <1>1. att[id] \in Record /\ att[id] # None
    BY DEF PushMatched, Matches, Typed, Changing, Table
  <1>3. ASSUME NEW v \in Vhci, NEW x \in Exports, Restore(t, snap, id, att[id], att, v, x)
        PROVE  Typed'
    <2>1. Start(t, snap, id, att[id], att, v, x)
      BY <1>1 DEF Start, Captures, Tasks, Typed, Changing, Handlers
    <2> QED
      BY <1>3, <2>1, RestoreOK, EndsStep DEF Typed
  <1>4. CASE \E o \in DetachResults(vhci, export, att[id].port) :
                Restore(t, snap, id, att[id], att, o[1], o[2])
    <2>1. PICK o \in DetachResults(vhci, export, att[id].port) :
                Restore(t, snap, id, att[id], att, o[1], o[2])
      BY <1>4
    <2>2. att[id].port \in Ports
      BY <1>1 DEF Record
    <2>3. o[1] \in Vhci /\ o[2] \in Exports
      BY <2>2, DetachTyped DEF Typed, Changing
    <2> QED
      BY <2>1, <2>3, <1>3
  <1>5. CASE Restore(t, snap, id, att[id], att, vhci, export)
    BY <1>5, <1>3 DEF Typed, Changing
  <1> QED
    BY <1>4, <1>5 DEF PushMatched

LEMMA PushesStep ==
    ASSUME Typed, PushStep
    PROVE  Typed'
  <1>1. PICK t \in Pushes, s \in Servers, b \in Busids : \E n : Push(t, s, b, n)
    BY DEF PushStep
  <1>2. PICK n : Push(t, s, b, n)
    BY <1>1
  <1>3. PICK id \in AttIds : PushMatched(t, id, s, b) \/ PushRelocated(t, id, s, b, n)
    BY <1>2 DEF Push
  <1> QED
    BY <1>3, PushMatchedStep, PushRelocatedStep

(* What the rest of a suspended handler may rely on.                       *)
LEMMA FrameKinds ==
    ASSUME Typed, NEW t \in Tasks
    PROVE  /\ frame[t].pc = "candidate" => frame[t] \in GroupFrame
           /\ frame[t].pc = "find"      => frame[t] \in FindFrame
           /\ frame[t].pc = "rebind"    => frame[t] \in RebindFrame
           /\ frame[t].pc = "lookup"    => frame[t] \in DirectFrame
           /\ frame[t].pc = "share"     => frame[t] \in ShareFrame
  <1>1. frame[t] \in Frame
    BY DEF Typed, Changing, Handlers
  <1>2. /\ \A f \in GroupFrame  : f.pc = "candidate"
        /\ \A f \in FindFrame   : f.pc = "find"
        /\ \A f \in RebindFrame : f.pc = "rebind"
        /\ \A f \in DirectFrame : f.pc = "lookup"
        /\ \A f \in ShareFrame  : f.pc = "share"
    BY DEF GroupFrame, FindFrame, RebindFrame, DirectFrame, ShareFrame
  <1> QED
    BY <1>1, <1>2 DEF Frame, Idle, Scan

(* A session's new record under a new id (groups.py:322, main.py:511).     *)
LEMMA NewAttachmentStep ==
    ASSUME Typed, NEW t \in Tasks, NEW d \in Devices, NEW pb \in Attachable(vhci, export, d),
           NEW n \in FreshIds, NEW serial \in Serials \cup {None}, NEW g \in Groups \cup {None},
           NEW flags \in [auto_failover : BOOLEAN, auto_rebind_on_backoff : BOOLEAN],
           att' = [att EXCEPT ![n] = NewRecord(d, serial, g, flags, pb)],
           vhci' = Occupy(vhci, pb), export' = Export(export, d, pb), Return(t, snap),
           UNCHANGED <<config, serialAt, reach, grace, requested>>
    PROVE  Typed'
  <1> DEFINE r == NewRecord(d, serial, g, flags, pb)
  <1>1. pb \in Ports \X LocalBusids /\ vhci' \in Vhci /\ export' \in Exports
    BY AttachableTyped DEF Typed, Changing
  <1>2. r \in Record
    BY <1>1, NewRecordIsRecord
  <1>3. att' = [att EXCEPT ![n] = r] /\ n \in AttIds
    BY DEF FreshIds
  <1> HIDE DEF r
  <1>4. att' \in Table
    BY <1>2, <1>3 DEF Typed, Changing, Table
  <1>5. Handlers'
    BY ReturnTyped DEF Typed, Changing, Handlers
  <1>8. Changing' /\ Resting'
    BY <1>1, <1>4, <1>5 DEF Typed, Changing, Resting, config
  <1> QED
    BY <1>8 DEF Typed

(* A stretch that ends in Return or Raise and leaves the table alone.      *)
LEMMA NothingRecorded ==
    ASSUME Typed, NEW t \in Tasks, Return(t, snap) \/ Raise(t, snap),
           vhci' \in Vhci, export' \in Exports,
           UNCHANGED <<config, att, serialAt, reach, grace, requested>>
    PROVE  Typed'
  <1>1. Handlers'
    BY ReturnTyped, RaiseTyped DEF Typed, Changing, Handlers
  <1>3. Changing' /\ Resting'
    BY <1>1 DEF Typed, Changing, Resting, config
  <1> QED
    BY <1>3 DEF Typed

(* A stretch that only starts to wait, and holds no record of its own.     *)
LEMMA OnlyAwaits ==
    ASSUME Typed, NEW t \in Tasks, NEW f \in Frame, f.pc \notin {"candidate", "find"},
           Await(t, snap, f),
           UNCHANGED <<config, att, vhci, export, serialAt, reach, grace, requested>>
    PROVE  Typed'
  <1>1. Handlers'
    BY AwaitTyped DEF Typed, Changing, Handlers, WholeFrame
  <1>4. Changing' /\ Resting'
    BY <1>1 DEF Typed, Changing, Resting, config
  <1> QED
    BY <1>4 DEF Typed

(* What a suspended restore has captured is a record.                      *)
LEMMA FrameCaptures ==
    ASSUME Typed, NEW t \in Tasks, frame[t].pc = "candidate"
    PROVE  frame[t].id # None => Captures(frame[t].id, frame[t].att)
  <1> SUFFICES ASSUME frame[t].id # None PROVE Captures(frame[t].id, frame[t].att)
    OBVIOUS
  <1>1. frame[t].id \in AttIds /\ frame[t].att \in Record \cup {None}
    BY FrameKinds DEF GroupFrame
  <1>2. frame[t].att # None
    BY DEF Typed, Changing, Handlers, WholeFrames, WholeFrame
  <1> QED
    BY <1>1, <1>2 DEF Captures

LEMMA TryCandidateStep ==
    ASSUME Typed, NEW t \in Tasks, TryCandidate(t)
    PROVE  Typed'
  <1> DEFINE f == frame[t]
  <1>1. f.pc = "candidate" /\ f \in GroupFrame /\ f.reply # None
    BY FrameKinds DEF TryCandidate
  <1>2. UNCHANGED <<env, servers, groups, serialAt, reach, grace, requested>>
    BY DEF TryCandidate, config
  <1>3. /\ f.group \in Groups /\ f.auto_failover \in BOOLEAN
        /\ f.reply \in [ok : BOOLEAN, serial : Serials \cup {None}]
        /\ f.candidates \in CandidateLists /\ f.untried \in SUBSET Nat
        /\ f.id \in AttIds \cup {None} /\ f.att \in Record \cup {None}
    BY <1>1 DEF GroupFrame
  <1>4. f.untried \subseteq DOMAIN f.candidates
    BY <1>1 DEF Typed, Changing, Handlers, WholeFrames, WholeFrame
  <1>5. f.candidates \in Seq(Devices)
    BY <1>3, ValuesAssumption
  <1>6. \A i \in f.untried : f.candidates[i] \in Devices
    BY <1>4, <1>5
  <1>7. PICK i \in f.untried :
          LET d == f.candidates[i]
              rest == f.untried \ {i}
              next == IF rest = {}
                      THEN att' = PutBack(att, f.id, f.att) /\ Return(t, snap)
                      ELSE att' = att /\ Await(t, snap, [f EXCEPT !.untried = rest, !.reply = None])
          IN  \/ \E pb \in Attachable(vhci, export, d), n \in FreshIds :
                    /\ att' = [att EXCEPT ![n] =
                          NewRecord(d, f.reply.serial, f.group,
                                    [auto_failover |-> f.auto_failover, auto_rebind_on_backoff |-> FALSE], pb)]
                    /\ vhci' = Occupy(vhci, pb) /\ export' = Export(export, d, pb)
                    /\ Return(t, snap)
              \/ \E o \in AttachErrors(vhci, export, d) :
                    vhci' = o[1] /\ export' = o[2] /\ next
              \/ UNCHANGED <<att, vhci, export>> /\ Raise(t, snap)
              \/ UNCHANGED <<vhci, export>> /\ next
    BY DEF TryCandidate
  <1> DEFINE d == f.candidates[i]
             rest == f.untried \ {i}
             next == IF rest = {}
                     THEN att' = PutBack(att, f.id, f.att) /\ Return(t, snap)
                     ELSE att' = att /\ Await(t, snap, [f EXCEPT !.untried = rest, !.reply = None])
  <1>d. d \in Devices
    BY <1>6
  <1>8. CASE \E pb \in Attachable(vhci, export, d), n \in FreshIds :
                    /\ att' = [att EXCEPT ![n] =
                          NewRecord(d, f.reply.serial, f.group,
                                    [auto_failover |-> f.auto_failover, auto_rebind_on_backoff |-> FALSE], pb)]
                    /\ vhci' = Occupy(vhci, pb) /\ export' = Export(export, d, pb)
                    /\ Return(t, snap)
    <2> DEFINE flags == [auto_failover |-> f.auto_failover, auto_rebind_on_backoff |-> FALSE]
    <2>1. flags \in [auto_failover : BOOLEAN, auto_rebind_on_backoff : BOOLEAN]
      BY <1>3
    <2>2. f.reply.serial \in Serials \cup {None}
      BY <1>3
    <2>3. PICK pb \in Attachable(vhci, export, d), n \in FreshIds :
                    /\ att' = [att EXCEPT ![n] = NewRecord(d, f.reply.serial, f.group, flags, pb)]
                    /\ vhci' = Occupy(vhci, pb) /\ export' = Export(export, d, pb)
                    /\ Return(t, snap)
      BY <1>8
    <2>4. UNCHANGED <<config, serialAt, reach, grace, requested>>
      BY <1>2 DEF config
    <2>5. f.group \in Groups \cup {None}
      BY <1>3
    <2> HIDE DEF f, d, flags
    <2> QED
      BY <1>d, <2>1, <2>2, <2>3, <2>4, <2>5, NewAttachmentStep
  <1>9. ASSUME next, vhci' \in Vhci, export' \in Exports PROVE Typed'
    <2>1. CASE rest = {}
      <3>1. att' = PutBack(att, f.id, f.att) /\ Return(t, snap)
        BY <1>9, <2>1
      <3>2. att' \in Table
        <4>1. CASE f.id = None
          BY <3>1, <4>1 DEF PutBack, Typed, Changing
        <4>2. CASE f.id # None
          BY <3>1, <4>2, <1>1, FrameCaptures, PutBackOK DEF Typed, Changing
        <4> QED
          BY <4>1, <4>2
      <3>3. Handlers'
        BY <3>1, ReturnTyped DEF Typed, Changing, Handlers
      <3>5. Changing' /\ Resting'
        BY <1>2, <1>9, <3>2, <3>3 DEF Typed, Changing, Resting
      <3> QED
        BY <3>5 DEF Typed
    <2>2. CASE rest # {}
      <3> DEFINE h == [f EXCEPT !.untried = rest, !.reply = None]
      <3>1. att' = att /\ Await(t, snap, h)
        BY <1>9, <2>2
      <3>2. /\ h \in GroupFrame /\ h.pc = "candidate" /\ h.id = f.id /\ h.att = f.att
            /\ h.untried = rest /\ h.candidates = f.candidates
        BY <1>1 DEF GroupFrame
      <3> HIDE DEF h
      <3>3. h \in Frame /\ WholeFrame(h)
        BY <1>1, <1>4, <3>2 DEF Frame, WholeFrame, WholeFrames, Typed, Changing, Handlers
      <3>5. Handlers'
        BY <3>1, <3>3, AwaitTyped DEF Typed, Changing, Handlers
      <3>7. Changing' /\ Resting'
        BY <1>2, <1>9, <3>1, <3>5 DEF Typed, Changing, Resting
      <3> QED
        BY <3>7 DEF Typed
    <2> QED
      BY <2>1, <2>2
  <1>10. CASE \E o \in AttachErrors(vhci, export, d) : vhci' = o[1] /\ export' = o[2] /\ next
    <2> HIDE DEF d, next
    <2>1. vhci' \in Vhci /\ export' \in Exports /\ next
      BY <1>10, <1>d, AttachErrorsTyped DEF Typed, Changing
    <2> QED
      BY <2>1, <1>9
  <1>11. CASE UNCHANGED <<att, vhci, export>> /\ Raise(t, snap)
    BY <1>11, <1>2, NothingRecorded DEF config, Typed, Changing
  <1>12. CASE UNCHANGED <<vhci, export>> /\ next
    <2> HIDE DEF next
    <2> QED
      BY <1>12, <1>9 DEF Typed, Changing
  <1> QED
    BY <1>7, <1>8, <1>10, <1>11, <1>12

LEMMA TryRelocatedStep ==
    ASSUME Typed, NEW t \in Tasks, TryRelocated(t)
    PROVE  Typed'
  <1> DEFINE f == frame[t]
             d == <<f.att.server, f.reply.busid>>
  <1>1. f.pc = "find" /\ f \in FindFrame /\ f.reply # None
    BY FrameKinds DEF TryRelocated
  <1>2. UNCHANGED <<env, servers, groups, serialAt, reach, grace>>
    BY DEF TryRelocated, config
  <1>3. /\ f.id \in AttIds /\ f.att \in Record /\ f.att # None
        /\ f.reply \in [busid : Busids \cup {None}]
    BY <1>1, NoRecordAssumption DEF FindFrame
  <1>5. Start(t, snap, f.id, f.att, att, vhci, export)
    BY <1>3 DEF Start, Captures, Typed, Changing, Handlers
  <1>6. <<f.att.server, f.att.busid>> \in Devices
    BY <1>3 DEF Record, Devices
  <1>7. f.reply.busid # None => d \in Devices
    BY <1>3 DEF Record, Devices
  <1>8. CASE /\ FailDirect(t, snap, f.id, f.att, att, <<f.att.server, f.att.busid>>, f.busy)
             /\ UNCHANGED <<vhci, export>>
    <2> HIDE DEF f, d
    <2>1. Changing'
      BY <1>8, <1>5, <1>6, FailDirectOK DEF Typed, Changing
    <2> QED
      BY <2>1, <1>2, EndsStep DEF Typed
  <1>9. CASE f.reply.busid # None /\ Reattached(t, snap, f.id, f.att, att, vhci, export, d)
    <2> HIDE DEF f, d
    <2>1. Changing'
      BY <1>9, <1>5, <1>7, ReattachedOK DEF Typed
    <2> QED
      BY <2>1, <1>2, EndsStep DEF Typed
  <1>10. CASE UNCHANGED <<att, vhci, export, requested>> /\ Raise(t, snap)
    BY <1>10, <1>2, NothingRecorded DEF Typed, Changing, config
  <1>11. CASE /\ f.reply.busid # None
              /\ \E o \in AttachErrors(vhci, export, d) : vhci' = o[1] /\ export' = o[2]
              /\ FailDirect(t, snap, f.id, f.att, att, d, Busy(export, d))
    <2> HIDE DEF f, d
    <2>1. vhci' \in Vhci /\ export' \in Exports
      BY <1>11, <1>7, AttachErrorsTyped DEF Typed, Changing
    <2>2. Changing'
      BY <2>1, <1>11, <1>5, <1>7, FailDirectOK DEF Typed
    <2> QED
      BY <2>2, <1>2, EndsStep DEF Typed
  <1> QED
    BY <1>8, <1>9, <1>10, <1>11 DEF TryRelocated

LEMMA RebindAnsweredStep ==
    ASSUME Typed, NEW t \in Tasks, RebindAnswered(t)
    PROVE  Typed'
  BY NothingRecorded DEF RebindAnswered, world, Typed, Changing

LEMMA DirectAttachStep ==
    ASSUME Typed, NEW t \in Users, NEW d \in Devices, NEW flags \in Flags, DirectAttach(t, d, flags)
    PROVE  Typed'
  <1> DEFINE f == [pc |-> "lookup", device |-> d, flags |-> flags, reply |-> None]
  <1>1. f \in Frame /\ f.pc = "lookup"
    BY DEF Frame, DirectFrame
  <1>2. Await(t, snap, f) /\ t \in Tasks
    BY DEF DirectAttach, Tasks
  <1> HIDE DEF f
  <1> QED
    BY <1>1, <1>2, OnlyAwaits DEF DirectAttach, world

LEMMA DirectTailStep ==
    ASSUME Typed, NEW t \in Tasks, NEW d \in Devices, NEW flags \in Flags,
           NEW serial \in Serials \cup {None}, DirectTail(t, d, flags, serial),
           UNCHANGED <<config, serialAt, reach, grace, requested>>
    PROVE  Typed'
  <1>1. flags \in [auto_failover : BOOLEAN, auto_rebind_on_backoff : BOOLEAN]
    BY ValuesAssumption
  <1>2. CASE \E pb \in Attachable(vhci, export, d), n \in FreshIds :
               /\ att' = [att EXCEPT ![n] = NewRecord(d, serial, None, flags, pb)]
               /\ vhci' = Occupy(vhci, pb) /\ export' = Export(export, d, pb)
               /\ Return(t, snap)
    BY <1>1, <1>2, NewAttachmentStep
  <1>3. CASE \E o \in AttachErrors(vhci, export, d) :
               vhci' = o[1] /\ export' = o[2] /\ att' = att /\ Return(t, snap)
    <2>1. vhci' \in Vhci /\ export' \in Exports
      BY <1>3, AttachErrorsTyped DEF Typed, Changing
    <2> QED
      BY <1>3, <2>1, NothingRecorded
  <1>4. CASE UNCHANGED <<att, vhci, export>> /\ Raise(t, snap)
    BY <1>4, NothingRecorded DEF Typed, Changing
  <1> QED
    BY <1>2, <1>3, <1>4 DEF DirectTail

LEMMA LookupAnsweredStep ==
    ASSUME Typed, NEW t \in Tasks, LookupAnswered(t)
    PROVE  Typed'
  <1> DEFINE f == frame[t]
             h == [pc |-> "share", device |-> f.device, flags |-> f.flags,
                   serial |-> f.reply.serial, reply |-> None]
  <1>1. f \in DirectFrame /\ f.reply # None
    BY FrameKinds DEF LookupAnswered
  <1>2. f.device \in Devices /\ f.flags \in Flags /\ f.reply.serial \in Serials \cup {None}
    BY <1>1 DEF DirectFrame
  <1>3. UNCHANGED <<config, serialAt, reach, grace, requested>>
    BY DEF LookupAnswered
  <1>4. CASE DirectTail(t, f.device, f.flags, f.reply.serial)
    BY <1>2, <1>3, <1>4, DirectTailStep
  <1>5. CASE Await(t, snap, h) /\ UNCHANGED <<att, vhci, export>>
    <2>1. h \in Frame /\ h.pc = "share"
      BY <1>2 DEF Frame, ShareFrame
    <2> HIDE DEF h
    <2> QED
      BY <1>3, <1>5, <2>1, OnlyAwaits
  <1>6. CASE Return(t, snap) /\ UNCHANGED <<att, vhci, export>>
    BY <1>3, <1>6, NothingRecorded DEF Typed, Changing
  <1> QED
    BY <1>4, <1>5, <1>6 DEF LookupAnswered

LEMMA ShareAnsweredStep ==
    ASSUME Typed, NEW t \in Tasks, ShareAnswered(t)
    PROVE  Typed'
  <1> DEFINE f == frame[t]
  <1>1. f \in ShareFrame
    BY FrameKinds DEF ShareAnswered
  <1>2. f.device \in Devices /\ f.flags \in Flags /\ f.serial \in Serials \cup {None}
    BY <1>1 DEF ShareFrame
  <1>3. UNCHANGED <<config, serialAt, reach, grace, requested>>
    BY DEF ShareAnswered
  <1>4. CASE DirectTail(t, f.device, f.flags, f.serial)
    BY <1>2, <1>3, <1>4, DirectTailStep
  <1>5. CASE Return(t, snap) /\ UNCHANGED <<att, vhci, export>>
    BY <1>3, <1>5, NothingRecorded DEF Typed, Changing
  <1> QED
    BY <1>4, <1>5 DEF ShareAnswered

LEMMA AttachGroupStep ==
    ASSUME Typed, NEW t \in Users, NEW g \in Groups, AttachGroup(t, g)
    PROVE  Typed'
  <1>1. att' \in Table /\ Handlers'
    BY BeginAttachGroupOK DEF AttachGroup, Typed, Changing, Handlers, Captures, Tasks
  <1>2. Changing' /\ Resting'
    BY <1>1 DEF Typed, Changing, Resting, AttachGroup, config, world
  <1> QED
    BY <1>1, <1>2 DEF Typed

-----------------------------------------------------------------------------
(* Steps that touch no handler.                                            *)

LEMMA QuietHandlers ==
    ASSUME Handlers, UNCHANGED <<snap, frame>>
    PROVE  Handlers'
  BY DEF Handlers, WholeFrames

(* A step of the world or of the user that leaves the records alone.       *)
LEMMA QuietStep ==
    ASSUME Typed, UNCHANGED <<att, snap, frame, requested>>,
           vhci' \in Vhci, export' \in Exports, Resting'
    PROVE  Typed'
  <1>1. Handlers'
    BY QuietHandlers DEF Typed, Changing
  <1> QED
    BY <1>1 DEF Typed, Changing

LEMMA DetachStep ==
    ASSUME Typed, NEW id \in AttIds, Detach(id)
    PROVE  Typed'
  <1>1. att[id].port \in Ports
    BY DEF Detach, Typed, Changing, Table, Record
  <1>2. vhci' \in Vhci /\ export' \in Exports
    BY <1>1, DetachTyped DEF Detach, Typed, Changing
  <1>3. att' = [att EXCEPT ![id] = None]
    BY DEF Detach
  <1>4. att' \in Table
    BY <1>3, LessInTable DEF Typed, Changing
  <1>5. Handlers'
    BY QuietHandlers DEF Typed, Changing, Detach
  <1>7. Changing' /\ Resting'
    BY <1>2, <1>4, <1>5 DEF Typed, Changing, Resting, Detach, config
  <1> QED
    BY <1>7 DEF Typed

LEMMA UpdateAttachmentStep ==
    ASSUME Typed, NEW id \in AttIds, NEW flags \in Flags, UpdateAttachment(id, flags)
    PROVE  Typed'
  <1> DEFINE r == [att[id] EXCEPT !.auto_failover = flags.auto_failover,
                                  !.auto_rebind_on_backoff = flags.auto_rebind_on_backoff]
  <1>1. att[id] \in Record /\ att[id] # None
    BY DEF UpdateAttachment, Typed, Changing, Table
  <1>2. flags.auto_failover \in BOOLEAN /\ flags.auto_rebind_on_backoff \in BOOLEAN
    BY ValuesAssumption
  <1>3. r \in Record
    BY <1>1, <1>2 DEF Record
  <1>4. att' = [att EXCEPT ![id] = r]
    BY DEF UpdateAttachment, Typed, Changing, Table
  <1> HIDE DEF r
  <1>6. att' \in Table
    BY <1>3, <1>4, SameInTable DEF Typed, Changing
  <1>7. Handlers'
    BY QuietHandlers DEF Typed, Changing, UpdateAttachment
  <1>9. Changing' /\ Resting'
    BY <1>6, <1>7 DEF Typed, Changing, Resting, UpdateAttachment, config, world
  <1> QED
    BY <1>9 DEF Typed

LEMMA ConfigStep ==
    ASSUME Typed,
           \/ \E s \in Servers : AddServer(s) \/ DeleteServer(s)
           \/ \E g \in Groups, c \in CandidateLists, auto \in BOOLEAN : SaveGroup(g, c, auto)
           \/ \E g \in Groups : DeleteGroup(g)
    PROVE  Typed'
  <1>1. Resting' /\ UNCHANGED <<att, snap, frame, requested, vhci, export>>
    BY DEF Typed, Resting, AddServer, DeleteServer, SaveGroup, DeleteGroup, Group,
           ServerStates, world
  <1> QED
    BY <1>1, QuietStep DEF Typed, Changing

LEMMA UserStepStep ==
    ASSUME Typed, UserStep
    PROVE  Typed'
  <1>1. Environments[env].flags \subseteq Flags
    BY EnvironmentsAssumption DEF Typed, Resting, Environment
  <1> QED
    BY <1>1, DirectAttachStep, AttachGroupStep, DetachStep, UpdateAttachmentStep, ConfigStep DEF UserStep

-----------------------------------------------------------------------------
(* The servers, the world, and the process itself.                         *)

(* An answer gives a handler what it waits for and no record.              *)
LEMMA AnswerOK ==
    ASSUME Typed, NEW t \in Tasks, NEW r, Answer(t, r), snap' = snap,
           [frame[t] EXCEPT !.reply = r] \in Frame,
           \/ frame[t].pc \in {"candidate", "find"}
           \/ [frame[t] EXCEPT !.reply = r].pc \notin {"candidate", "find"}
    PROVE  Handlers'
  <1> DEFINE h == [frame[t] EXCEPT !.reply = r]
  <1>1. frame' = [frame EXCEPT ![t] = h]
    BY DEF Answer
  <1>2. CASE frame[t].pc = "candidate"
    <2>1. /\ h.pc = "candidate" /\ h.id = frame[t].id /\ h.att = frame[t].att
          /\ h.untried = frame[t].untried /\ h.candidates = frame[t].candidates
      BY <1>2, FrameKinds DEF GroupFrame
    <2> HIDE DEF h
    <2>2. WholeFrame(h)
      BY <1>2, <2>1 DEF WholeFrame, WholeFrames, Typed, Changing, Handlers
    <2>3. Await(t, snap, h)
      BY <1>1 DEF Await
    <2> QED
      BY <2>2, <2>3, AwaitTyped DEF Typed, Changing, Handlers, h
  <1>3. CASE frame[t].pc = "find"
    <2>1. h.pc = "find" /\ h.id = frame[t].id /\ h.att = frame[t].att
      BY <1>3, FrameKinds DEF FindFrame
    <2> HIDE DEF h
    <2>2. WholeFrame(h)
      BY <2>1 DEF WholeFrame
    <2>3. Await(t, snap, h)
      BY <1>1 DEF Await
    <2> QED
      BY <2>2, <2>3, AwaitTyped DEF Typed, Changing, Handlers, h
  <1>4. CASE h.pc \notin {"candidate", "find"}
    <2> HIDE DEF h
    <2>1. WholeFrame(h)
      BY <1>4 DEF WholeFrame
    <2>2. Await(t, snap, h)
      BY <1>1 DEF Await
    <2> QED
      BY <1>4, <2>1, <2>2, AwaitTyped DEF Typed, Changing, Handlers, h
  <1> QED
    BY <1>2, <1>3, <1>4

LEMMA SeverTyped ==
    ASSUME Typed, NEW d \in Devices, NEW state \in {"absent", "unshared", "idle", "foreign"},
           Sever(d, state)
    PROVE  vhci' \in Vhci /\ export' \in Exports
  BY DEF Sever, Typed, Changing, Vhci, Exports, ExportStates

LEMMA ServeStep ==
    ASSUME Typed, NEW t \in Tasks, Serve(t)
    PROVE  Typed'
  <1> DEFINE f == frame[t]
  <1>1. UNCHANGED <<env, servers, groups, att, serialAt, reach, snap, grace, requested>>
    BY DEF Serve, config
  <1>2. ASSUME Handlers', vhci' \in Vhci, export' \in Exports
        PROVE  Typed'
    <2> QED
      BY <1>1, <1>2 DEF Typed, Changing, Resting
  <1>3. CASE ServeCandidate(t)
    <2>1. f.pc = "candidate" /\ f \in GroupFrame /\ UNCHANGED <<vhci, export>>
      BY <1>3, FrameKinds DEF ServeCandidate
    <2>2. PICK i \in f.untried :
            Answer(t, [ok |-> Status(f.candidates[i]) = "idle",
                       serial |-> IF Status(f.candidates[i]) = "idle"
                                  THEN serialAt[f.candidates[i]] ELSE None])
      BY <1>3 DEF ServeCandidate
    <2>3. f.candidates \in Seq(Devices) /\ i \in DOMAIN f.candidates
      BY <2>1, ValuesAssumption DEF GroupFrame, Typed, Changing, Handlers, WholeFrames, WholeFrame
    <2>4. serialAt[f.candidates[i]] \in Serials \cup {None}
      BY <2>3 DEF Typed, Resting
    <2> DEFINE r == [ok |-> Status(f.candidates[i]) = "idle",
                     serial |-> IF Status(f.candidates[i]) = "idle"
                                THEN serialAt[f.candidates[i]] ELSE None]
    <2>5. r \in [ok : BOOLEAN, serial : Serials \cup {None}]
      BY <2>4
    <2>6. Answer(t, r)
      BY <2>2
    <2> HIDE DEF r
    <2>7. [f EXCEPT !.reply = r] \in Frame
      BY <2>1, <2>5 DEF GroupFrame, Frame
    <2>8. Handlers'
      BY <1>1, <2>1, <2>6, <2>7, AnswerOK
    <2> QED
      BY <1>2, <2>1, <2>8 DEF Typed, Changing
  <1>4. CASE ServeFind(t)
    <2>1. f.pc = "find" /\ f \in FindFrame /\ UNCHANGED <<vhci, export>>
      BY <1>4, FrameKinds DEF ServeFind
    <2>2. PICK r \in [busid : Busids \cup {None}] : Answer(t, r)
      BY <1>4 DEF ServeFind
    <2>3. [f EXCEPT !.reply = r] \in Frame
      BY <2>1 DEF FindFrame, Frame
    <2>4. Handlers'
      BY <1>1, <2>1, <2>2, <2>3, AnswerOK
    <2> QED
      BY <1>2, <2>1, <2>4 DEF Typed, Changing
  <1>5. CASE ServeLookup(t)
    <2>1. f.pc = "lookup" /\ f \in DirectFrame /\ UNCHANGED <<vhci, export>>
      BY <1>5, FrameKinds DEF ServeLookup
    <2> DEFINE d == f.device
               r == [status |-> Status(d),
                     serial |-> IF Status(d) \in {"unshared", "idle"} THEN serialAt[d] ELSE None]
    <2>2. d \in Devices
      BY <2>1 DEF DirectFrame
    <2>3. r \in [status : {"unreachable", "absent", "unshared", "idle", "in_use"},
                 serial : Serials \cup {None}]
      BY <2>2 DEF Status, Typed, Resting
    <2>4. Answer(t, r)
      BY <1>5 DEF ServeLookup
    <2> HIDE DEF r
    <2>5. [f EXCEPT !.reply = r] \in Frame /\ [f EXCEPT !.reply = r].pc = "lookup"
      BY <2>1, <2>3 DEF DirectFrame, Frame
    <2>6. Handlers'
      BY <1>1, <2>4, <2>5, AnswerOK
    <2> QED
      BY <1>2, <2>1, <2>6 DEF Typed, Changing
  <1>6. CASE ServeShare(t)
    <2>1. f.pc = "share" /\ f \in ShareFrame /\ f.device \in Devices
      BY <1>6, FrameKinds DEF ServeShare, ShareFrame
    <2>2. PICK r \in {"done", "refused"} : Answer(t, r)
      BY <1>6 DEF ServeShare
    <2>3. vhci' \in Vhci /\ export' \in Exports
      BY <1>6, <2>1 DEF ServeShare, Typed, Changing, Exports, ExportStates
    <2>4. [f EXCEPT !.reply = r] \in Frame /\ [f EXCEPT !.reply = r].pc = "share"
      BY <2>1 DEF ShareFrame, Frame
    <2>5. Handlers'
      BY <1>1, <2>2, <2>4, AnswerOK
    <2> QED
      BY <1>2, <2>3, <2>5
  <1>7. CASE ServeRebind(t)
    <2>1. f.pc = "rebind" /\ f \in RebindFrame /\ f.device \in Devices
      BY <1>7, FrameKinds DEF ServeRebind, RebindFrame
    <2>2. vhci' \in Vhci /\ export' \in Exports
      BY <1>7, <2>1, SeverTyped DEF ServeRebind, Typed, Changing
    <2>3. [f EXCEPT !.reply = "done"] \in Frame /\ [f EXCEPT !.reply = "done"].pc = "rebind"
      BY <2>1 DEF RebindFrame, Frame
    <2>4. Handlers'
      BY <1>1, <1>7, <2>3, AnswerOK DEF ServeRebind
    <2> QED
      BY <1>2, <2>2, <2>4
  <1> QED
    BY <1>3, <1>4, <1>5, <1>6, <1>7 DEF Serve

LEMMA ResumeStep ==
    ASSUME Typed, NEW t \in Tasks, Resume(t)
    PROVE  Typed'
  BY TryCandidateStep, TryRelocatedStep, RebindAnsweredStep, LookupAnsweredStep, ShareAnsweredStep
     DEF Resume

LEMMA WorldStepStep ==
    ASSUME Typed, WorldStep
    PROVE  Typed'
  <1>1. UNCHANGED <<env, servers, groups, att, snap, frame, grace, requested>>
    BY DEF WorldStep, config
  <1>2. ASSUME vhci' \in Vhci, export' \in Exports, reach' \subseteq Servers,
               serialAt' \in [Devices -> Serials \cup {None}]
        PROVE  Typed'
    BY <1>1, <1>2, QuietStep DEF Typed, Resting
  <1>3. ASSUME NEW d \in Devices, Drop(d) \/ Grab(d) \/ Release(d) \/ Bind(d) \/ Unbind(d)
        PROVE  Typed'
    <2>1. vhci' \in Vhci /\ export' \in Exports
      BY <1>3, SeverTyped DEF Drop, Grab, Release, Bind, Unbind, Typed, Changing, Exports, ExportStates
    <2>2. UNCHANGED <<serialAt, reach>>
      BY <1>3 DEF Drop, Grab, Release, Bind, Unbind
    <2> QED
      BY <1>2, <2>1, <2>2 DEF Typed, Resting
  <1>4. ASSUME NEW p \in Ports, Reap(p) PROVE Typed'
    BY <1>2, <1>4 DEF Reap, Typed, Changing, Resting, Vhci
  <1>5. ASSUME NEW s \in Servers, Outage(s) \/ Heal(s) PROVE Typed'
    BY <1>2, <1>5 DEF Outage, Heal, Typed, Changing, Resting
  <1>6. ASSUME NEW s \in Servers, NEW from \in Busids, NEW to \in Busids, Renumber(s, from, to)
        PROVE  Typed'
    <2>1. <<s, from>> \in Devices /\ <<s, to>> \in Devices
      BY DEF Devices
    <2>2. vhci' \in Vhci
      BY <1>6 DEF Renumber, Typed, Changing, Vhci
    <2>3. export' \in Exports
      BY <1>6, <2>1 DEF Renumber, Typed, Changing, Exports, ExportStates
    <2>4. serialAt' \in [Devices -> Serials \cup {None}] /\ reach' = reach
      BY <1>6, <2>1 DEF Renumber, Typed, Resting
    <2> QED
      BY <1>2, <2>2, <2>3, <2>4 DEF Typed, Resting
  <1> QED
    BY <1>3, <1>4, <1>5, <1>6 DEF WorldStep

(* What a restart leaves: the records in config.json and no handler.       *)
LEMMA StoppedHandlers ==
    ASSUME snap' = NoSnap, frame' = [t \in Tasks |-> Idle]
    PROVE  Handlers'
  BY DEF NoSnap, Table, Handlers, WholeFrames, WholeFrame, Frame, Idle

LEMMA ProcessStep ==
    ASSUME Typed, GraceEnd \/ ClientRestart \/ HostReboot
    PROVE  Typed'
  <1>1. CASE GraceEnd
    BY <1>1, QuietStep DEF GraceEnd, config, world, Typed, Changing, Resting
  <1>2. CASE ClientRestart \/ HostReboot
    <2>1. Handlers' /\ att' = att
      BY <1>2, StoppedHandlers DEF ClientRestart, HostReboot
    <2>3. vhci' \in Vhci /\ export' \in Exports
      BY <1>2 DEF ClientRestart, HostReboot, world, Typed, Changing, Vhci, Exports, ExportStates
    <2>4. Changing' /\ Resting'
      BY <1>2, <2>1, <2>3 DEF ClientRestart, HostReboot, world, config, Typed, Changing, Resting
    <2> QED
      BY <2>4 DEF Typed
  <1> QED
    BY <1>1, <1>2

LEMMA NextStep ==
    ASSUME Typed, [Next]_vars
    PROVE  Typed'
  <1>1. CASE WatchdogStep
    BY <1>1, WatchdogTickStep, WatchdogSkipStep, WatchdogRestoreStep DEF WatchdogStep
  <1>2. ASSUME NEW t \in Tasks, TaskStep(t) PROVE Typed'
    BY <1>2, ServeStep, ResumeStep DEF TaskStep
  <1>3. CASE UNCHANGED vars
    BY <1>3, QuietStep DEF vars, Typed, Changing, Resting
  <1> QED
    BY <1>1, <1>2, <1>3, PushesStep, UserStepStep, WorldStepStep, ProcessStep DEF Next

-----------------------------------------------------------------------------
(* The theorems.                                                           *)

LEMMA InitTyped == Init => Typed
  <1> SUFFICES ASSUME Init PROVE Typed
    OBVIOUS
  <1>1. NoSnap \in Table
    BY DEF NoSnap, Table
  <1>2. /\ servers \in [Servers -> ServerStates]
        /\ export \in Exports /\ serialAt \in [Devices -> Serials \cup {None}]
    <2>1. Environments[env] \in Environment
      BY EnvironmentsAssumption DEF Init
    <2> QED
      BY <2>1 DEF Init, Environment, Exports, ExportStates, ServerStates
  <1>3. Handlers
    BY <1>1 DEF Init, Handlers, WholeFrames, WholeFrame, Frame, Idle
  <1> QED
    BY <1>1, <1>2, <1>3 DEF Init, Typed, Changing, Resting, Vhci, ServerStates

(* The state is well typed, whatever the servers answer and whichever      *)
(* handlers wait at the same time.                                         *)
THEOREM Typing == Spec => []TypeOK
  <1>1. Typed /\ [Next]_vars => Typed'
    BY NextStep
  <1>2. Typed => TypeOK
    BY DEF Typed, Changing, Resting, Handlers, TypeOK, Table, Vhci, Exports
  <1> QED
    BY InitTyped, <1>1, <1>2, PTL DEF Spec

=============================================================================

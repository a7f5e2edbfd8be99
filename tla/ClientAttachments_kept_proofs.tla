-------------------- MODULE ClientAttachments_kept_proofs --------------------
(***************************************************************************)
(* Proofs about ClientAttachments, for every value of its constants: which *)
(* steps take a record out of the table, what happens to its failure count *)
(* until then, and that a group once attached stays wanted.                *)
(*                                                                         *)
(* They rest on one invariant: all copies of a record, in the table, in a  *)
(* tick's snapshot and in the suspended handlers, are of the same group,   *)
(* so that a stale copy never changes what kind of attachment an id names. *)
(***************************************************************************)
EXTENDS ClientAttachments_proofs

(* Some copy of id i's record is of group g; None for a direct attachment. *)
Member(T, i, g) == T[i] # None /\ T[i].group = g
HeldIn(t, i, g) == /\ frame[t].pc \in {"candidate", "find"} /\ frame[t].id = i
                   /\ frame[t].att # None /\ frame[t].att.group = g
Copied(i, g)    == Member(snap, i, g) \/ \E t \in Tasks : HeldIn(t, i, g)
InGroup(i, g)   == Member(att, i, g) \/ Copied(i, g)

OneGroup == \A i \in AttIds, g, h \in Groups \cup {None} : InGroup(i, g) /\ InGroup(i, h) => g = h

(* attach_group restores a record of the group it attaches, and a device   *)
(* that has moved is looked for only for a direct attachment to be kept.   *)
FrameFits(f) ==
    /\ f.pc = "find" => f.att.group = None /\ f.att.auto_failover
    /\ f.pc = "candidate" /\ f.id # None => f.att.group = f.group
FramesFit == \A t \in Tasks : FrameFits(frame[t])

Kept == Typed /\ OneGroup /\ FramesFit

(* What a step does to the copies: none of another group, but those of a   *)
(* new record under an id that nothing names.                              *)
Members(T)    == \A i \in AttIds, g \in Groups \cup {None} : Member(T, i, g) => InGroup(i, g)
CopiesKept    == \A i \in AttIds, g \in Groups \cup {None} : Copied(i, g)' => InGroup(i, g)
GroupsKept    == \A i \in AttIds, g \in Groups \cup {None} : InGroup(i, g)' => InGroup(i, g)
NewMember(n)  == /\ \A g \in Groups \cup {None} : ~InGroup(n, g)
                 /\ \A i \in AttIds \ {n}, g \in Groups \cup {None} : InGroup(i, g)' => InGroup(i, g)
                 /\ \A g, h \in Groups \cup {None} : InGroup(n, g)' /\ InGroup(n, h)' => g = h
GroupsGrow    == GroupsKept \/ \E n \in AttIds : NewMember(n)

(* The ways a record may leave the table.                                  *)
GivenUp(i) == \/ ~att[i].auto_failover
              \/ snap[i] # None /\ ~snap[i].auto_failover
Leaves(i)  == \/ Detach(i)
              \/ GivenUp(i)
              \/ \E g \in Groups : att[i].group = g /\ Wanted(g)'

(* What a step makes of a record that is in the table.                     *)
Stays(i)   == /\ att'[i] # None /\ att'[i].group = att[i].group
              /\ \/ att'[i].failure_count >= att[i].failure_count
                 \/ att[i].group # None
                 \/ IsLive(vhci', att'[i])
Settled    == \A i \in AttIds : att[i] # None => Stays(i) \/ (att'[i] = None /\ Leaves(i))

(* A rebind is requested for the one failure that reaches the limit, or in *)
(* the startup window.                                                     *)
Rebinds(t) == LET id == frame'[t].id IN
              \/ id \in requested' \ requested
              \/ /\ att[id] # None /\ att[id].failure_count < FORCE_REBIND_AFTER_FAILURES
                 /\ att'[id].failure_count = FORCE_REBIND_AFTER_FAILURES
OneRebind  == \A t \in Tasks : frame[t].pc # "rebind" /\ frame'[t].pc = "rebind" => Rebinds(t)

Orderly == GroupsGrow /\ FramesFit' /\ Settled /\ OneRebind

-----------------------------------------------------------------------------
(* Records.                                                                *)

LEMMA BumpKeeps ==
    ASSUME NEW a \in Record
    PROVE  /\ Bump(a) \in Record /\ Bump(a) # None
           /\ Bump(a).group = a.group
           /\ Bump(a).failure_count >= a.failure_count
           /\ Bump(a).failure_count \in {a.failure_count, a.failure_count + 1}
           /\ a.failure_count <= FORCE_REBIND_AFTER_FAILURES =>
                Bump(a).failure_count = a.failure_count + 1
  <1>1. a.failure_count \in Nat /\ a.failure_count \in FailureCounts
    BY ThresholdsAssumption DEF Record, FailureCounts
  <1>2. Bump(a) \in Record
    BY BumpIsRecord
  <1>3. /\ Bump(a).group = a.group
        /\ Bump(a).failure_count = IF a.failure_count + 1 \in FailureCounts
                                   THEN a.failure_count + 1 ELSE a.failure_count
    BY DEF Bump, Record
  <1>4. a.failure_count <= FORCE_REBIND_AFTER_FAILURES => a.failure_count + 1 \in FailureCounts
    BY <1>1, ThresholdsAssumption DEF FailureCounts
  <1> QED
    BY <1>1, <1>2, <1>3, <1>4, NoRecordAssumption

(* A failure noted touches the count of one record that is there.          *)
LEMMA NoteFailureKeeps ==
    ASSUME NEW A \in Table, NEW id \in AttIds
    PROVE  LET B == NoteReconnectFailure(A, id)
           IN  /\ \A i \in AttIds \ {id} : B[i] = A[i]
               /\ A[id] = None => B = A
               /\ A[id] # None => A[id] \in Record /\ B[id] = Bump(A[id])
  BY DEF NoteReconnectFailure, Table

-----------------------------------------------------------------------------
(* How a stretch ends.                                                     *)

LEMMA ReturnKeeps ==
    ASSUME Kept, NEW t \in Tasks, NEW s \in Table, Members(s), Return(t, s) \/ Raise(t, s)
    PROVE  CopiesKept /\ FramesFit' /\ OneRebind
  <1>1. \A u \in Tasks : frame'[u] = frame[u] \/ frame'[u] \in {Idle, Scan}
    BY DEF Kept, Typed, Changing, Handlers, Return, Raise
  <1>2. snap' = s \/ snap' = NoSnap
    BY DEF Return, Raise
  <1>3. ASSUME NEW i \in AttIds, NEW g \in Groups \cup {None}, Copied(i, g)' PROVE InGroup(i, g)
    <2>1. CASE Member(snap, i, g)'
      BY <1>2, <2>1 DEF Members, Member, NoSnap
    <2>2. ASSUME NEW u \in Tasks, HeldIn(u, i, g)' PROVE HeldIn(u, i, g)
      BY <1>1, <2>2 DEF HeldIn, Idle, Scan
    <2> QED
      BY <1>3, <2>1, <2>2 DEF Copied, InGroup
  <1>4. FramesFit'
    BY <1>1 DEF Kept, FramesFit, FrameFits, Idle, Scan
  <1>5. OneRebind
    BY <1>1 DEF OneRebind, Idle, Scan
  <1> QED
    BY <1>3, <1>4, <1>5 DEF CopiesKept

LEMMA AwaitKeeps ==
    ASSUME Kept, NEW t \in Tasks, NEW s \in Table, Members(s), NEW f, Await(t, s, f), FrameFits(f),
           f.pc \in {"candidate", "find"} /\ f.att # None /\ f.id \in AttIds
               => InGroup(f.id, f.att.group),
           f.pc = "rebind" => Rebinds(t)
    PROVE  CopiesKept /\ FramesFit' /\ OneRebind
  <1>1. frame'[t] = f /\ \A u \in Tasks \ {t} : frame'[u] = frame[u]
    BY DEF Kept, Typed, Changing, Handlers, Await
  <1>2. ASSUME NEW i \in AttIds, NEW g \in Groups \cup {None}, Copied(i, g)' PROVE InGroup(i, g)
    <2>1. CASE Member(snap, i, g)'
      BY <2>1 DEF Await, Members, Member
    <2>2. ASSUME NEW u \in Tasks, HeldIn(u, i, g)' PROVE InGroup(i, g)
      <3>1. CASE u = t
        BY <1>1, <2>2, <3>1 DEF HeldIn
      <3>2. CASE u # t
        <4>1. HeldIn(u, i, g)
          BY <1>1, <2>2, <3>2 DEF HeldIn
        <4> QED
          BY <4>1 DEF InGroup, Copied
      <3> QED
        BY <3>1, <3>2
    <2> QED
      BY <1>2, <2>1, <2>2 DEF Copied
  <1>3. FramesFit'
    BY <1>1 DEF Kept, FramesFit
  <1>4. OneRebind
    BY <1>1 DEF OneRebind
  <1> QED
    BY <1>2, <1>3, <1>4 DEF CopiesKept

(* Where the store's records were all of their groups, so are all copies.  *)
LEMMA TableKept ==
    ASSUME CopiesKept, NEW T, att' = T, Members(T)
    PROVE  GroupsKept
  BY DEF GroupsKept, CopiesKept, Members, InGroup, Member

LEMMA OneInMembers ==
    ASSUME NEW A \in Table, Members(A), NEW n \in AttIds, NEW r \in Record, InGroup(n, r.group)
    PROVE  Members([A EXCEPT ![n] = r])
  <1> SUFFICES ASSUME NEW i \in AttIds, NEW g \in Groups \cup {None},
                      Member([A EXCEPT ![n] = r], i, g)
               PROVE  InGroup(i, g)
    BY DEF Members
  <1>1. CASE i = n
    BY <1>1 DEF Member, Table
  <1>2. CASE i # n
    <2>1. Member(A, i, g)
      BY <1>2 DEF Member, Table
    <2> QED
      BY <2>1 DEF Members
  <1> QED
    BY <1>1, <1>2

LEMMA LessInMembers ==
    ASSUME NEW A \in Table, Members(A), NEW n \in AttIds
    PROVE  Members([A EXCEPT ![n] = None])
  BY DEF Members, Member, Table

LEMMA CopiesAreMembers == Members(att) /\ Members(snap)
  BY DEF Members, InGroup, Copied

-----------------------------------------------------------------------------
(* The restore of id's record a, over the store A, the ports v and the     *)
(* exports x.                                                              *)

(* A differs from the table only in where a record's device is.            *)
SameTable(A) == \A i \in AttIds :
    /\ att[i] = None <=> A[i] = None
    /\ att[i] # None => A[i].failure_count = att[i].failure_count /\ A[i].group = att[i].group

Starts(t, s, id, a, A, v, x) ==
    /\ t \in Tasks /\ s \in Table /\ Members(s)
    /\ id \in AttIds /\ a \in Record /\ InGroup(id, a.group)
    /\ A \in Table /\ Members(A) /\ SameTable(A) /\ v \in Vhci /\ x \in Exports

LEMMA RecordTyped ==
    ASSUME NEW T \in Table, NEW i \in AttIds, T[i] # None
    PROVE  /\ T[i] \in Record /\ T[i].failure_count \in Nat
           /\ T[i].group \in Groups \cup {None}
  BY DEF Table, Record, FailureCounts

LEMMA SettledAsIs ==
    ASSUME Kept, NEW A \in Table, SameTable(A), att' = A
    PROVE  Settled
  <1> SUFFICES ASSUME NEW i \in AttIds, att[i] # None PROVE Stays(i)
    BY DEF Settled
  <1>1. att[i].failure_count \in Nat
    BY RecordTyped DEF Kept, Typed, Changing
  <1> QED
    BY <1>1 DEF SameTable, Stays

LEMMA SettledButOne ==
    ASSUME Kept, NEW A \in Table, SameTable(A), NEW id \in AttIds, NEW r, att' = [A EXCEPT ![id] = r],
           att[id] # None => Stays(id) \/ (att'[id] = None /\ Leaves(id))
    PROVE  Settled
  <1> SUFFICES ASSUME NEW i \in AttIds, att[i] # None, i # id PROVE Stays(i)
    BY DEF Settled
  <1>1. att[i].failure_count \in Nat
    BY RecordTyped DEF Kept, Typed, Changing
  <1>2. att'[i] = A[i]
    BY DEF Table
  <1> QED
    BY <1>1, <1>2 DEF SameTable, Stays

(* All copies of one record are of one group.                              *)
LEMMA SameGroup ==
    ASSUME Kept, NEW id \in AttIds, NEW a \in Record, InGroup(id, a.group), att[id] # None
    PROVE  att[id].group = a.group
  <1>1. att[id].group \in Groups \cup {None} /\ a.group \in Groups \cup {None}
    BY RecordTyped DEF Record, Kept, Typed, Changing
  <1>2. InGroup(id, att[id].group)
    BY DEF InGroup, Member
  <1> QED
    BY <1>1, <1>2 DEF Kept, OneGroup

LEMMA ForgetKeeps ==
    ASSUME Kept, NEW t, NEW s, NEW id, NEW a, NEW A, NEW v, NEW x,
           Starts(t, s, id, a, A, v, x), GivenUp(id), Forget(t, s, id, A, v, x)
    PROVE  Orderly
  <1>1. att' = [A EXCEPT ![id] = None] /\ Return(t, s)
    BY DEF Forget
  <1>2. att'[id] = None /\ Leaves(id)
    BY <1>1 DEF Starts, Table, Leaves
  <1>3. Settled
    BY <1>1, <1>2, SettledButOne DEF Starts
  <1>4. Members([A EXCEPT ![id] = None])
    BY LessInMembers DEF Starts
  <1>5. CopiesKept /\ FramesFit' /\ OneRebind
    BY <1>1, ReturnKeeps DEF Starts
  <1>6. GroupsKept
    BY <1>1, <1>4, <1>5, TableKept
  <1> QED
    BY <1>3, <1>5, <1>6 DEF Orderly, GroupsGrow

(* A captured record that goes back into the table (groups.py:386-390).    *)
LEMMA PutBackKeeps ==
    ASSUME Kept, NEW A \in Table, Members(A), NEW id \in AttIds, NEW a \in Record,
           InGroup(id, a.group), a.group # None, att' = PutBack(A, id, a)
    PROVE  /\ att' = [A EXCEPT ![id] = Bump(a)]
           /\ Members(PutBack(A, id, a))
           /\ att[id] # None => Stays(id)
           /\ Member(att, id, a.group)'
  <1>1. att' = [A EXCEPT ![id] = Bump(a)] /\ PutBack(A, id, a) = [A EXCEPT ![id] = Bump(a)]
    BY NoneAssumption DEF PutBack
  <1>2. Bump(a) \in Record /\ Bump(a) # None /\ Bump(a).group = a.group
    BY BumpKeeps
  <1>3. att'[id] = Bump(a)
    BY <1>1 DEF Table
  <1>4. Members(PutBack(A, id, a))
    BY <1>1, <1>2, OneInMembers
  <1> QED
    BY <1>1, <1>2, <1>3, <1>4, SameGroup DEF Stays, Member

LEMMA RestoreGroupKeeps ==
    ASSUME Kept, NEW t, NEW s, NEW id, NEW a, NEW A, NEW v, NEW x,
           Starts(t, s, id, a, A, v, x), a.group # None, RestoreGroup(t, s, id, a, A, v, x)
    PROVE  Orderly
  <1> DEFINE B == [A EXCEPT ![id] = None]
             g == a.group
  <1>1. B \in Table /\ Members(B)
    BY LessInMembers DEF Starts, Table
  <1>2. BeginAttachGroup(t, s, g, id, a, B)
    BY DEF RestoreGroup
  <1>3. CASE GroupRefused(B, g)
    <2>1. att' = PutBack(B, id, a) /\ Return(t, s)
      BY <1>2, <1>3 DEF BeginAttachGroup
    <2>2. /\ att' = [B EXCEPT ![id] = Bump(a)] /\ Members(PutBack(B, id, a))
          /\ att[id] # None => Stays(id)
      BY <1>1, <2>1, PutBackKeeps DEF Starts
    <2>3. att' = [A EXCEPT ![id] = Bump(a)]
      BY <2>2 DEF Starts, Table
    <2>4. Settled
      BY <2>2, <2>3, SettledButOne DEF Starts
    <2>5. CopiesKept /\ FramesFit' /\ OneRebind
      BY <2>1, ReturnKeeps DEF Starts
    <2>6. GroupsKept
      BY <2>1, <2>2, <2>5, TableKept
    <2> QED
      BY <2>4, <2>5, <2>6 DEF Orderly, GroupsGrow
  <1>4. CASE ~GroupRefused(B, g)
    <2> DEFINE f == [pc |-> "candidate", group |-> g, candidates |-> groups[g].candidates,
                     untried |-> Reachable(g), auto_failover |-> groups[g].auto_failover,
                     id |-> id, att |-> a, reply |-> None]
    <2>1. att' = B /\ Await(t, s, f)
      BY <1>2, <1>4 DEF BeginAttachGroup
    <2>2. f.pc = "candidate" /\ f.group = g /\ f.id = id /\ f.att = a
      OBVIOUS
    <2> HIDE DEF f
    <2>3. CopiesKept /\ FramesFit' /\ OneRebind
      BY <2>1, <2>2, AwaitKeeps DEF Starts, FrameFits
    <2>4. frame'[t] = f
      BY <2>1 DEF Await, Starts, Kept, Typed, Changing, Handlers
    <2>5. Wanted(g)'
      BY <2>2, <2>4, NoneAssumption DEF Wanted, Starts
    <2>6. att[id] # None => att'[id] = None /\ Leaves(id)
      <3>1. att[id] # None => att[id].group = g
        BY SameGroup DEF Starts
      <3>2. g \in Groups
        BY DEF Starts, Record
      <3>3. att'[id] = None
        BY <2>1 DEF Starts, Table
      <3> QED
        BY <2>5, <3>1, <3>2, <3>3 DEF Leaves
    <2>7. Settled
      BY <2>1, <2>6, SettledButOne DEF Starts
    <2>8. GroupsKept
      BY <1>1, <2>1, <2>3, TableKept
    <2> QED
      BY <2>3, <2>7, <2>8 DEF Orderly, GroupsGrow
  <1> QED
    BY <1>3, <1>4

(* The record as it was, over the device's new place (groups.py:424-444).  *)
LEMMA ReattachedKeeps ==
    ASSUME Kept, NEW t, NEW s, NEW id, NEW a, NEW A, NEW v, NEW x, NEW d \in Devices,
           Starts(t, s, id, a, A, v, x), Reattached(t, s, id, a, A, v, x, d)
    PROVE  Orderly
  <1>1. PICK pb \in Attachable(v, x, d) :
          /\ att' = [A EXCEPT ![id] = NoteReconnectSuccess(
                        [a EXCEPT !.busid = d[2], !.port = pb[1], !.local_busid = pb[2]])]
          /\ vhci' = Occupy(v, pb)
          /\ Return(t, s)
    BY DEF Reattached
  <1> DEFINE r == NoteReconnectSuccess(
                     [a EXCEPT !.busid = d[2], !.port = pb[1], !.local_busid = pb[2]])
  <1>2. pb \in Ports \X LocalBusids
    BY AttachableTyped DEF Starts
  <1>3. r \in Record
    BY <1>2, ReattachedIsRecord DEF Starts
  <1>4. r.group = a.group /\ r.port = pb[1] /\ r.local_busid = pb[2]
    BY <1>2 DEF NoteReconnectSuccess, Starts, Record
  <1>5. att' = [A EXCEPT ![id] = r]
    BY <1>1
  <1> HIDE DEF r
  <1>6. att'[id] = r
    BY <1>5 DEF Starts, Table
  <1>7. IsLive(vhci', att'[id])
    BY <1>1, <1>2, <1>4, <1>6 DEF IsLive, Occupy, Starts, Vhci
  <1>8. att[id] # None => Stays(id)
    BY <1>3, <1>4, <1>6, <1>7, SameGroup, NoRecordAssumption DEF Stays, Starts
  <1>9. Settled
    BY <1>5, <1>8, SettledButOne DEF Starts
  <1>10. Members([A EXCEPT ![id] = r])
    BY <1>3, <1>4, OneInMembers DEF Starts
  <1>11. CopiesKept /\ FramesFit' /\ OneRebind
    BY <1>1, ReturnKeeps DEF Starts
  <1>12. GroupsKept
    BY <1>5, <1>10, <1>11, TableKept
  <1> QED
    BY <1>9, <1>11, <1>12 DEF Orderly, GroupsGrow

LEMMA NotedKeeps ==
    ASSUME Kept, NEW A \in Table, Members(A), SameTable(A), NEW id \in AttIds,
           att' = NoteReconnectFailure(A, id)
    PROVE  Settled /\ Members(NoteReconnectFailure(A, id))
  <1>1. CASE A[id] = None
    BY <1>1, NoteFailureKeeps, SettledAsIs
  <1>2. CASE A[id] # None
    <2>1. A[id] \in Record /\ NoteReconnectFailure(A, id) = [A EXCEPT ![id] = Bump(A[id])]
      BY <1>2, RecordTyped DEF NoteReconnectFailure
    <2>2. /\ Bump(A[id]) \in Record /\ Bump(A[id]) # None /\ Bump(A[id]).group = A[id].group
          /\ Bump(A[id]).failure_count >= A[id].failure_count
      BY <2>1, BumpKeeps
    <2>3. InGroup(id, Bump(A[id]).group)
      BY <1>2, <2>1, <2>2, RecordTyped DEF Members, Member
    <2>4. Members(NoteReconnectFailure(A, id))
      BY <2>1, <2>2, <2>3, OneInMembers
    <2>5. att'[id] = Bump(A[id])
      BY <2>1 DEF Table
    <2>6. att[id] # None => Stays(id)
      BY <2>2, <2>5 DEF SameTable, Stays
    <2> QED
      BY <2>1, <2>4, <2>6, SettledButOne
  <1> QED
    BY <1>1, <1>2

(* The limit is reached by the failure that is just noted, and only once.  *)
LEMMA LimitReached ==
    ASSUME NEW A \in Table, SameTable(A), NEW id \in AttIds, att' = NoteReconnectFailure(A, id),
           ResultCount(NoteReconnectFailure(A, id), id) = FORCE_REBIND_AFTER_FAILURES
    PROVE  /\ att[id] # None /\ att[id].failure_count < FORCE_REBIND_AFTER_FAILURES
           /\ att'[id].failure_count = FORCE_REBIND_AFTER_FAILURES
  <1>1. att'[id] # None /\ att'[id].failure_count = FORCE_REBIND_AFTER_FAILURES
    BY ThresholdsAssumption DEF ResultCount
  <1>2. A[id] # None /\ A[id] \in Record /\ att'[id] = Bump(A[id])
    BY <1>1, NoteFailureKeeps
  <1>3. A[id].failure_count \in Nat
    BY <1>2, RecordTyped
  <1>4. A[id].failure_count < FORCE_REBIND_AFTER_FAILURES
    BY <1>1, <1>2, <1>3, BumpKeeps, ThresholdsAssumption
  <1> QED
    BY <1>1, <1>2, <1>4 DEF SameTable

LEMMA FailDirectKeeps ==
    ASSUME Kept, NEW t, NEW s, NEW id, NEW a, NEW A, NEW v, NEW x, NEW d, NEW busy,
           Starts(t, s, id, a, A, v, x), FailDirect(t, s, id, a, A, d, busy)
    PROVE  Orderly
  <1> DEFINE f == [pc |-> "rebind", id |-> id, device |-> d, reply |-> None]
             B == NoteReconnectFailure(A, id)
  <1>1. att' = B
    BY DEF FailDirect
  <1>2. Settled /\ Members(B)
    BY <1>1, NotedKeeps DEF Starts
  <1>3. CopiesKept /\ FramesFit' /\ OneRebind
    <2>1. CASE Return(t, s)
      BY <2>1, ReturnKeeps DEF Starts
    <2>2. CASE /\ Await(t, s, f)
               /\ \/ ResultCount(B, id) = FORCE_REBIND_AFTER_FAILURES
                  \/ id \in requested' \ requested
      <3>1. f.pc = "rebind" /\ f.id = id
        OBVIOUS
      <3> HIDE DEF f
      <3>2. frame'[t] = f
        BY <2>2 DEF Await, Starts, Kept, Typed, Changing, Handlers
      <3>3. Rebinds(t)
        BY <1>1, <2>2, <3>1, <3>2, LimitReached DEF Rebinds, Starts
      <3> QED
        BY <2>2, <3>1, <3>3, AwaitKeeps DEF Starts, FrameFits
    <2> QED
      BY <2>1, <2>2 DEF FailDirect
  <1>4. GroupsKept
    BY <1>1, <1>2, <1>3, TableKept
  <1> QED
    BY <1>2, <1>3, <1>4 DEF Orderly, GroupsGrow

LEMMA RestoreDirectKeeps ==
    ASSUME Kept, NEW t, NEW s, NEW id, NEW a, NEW A, NEW v, NEW x,
           Starts(t, s, id, a, A, v, x), a.group = None, a.auto_failover,
           RestoreDirect(t, s, id, a, A, v, x)
    PROVE  Orderly
  <1> DEFINE d == <<a.server, a.busid>>
  <1>d. d \in Devices
    BY DEF Starts, Record, Devices
  <1>1. CASE att' = NoteReconnectFailure(A, id) /\ Return(t, s)
    <2>1. Settled /\ Members(NoteReconnectFailure(A, id))
      BY <1>1, NotedKeeps DEF Starts
    <2>2. CopiesKept /\ FramesFit' /\ OneRebind
      BY <1>1, ReturnKeeps DEF Starts
    <2> QED
      BY <1>1, <2>1, <2>2, TableKept DEF Orderly, GroupsGrow
  <1>2. CASE Reattached(t, s, id, a, A, v, x, d)
    BY <1>2, <1>d, ReattachedKeeps
  <1>3. CASE att' = A /\ Raise(t, s)
    <2>1. CopiesKept /\ FramesFit' /\ OneRebind
      BY <1>3, ReturnKeeps DEF Starts
    <2> QED
      BY <1>3, <2>1, SettledAsIs, TableKept DEF Orderly, GroupsGrow, Starts
  <1>4. CASE FailDirect(t, s, id, a, A, d, Busy(x, d))
    BY <1>4, FailDirectKeeps
  <1>5. CASE att' = A /\ Await(t, s, [pc |-> "find", id |-> id, att |-> a, busy |-> Busy(x, d), reply |-> None])
    <2> DEFINE f == [pc |-> "find", id |-> id, att |-> a, busy |-> Busy(x, d), reply |-> None]
    <2>1. f.pc = "find" /\ f.id = id /\ f.att = a
      OBVIOUS
    <2>2. Await(t, s, f)
      BY <1>5
    <2> HIDE DEF f
    <2>3. CopiesKept /\ FramesFit' /\ OneRebind
      BY <2>1, <2>2, AwaitKeeps DEF Starts, FrameFits
    <2> QED
      BY <1>5, <2>3, SettledAsIs, TableKept DEF Orderly, GroupsGrow, Starts
  <1> QED
    BY <1>1, <1>2, <1>3, <1>4, <1>5 DEF RestoreDirect

LEMMA RestoreKeeps ==
    ASSUME Kept, NEW t, NEW s, NEW id, NEW a, NEW A, NEW v, NEW x,
           Starts(t, s, id, a, A, v, x), ~a.auto_failover => GivenUp(id),
           Restore(t, s, id, a, A, v, x)
    PROVE  Orderly
  <1>1. a.auto_failover \in BOOLEAN
    BY DEF Starts, Record
  <1> QED
    BY <1>1, ForgetKeeps, RestoreGroupKeeps, RestoreDirectKeeps DEF Restore

-----------------------------------------------------------------------------
(* The steps of Next, one lemma per action.                                *)

LEMMA SameTableItself == SameTable(att)
  BY DEF SameTable

(* A step that leaves the records alone.                                   *)
LEMMA UntouchedKeeps ==
    ASSUME Kept, att' = att, CopiesKept, FramesFit', OneRebind
    PROVE  Orderly
  <1>1. att \in Table
    BY DEF Kept, Typed, Changing
  <1> QED
    BY <1>1, SameTableItself, SettledAsIs, TableKept, CopiesAreMembers DEF Orderly, GroupsGrow

LEMMA QuietKeeps ==
    ASSUME Kept, UNCHANGED <<snap, frame>>
    PROVE  CopiesKept /\ FramesFit' /\ OneRebind
  BY DEF CopiesKept, Copied, InGroup, Member, HeldIn, Kept, FramesFit, OneRebind

LEMMA NextSnapMembers ==
    ASSUME Kept, NEW id \in AttIds
    PROVE  [snap EXCEPT ![id] = None] \in Table /\ Members([snap EXCEPT ![id] = None])
  BY LessInMembers, CopiesAreMembers DEF Kept, Typed, Changing, Handlers, Table

(* A stretch that ends in Return or Raise and leaves the records alone.    *)
LEMMA NothingKept ==
    ASSUME Kept, NEW t \in Tasks, Return(t, snap) \/ Raise(t, snap), att' = att
    PROVE  Orderly
  <1>1. snap \in Table
    BY DEF Kept, Typed, Changing, Handlers
  <1> QED
    BY <1>1, CopiesAreMembers, ReturnKeeps, UntouchedKeeps

(* A stretch that only starts to wait, and holds no record of its own.     *)
LEMMA OnlyAwaitsKeeps ==
    ASSUME Kept, NEW t \in Tasks, NEW f, f.pc \in {"lookup", "share"}, Await(t, snap, f), att' = att
    PROVE  Orderly
  <1>1. snap \in Table
    BY DEF Kept, Typed, Changing, Handlers
  <1>2. FrameFits(f)
    BY DEF FrameFits
  <1> QED
    BY <1>1, <1>2, CopiesAreMembers, AwaitKeeps, UntouchedKeeps

LEMMA WatchdogTickKeeps ==
    ASSUME Kept, WatchdogTick
    PROVE  Orderly
  <1>1. /\ snap' = [id \in AttIds |-> IF id \in Dropped THEN att[id] ELSE None]
        /\ \A u \in Tasks : frame'[u] = frame[u] \/ frame'[u] = Scan
        /\ att' = att
    BY DEF WatchdogTick, Kept, Typed, Changing, Handlers
  <1>2. ASSUME NEW i \in AttIds, NEW g \in Groups \cup {None}, Copied(i, g)' PROVE InGroup(i, g)
    <2>1. CASE Member(snap, i, g)'
      BY <1>1, <2>1 DEF Member, InGroup
    <2>2. ASSUME NEW u \in Tasks, HeldIn(u, i, g)' PROVE HeldIn(u, i, g)
      BY <1>1, <2>2 DEF HeldIn, Scan
    <2> QED
      BY <1>2, <2>1, <2>2 DEF Copied, InGroup
  <1>3. FramesFit' /\ OneRebind
    BY <1>1 DEF Kept, FramesFit, FrameFits, OneRebind, Scan
  <1> QED
    BY <1>1, <1>2, <1>3, UntouchedKeeps DEF CopiesKept

LEMMA WatchdogSkipKeeps ==
    ASSUME Kept, NEW id \in AttIds, WatchdogSkip(id)
    PROVE  Orderly
  <1>1. Return(Watchdog, [snap EXCEPT ![id] = None]) /\ Watchdog \in Tasks /\ att' = att
    BY DEF WatchdogSkip, Tasks
  <1> QED
    BY <1>1, NextSnapMembers, ReturnKeeps, UntouchedKeeps

LEMMA WatchdogRestoreKeeps ==
    ASSUME Kept, NEW id \in AttIds, WatchdogRestore(id)
    PROVE  Orderly
  <1> DEFINE s == [snap EXCEPT ![id] = None]
  <1>1. Restore(Watchdog, s, id, snap[id], att, vhci, export) /\ snap[id] # None
    BY DEF WatchdogRestore, IsNext
  <1>2. snap[id] \in Record /\ InGroup(id, snap[id].group)
    BY <1>1 DEF Kept, Typed, Changing, Handlers, Table, InGroup, Copied, Member
  <1>3. s \in Table /\ Members(s)
    BY NextSnapMembers
  <1> HIDE DEF s
  <1>4. Starts(Watchdog, s, id, snap[id], att, vhci, export)
    BY <1>1, <1>2, <1>3, SameTableItself, CopiesAreMembers
       DEF Starts, Tasks, Kept, Typed, Changing
  <1> QED
    BY <1>1, <1>4, RestoreKeeps DEF GivenUp

LEMMA PushMatchedKeeps ==
    ASSUME Kept, NEW t \in Pushes, NEW s \in Servers, NEW b \in Busids, NEW id \in AttIds,
           PushMatched(t, id, s, b)
    PROVE  Orderly
  <1>1. att[id] # None /\ att[id] \in Record /\ InGroup(id, att[id].group)
    BY DEF PushMatched, Matches, Kept, Typed, Changing, Table, InGroup, Member
  <1>2. ASSUME NEW v \in Vhci, NEW x \in Exports, Restore(t, snap, id, att[id], att, v, x)
        PROVE  Orderly
    <2>1. Starts(t, snap, id, att[id], att, v, x)
      BY <1>1, SameTableItself, CopiesAreMembers
         DEF Starts, Tasks, Kept, Typed, Changing, Handlers
    <2> QED
      BY <1>2, <2>1, RestoreKeeps DEF GivenUp
  <1>3. CASE \E o \in DetachResults(vhci, export, att[id].port) :
                Restore(t, snap, id, att[id], att, o[1], o[2])
    <2>1. PICK o \in DetachResults(vhci, export, att[id].port) :
                Restore(t, snap, id, att[id], att, o[1], o[2])
      BY <1>3
    <2>2. att[id].port \in Ports
      BY <1>1 DEF Record
    <2>3. o[1] \in Vhci /\ o[2] \in Exports
      BY <2>2, DetachTyped DEF Kept, Typed, Changing
    <2> QED
      BY <2>1, <2>3, <1>2
  <1>4. CASE Restore(t, snap, id, att[id], att, vhci, export)
    BY <1>4, <1>2 DEF Kept, Typed, Changing
  <1> QED
    BY <1>3, <1>4 DEF PushMatched

LEMMA PushRelocatedKeeps ==
    ASSUME Kept, NEW t \in Pushes, NEW s \in Servers, NEW b \in Busids, NEW n, NEW id \in AttIds,
           PushRelocated(t, id, s, b, n)
    PROVE  Orderly
  <1> DEFINE a == [att[id] EXCEPT !.busid = b]
             A == [att EXCEPT ![id] = a]
  <1>1. att[id] \in Record /\ att[id] # None /\ InGroup(id, att[id].group)
    BY DEF PushRelocated, Relocated, Kept, Typed, Changing, Table, InGroup, Member
  <1>2. /\ a \in Record /\ a.group = att[id].group /\ a.auto_failover = att[id].auto_failover
        /\ a.failure_count = att[id].failure_count
    BY <1>1 DEF Record
  <1>3. Restore(t, snap, id, a, A, vhci, export)
    BY DEF PushRelocated
  <1>4. a # None
    BY <1>2, NoRecordAssumption
  <1>5. A \in Table /\ A = [att EXCEPT ![id] = a]
    BY <1>2 DEF Kept, Typed, Changing, Table
  <1> HIDE DEF a, A
  <1>6. Members(A)
    BY <1>1, <1>2, <1>5, OneInMembers, CopiesAreMembers DEF Kept, Typed, Changing
  <1>7. SameTable(A)
    BY <1>1, <1>2, <1>4, <1>5 DEF SameTable, Kept, Typed, Changing, Table
  <1>8. Starts(t, snap, id, a, A, vhci, export)
    BY <1>1, <1>2, <1>5, <1>6, <1>7, CopiesAreMembers
       DEF Starts, Tasks, Kept, Typed, Changing, Handlers
  <1> QED
    BY <1>2, <1>3, <1>8, RestoreKeeps DEF GivenUp

LEMMA PushesKeep ==
    ASSUME Kept, PushStep
    PROVE  Orderly
  <1>1. PICK t \in Pushes, s \in Servers, b \in Busids : \E n : Push(t, s, b, n)
    BY DEF PushStep
  <1>2. PICK n : Push(t, s, b, n)
    BY <1>1
  <1>3. PICK id \in AttIds : PushMatched(t, id, s, b) \/ PushRelocated(t, id, s, b, n)
    BY <1>2 DEF Push
  <1> QED
    BY <1>3, PushMatchedKeeps, PushRelocatedKeeps

(* A new record's id names nothing else (uuid4).                           *)
LEMMA FreshIdsUnused ==
    ASSUME Kept, NEW n \in FreshIds, NEW g
    PROVE  n \in AttIds /\ att[n] = None /\ ~InGroup(n, g)
  BY DEF FreshIds, InGroup, Copied, Member, HeldIn

LEMMA NewAttachmentKeeps ==
    ASSUME Kept, NEW t \in Tasks, NEW n \in FreshIds, NEW r \in Record,
           att' = [att EXCEPT ![n] = r], Return(t, snap)
    PROVE  Orderly
  <1>1. CopiesKept /\ FramesFit' /\ OneRebind
    BY CopiesAreMembers, ReturnKeeps DEF Kept, Typed, Changing, Handlers
  <1>2. att \in Table
    BY DEF Kept, Typed, Changing
  <1>3. Settled
    BY <1>2, SameTableItself, FreshIdsUnused, SettledButOne
  <1>4. \A i \in AttIds \ {n} : att'[i] = att[i]
    BY <1>2 DEF Table
  <1>5. att'[n] = r
    BY <1>2, FreshIdsUnused DEF Table
  <1>6. NewMember(n)
    <2>1. ASSUME NEW i \in AttIds \ {n}, NEW g \in Groups \cup {None}, InGroup(i, g)'
          PROVE  InGroup(i, g)
      BY <1>1, <1>4, <2>1 DEF InGroup, Member, CopiesKept
    <2>2. ASSUME NEW g \in Groups \cup {None}, InGroup(n, g)'
          PROVE  g = r.group
      <3>1. ~Copied(n, g)'
        BY <1>1, FreshIdsUnused DEF CopiesKept
      <3> QED
        BY <2>2, <3>1, <1>5 DEF InGroup, Member
    <2> QED
      BY <2>1, <2>2, FreshIdsUnused DEF NewMember
  <1> QED
    BY <1>1, <1>3, <1>6, FreshIdsUnused DEF Orderly, GroupsGrow

(* The ways TryCandidate ends: the device is attached, all candidates have *)
(* failed, the next one is asked about, or the call has run into a time-out.*)
Taken(t, f, d) ==
    \E pb \in Attachable(vhci, export, d), n \in FreshIds, serial \in {f.reply.serial},
       flags \in [auto_failover : BOOLEAN, auto_rebind_on_backoff : BOOLEAN] :
        /\ att' = [att EXCEPT ![n] = NewRecord(d, serial, f.group, flags, pb)]
        /\ vhci' = Occupy(vhci, pb) /\ export' = Export(export, d, pb)
        /\ Return(t, snap)
Exhausted(t, f) == att' = PutBack(att, f.id, f.att) /\ Return(t, snap)
GoesOn(t, f)    == /\ att' = att
                   /\ \E h \in GroupFrame : /\ h.id = f.id /\ h.att = f.att /\ h.group = f.group
                                            /\ h.reply = None /\ h.untried \subseteq f.untried
                                            /\ h.candidates = f.candidates
                                            /\ Await(t, snap, h)
Hangs(t, d)     == UNCHANGED <<att, vhci, export>> /\ AttachHangs(d) /\ Raise(t, snap)
Fruitless(d)    == \/ UNCHANGED <<vhci, export>>
                   \/ \E o \in AttachErrors(vhci, export, d) : vhci' = o[1] /\ export' = o[2]

(* Each way is about one of the candidates left to try.                    *)
LEMMA CandidateTried ==
    ASSUME Typed, NEW t \in Tasks, TryCandidate(t)
    PROVE  /\ frame[t].pc = "candidate" /\ frame[t] \in GroupFrame /\ frame[t].reply # None
           /\ frame[t].reply.serial \in Serials \cup {None}
           /\ UNCHANGED <<env, servers, groups, serialAt, reach, grace, requested>>
           /\ \E i \in frame[t].untried :
                /\ frame[t].candidates[i] \in Devices
                /\ \A j \in frame[t].untried : i <= j
                /\ \/ frame[t].reply.ok /\ Taken(t, frame[t], frame[t].candidates[i])
                   \/ /\ Fruitless(frame[t].candidates[i])
                      /\ Exhausted(t, frame[t]) \/ GoesOn(t, frame[t])
                   \/ Hangs(t, frame[t].candidates[i])
  <1> DEFINE f == frame[t]
  <1>1. f.pc = "candidate" /\ f \in GroupFrame /\ f.reply # None
    BY FrameKinds DEF TryCandidate
  <1>2. UNCHANGED <<env, servers, groups, serialAt, reach, grace, requested>>
    BY DEF TryCandidate, config
  <1>3. /\ f.auto_failover \in BOOLEAN
        /\ f.reply \in [ok : BOOLEAN, serial : Serials \cup {None}]
        /\ f.candidates \in Seq(Devices) /\ f.untried \in SUBSET Nat
    BY <1>1, ValuesAssumption DEF GroupFrame
  <1>4. f.untried \subseteq DOMAIN f.candidates
    BY <1>1 DEF Typed, Changing, Handlers, WholeFrames, WholeFrame
  <1> DEFINE rest(i) == f.untried \ {i}
             next(i) == IF rest(i) = {}
                        THEN Exhausted(t, f)
                        ELSE att' = att /\ Await(t, snap, [f EXCEPT !.untried = rest(i), !.reply = None])
             flags == [auto_failover |-> f.auto_failover, auto_rebind_on_backoff |-> FALSE]
  <1>5. PICK i \in f.untried :
          /\ \A j \in rest(i) : i < j
          /\ \/ /\ f.reply.ok
                /\ \E pb \in Attachable(vhci, export, f.candidates[i]), n \in FreshIds :
                    /\ att' = [att EXCEPT ![n] =
                          NewRecord(f.candidates[i], f.reply.serial, f.group, flags, pb)]
                    /\ vhci' = Occupy(vhci, pb) /\ export' = Export(export, f.candidates[i], pb)
                    /\ Return(t, snap)
             \/ \E o \in AttachErrors(vhci, export, f.candidates[i]) :
                    vhci' = o[1] /\ export' = o[2] /\ next(i)
             \/ AttachHangs(f.candidates[i]) /\ UNCHANGED <<att, vhci, export>> /\ Raise(t, snap)
             \/ UNCHANGED <<vhci, export>> /\ next(i)
    BY DEF TryCandidate, Exhausted
  <1>6. f.candidates[i] \in Devices
    BY <1>3, <1>4
  <1>7. \A j \in f.untried : i <= j
    BY <1>3, <1>5
  <1>8. flags \in [auto_failover : BOOLEAN, auto_rebind_on_backoff : BOOLEAN]
    BY <1>3
  <1>9. ASSUME next(i) PROVE Exhausted(t, f) \/ GoesOn(t, f)
    <2>1. CASE rest(i) = {}
      BY <1>9, <2>1
    <2>2. CASE rest(i) # {}
      <3> DEFINE h == [f EXCEPT !.untried = rest(i), !.reply = None]
      <3>1. att' = att /\ Await(t, snap, h)
        BY <1>9, <2>2
      <3>2. /\ h \in GroupFrame /\ h.id = f.id /\ h.att = f.att /\ h.group = f.group
            /\ h.reply = None /\ h.untried \subseteq f.untried /\ h.candidates = f.candidates
        BY <1>1 DEF GroupFrame
      <3> HIDE DEF h
      <3> QED
        BY <3>1, <3>2 DEF GoesOn
    <2> QED
      BY <2>1, <2>2
  <1>10. \/ f.reply.ok /\ Taken(t, f, f.candidates[i])
         \/ Fruitless(f.candidates[i]) /\ (Exhausted(t, f) \/ GoesOn(t, f))
         \/ Hangs(t, f.candidates[i])
    <2> HIDE DEF next, f, flags
    <2>1. CASE /\ f.reply.ok
               /\ \E pb \in Attachable(vhci, export, f.candidates[i]), n \in FreshIds :
                    /\ att' = [att EXCEPT ![n] =
                          NewRecord(f.candidates[i], f.reply.serial, f.group, flags, pb)]
                    /\ vhci' = Occupy(vhci, pb) /\ export' = Export(export, f.candidates[i], pb)
                    /\ Return(t, snap)
      BY <1>8, <2>1 DEF Taken
    <2>2. CASE \E o \in AttachErrors(vhci, export, f.candidates[i]) :
                    vhci' = o[1] /\ export' = o[2] /\ next(i)
      BY <1>9, <2>2 DEF Fruitless
    <2>3. CASE UNCHANGED <<vhci, export>> /\ next(i)
      BY <1>9, <2>3 DEF Fruitless
    <2> QED
      BY <1>5, <2>1, <2>2, <2>3 DEF Hangs
  <1> QED
    BY <1>1, <1>2, <1>3, <1>6, <1>7, <1>10

LEMMA TryCandidateKeeps ==
    ASSUME Kept, NEW t \in Tasks, TryCandidate(t)
    PROVE  Orderly
  <1> DEFINE f == frame[t]
  <1>1. Typed /\ snap \in Table /\ att \in Table
    BY DEF Kept, Typed, Changing, Handlers
  <1>2. f.pc = "candidate" /\ f \in GroupFrame /\ f.reply.serial \in Serials \cup {None}
    BY <1>1, CandidateTried
  <1>3. f.group \in Groups /\ f.group # None /\ f.id \in AttIds \cup {None}
    BY <1>2, NoneAssumption DEF GroupFrame
  <1>4. f.id # None => /\ f.id \in AttIds /\ f.att \in Record /\ f.att.group = f.group
                       /\ InGroup(f.id, f.att.group)
    <2> SUFFICES ASSUME f.id # None
                 PROVE  /\ f.id \in AttIds /\ f.att \in Record /\ f.att.group = f.group
                        /\ InGroup(f.id, f.att.group)
      OBVIOUS
    <2>1. Captures(f.id, f.att)
      BY <1>1, <1>2, FrameCaptures
    <2>2. f.att \in Record /\ f.att # None
      BY <2>1 DEF Captures
    <2>3. HeldIn(t, f.id, f.att.group)
      BY <1>2, <2>2 DEF HeldIn
    <2> QED
      BY <1>2, <1>3, <2>2, <2>3 DEF Kept, FramesFit, FrameFits, InGroup, Copied
  <1>5. PICK i \in f.untried :
          /\ f.candidates[i] \in Devices
          /\ \/ Taken(t, f, f.candidates[i])
             \/ Exhausted(t, f) \/ GoesOn(t, f)
             \/ Hangs(t, f.candidates[i])
    BY <1>1, CandidateTried
  <1> HIDE DEF f
  <1>6. CASE Taken(t, f, f.candidates[i])
    <2>1. PICK pb \in Attachable(vhci, export, f.candidates[i]), n \in FreshIds,
               flags \in [auto_failover : BOOLEAN, auto_rebind_on_backoff : BOOLEAN] :
            /\ att' = [att EXCEPT ![n] = NewRecord(f.candidates[i], f.reply.serial, f.group, flags, pb)]
            /\ Return(t, snap)
      BY <1>6 DEF Taken
    <2>2. pb \in Ports \X LocalBusids
      BY <1>1, <1>5, AttachableTyped DEF Typed, Changing
    <2>3. NewRecord(f.candidates[i], f.reply.serial, f.group, flags, pb) \in Record
      BY <1>2, <1>3, <1>5, <2>2, NewRecordIsRecord
    <2> QED
      BY <2>1, <2>3, NewAttachmentKeeps
  <1>7. CASE Exhausted(t, f)
    <2>1. att' = PutBack(att, f.id, f.att) /\ Return(t, snap)
      BY <1>7 DEF Exhausted
    <2>2. CopiesKept /\ FramesFit' /\ OneRebind
      BY <1>1, <2>1, CopiesAreMembers, ReturnKeeps
    <2>3. CASE f.id = None
      BY <1>1, <2>1, <2>2, <2>3, UntouchedKeeps DEF PutBack
    <2>4. CASE f.id # None
      <3>1. /\ att' = [att EXCEPT ![f.id] = Bump(f.att)]
            /\ Members(PutBack(att, f.id, f.att))
            /\ att[f.id] # None => Stays(f.id)
        BY <1>1, <1>3, <1>4, <2>1, <2>4, CopiesAreMembers, PutBackKeeps
      <3>2. Settled
        BY <1>1, <1>4, <2>4, <3>1, SameTableItself, SettledButOne
      <3>3. GroupsKept
        BY <2>1, <2>2, <3>1, TableKept
      <3> QED
        BY <2>2, <3>2, <3>3 DEF Orderly, GroupsGrow
    <2> QED
      BY <2>3, <2>4
  <1>8. CASE GoesOn(t, f)
    <2>1. PICK h \in GroupFrame : /\ h.id = f.id /\ h.att = f.att /\ h.group = f.group
                                  /\ Await(t, snap, h)
      BY <1>8 DEF GoesOn
    <2>2. h.pc = "candidate"
      BY DEF GroupFrame
    <2>3. FrameFits(h)
      BY <1>4, <2>1, <2>2 DEF FrameFits
    <2>4. h.id \in AttIds => InGroup(h.id, h.att.group)
      BY <1>4, <2>1, NoneAssumption
    <2>5. CopiesKept /\ FramesFit' /\ OneRebind
      BY <1>1, <2>1, <2>2, <2>3, <2>4, CopiesAreMembers, AwaitKeeps
    <2> QED
      BY <1>8, <2>5, UntouchedKeeps DEF GoesOn
  <1>9. CASE Hangs(t, f.candidates[i])
    BY <1>9, NothingKept DEF Hangs
  <1> QED
    BY <1>5, <1>6, <1>7, <1>8, <1>9

LEMMA TryRelocatedKeeps ==
    ASSUME Kept, NEW t \in Tasks, TryRelocated(t)
    PROVE  Orderly
  <1> DEFINE f == frame[t]
             d == <<f.att.server, f.reply.busid>>
  <1>1. f.pc = "find" /\ f \in FindFrame
    BY FrameKinds DEF TryRelocated, Kept
  <1>2. f.id \in AttIds /\ f.att \in Record /\ f.att # None /\ f.reply \in [busid : Busids \cup {None}] \cup {None}
    BY <1>1, NoRecordAssumption DEF FindFrame
  <1>3. f.att.group = None /\ InGroup(f.id, f.att.group)
    BY <1>1, <1>2 DEF Kept, FramesFit, FrameFits, InGroup, Copied, HeldIn
  <1>4. \/ FailDirect(t, snap, f.id, f.att, att, <<f.att.server, f.att.busid>>, f.busy)
        \/ f.reply # None /\ f.reply.busid # None /\ Reattached(t, snap, f.id, f.att, att, vhci, export, d)
        \/ att' = att /\ Raise(t, snap)
        \/ FailDirect(t, snap, f.id, f.att, att, d, Busy(export, d))
    BY DEF TryRelocated
  <1>5. f.reply # None /\ f.reply.busid # None => d \in Devices
    BY <1>2 DEF Record, Devices
  <1> HIDE DEF f, d
  <1>6. Starts(t, snap, f.id, f.att, att, vhci, export)
    BY <1>2, <1>3, SameTableItself, CopiesAreMembers DEF Starts, Kept, Typed, Changing, Handlers
  <1> QED
    BY <1>4, <1>5, <1>6, FailDirectKeeps, ReattachedKeeps, NothingKept

LEMMA DirectTailKeeps ==
    ASSUME Kept, NEW t \in Tasks, NEW d \in Devices, NEW flags \in Flags,
           NEW serial \in Serials \cup {None}, DirectTail(t, d, flags, serial)
    PROVE  Orderly
  <1>1. flags \in [auto_failover : BOOLEAN, auto_rebind_on_backoff : BOOLEAN]
    BY ValuesAssumption
  <1>2. ASSUME NEW pb \in Attachable(vhci, export, d), NEW n \in FreshIds,
               att' = [att EXCEPT ![n] = NewRecord(d, serial, None, flags, pb)], Return(t, snap)
        PROVE  Orderly
    <2>1. pb \in Ports \X LocalBusids
      BY AttachableTyped DEF Kept, Typed, Changing
    <2>2. NewRecord(d, serial, None, flags, pb) \in Record
      BY <1>1, <2>1, NewRecordIsRecord
    <2> QED
      BY <1>2, <2>2, NewAttachmentKeeps
  <1> QED
    BY <1>2, NothingKept DEF DirectTail

LEMMA LookupAnsweredKeeps ==
    ASSUME Kept, NEW t \in Tasks, LookupAnswered(t)
    PROVE  Orderly
  <1> DEFINE f == frame[t]
             h == [pc |-> "share", device |-> f.device, flags |-> f.flags,
                   serial |-> f.reply.serial, reply |-> None]
  <1>1. f.device \in Devices /\ f.flags \in Flags /\ f.reply.serial \in Serials \cup {None}
    BY FrameKinds DEF LookupAnswered, DirectFrame, Kept
  <1>2. CASE DirectTail(t, f.device, f.flags, f.reply.serial)
    BY <1>1, <1>2, DirectTailKeeps
  <1>3. CASE Await(t, snap, h) /\ att' = att
    <2>1. h.pc = "share"
      OBVIOUS
    <2> HIDE DEF h
    <2> QED
      BY <1>3, <2>1, OnlyAwaitsKeeps
  <1>4. CASE Return(t, snap) /\ att' = att
    BY <1>4, NothingKept
  <1> QED
    BY <1>2, <1>3, <1>4 DEF LookupAnswered

LEMMA ShareAnsweredKeeps ==
    ASSUME Kept, NEW t \in Tasks, ShareAnswered(t)
    PROVE  Orderly
  <1> DEFINE f == frame[t]
  <1>1. f.device \in Devices /\ f.flags \in Flags /\ f.serial \in Serials \cup {None}
    BY FrameKinds DEF ShareAnswered, ShareFrame, Kept
  <1> QED
    BY <1>1, DirectTailKeeps, NothingKept DEF ShareAnswered

LEMMA ResumeKeeps ==
    ASSUME Kept, NEW t \in Tasks, Resume(t)
    PROVE  Orderly
  <1>1. CASE RebindAnswered(t)
    BY <1>1, NothingKept DEF RebindAnswered
  <1> QED
    BY <1>1, TryCandidateKeeps, TryRelocatedKeeps, LookupAnsweredKeeps, ShareAnsweredKeeps
       DEF Resume

LEMMA AttachGroupKeeps ==
    ASSUME Kept, NEW t \in Users, NEW g \in Groups, AttachGroup(t, g)
    PROVE  Orderly
  <1> DEFINE f == [pc |-> "candidate", group |-> g, candidates |-> groups[g].candidates,
                   untried |-> Reachable(g), auto_failover |-> groups[g].auto_failover,
                   id |-> None, att |-> None, reply |-> None]
  <1>1. att' = att /\ Await(t, snap, f) /\ t \in Tasks
    BY DEF AttachGroup, BeginAttachGroup, Tasks
  <1>2. f.pc = "candidate" /\ f.id = None /\ f.att = None
    OBVIOUS
  <1> HIDE DEF f
  <1>3. CopiesKept /\ FramesFit' /\ OneRebind
    BY <1>1, <1>2, CopiesAreMembers, AwaitKeeps DEF FrameFits, Kept, Typed, Changing, Handlers
  <1> QED
    BY <1>1, <1>3, UntouchedKeeps

LEMMA DirectAttachKeeps ==
    ASSUME Kept, NEW t \in Users, NEW d, NEW flags, DirectAttach(t, d, flags)
    PROVE  Orderly
  <1> DEFINE f == [pc |-> "lookup", device |-> d, flags |-> flags, reply |-> None]
  <1>1. att' = att /\ Await(t, snap, f) /\ t \in Tasks /\ f.pc = "lookup"
    BY DEF DirectAttach, Tasks
  <1> HIDE DEF f
  <1> QED
    BY <1>1, OnlyAwaitsKeeps

LEMMA DetachKeeps ==
    ASSUME Kept, NEW id \in AttIds, Detach(id)
    PROVE  Orderly
  <1>1. att' = [att EXCEPT ![id] = None] /\ UNCHANGED <<snap, frame>> /\ att \in Table
    BY DEF Detach, Kept, Typed, Changing
  <1>2. att'[id] = None /\ Leaves(id)
    BY <1>1 DEF Table, Leaves
  <1>3. Settled
    BY <1>1, <1>2, SameTableItself, SettledButOne
  <1>4. CopiesKept /\ FramesFit' /\ OneRebind
    BY <1>1, QuietKeeps
  <1>5. Members([att EXCEPT ![id] = None])
    BY <1>1, CopiesAreMembers, LessInMembers
  <1> QED
    BY <1>1, <1>3, <1>4, <1>5, TableKept DEF Orderly, GroupsGrow

LEMMA UpdateAttachmentKeeps ==
    ASSUME Kept, NEW id \in AttIds, NEW flags \in Flags, UpdateAttachment(id, flags)
    PROVE  Orderly
  <1> DEFINE r == [att[id] EXCEPT !.auto_failover = flags.auto_failover,
                                  !.auto_rebind_on_backoff = flags.auto_rebind_on_backoff]
  <1>1. /\ att[id] \in Record /\ att[id] # None /\ att \in Table
        /\ InGroup(id, att[id].group)
    BY DEF UpdateAttachment, Kept, Typed, Changing, Table, InGroup, Member
  <1>2. flags.auto_failover \in BOOLEAN /\ flags.auto_rebind_on_backoff \in BOOLEAN
    BY ValuesAssumption
  <1>3. r \in Record /\ r.group = att[id].group /\ r.failure_count = att[id].failure_count
    BY <1>1, <1>2 DEF Record
  <1>4. att' = [att EXCEPT ![id] = r] /\ UNCHANGED <<snap, frame>>
    BY <1>1 DEF UpdateAttachment, Table
  <1> HIDE DEF r
  <1>5. att'[id] = r /\ att[id].failure_count \in Nat
    BY <1>1, <1>4, RecordTyped DEF Table
  <1>6. Stays(id)
    BY <1>3, <1>5, NoRecordAssumption DEF Stays
  <1>7. Settled
    BY <1>1, <1>4, <1>6, SameTableItself, SettledButOne
  <1>8. CopiesKept /\ FramesFit' /\ OneRebind
    BY <1>4, QuietKeeps
  <1>9. Members([att EXCEPT ![id] = r])
    BY <1>1, <1>3, CopiesAreMembers, OneInMembers
  <1> QED
    BY <1>4, <1>7, <1>8, <1>9, TableKept DEF Orderly, GroupsGrow

LEMMA UsersKeep ==
    ASSUME Kept, UserStep
    PROVE  Orderly
  <1>1. Environments[env].flags \subseteq Flags
    BY EnvironmentsAssumption DEF Kept, Typed, Resting, Environment
  <1>2. ASSUME UNCHANGED <<att, snap, frame>> PROVE Orderly
    BY <1>2, QuietKeeps, UntouchedKeeps
  <1> QED
    BY <1>1, <1>2, DirectAttachKeeps, AttachGroupKeeps, DetachKeeps, UpdateAttachmentKeeps
       DEF UserStep, AddServer, DeleteServer, SaveGroup, DeleteGroup

(* An answer is of the same request.                                       *)
LEMMA Answered ==
    ASSUME Typed, NEW t \in Tasks, Serve(t)
    PROVE  /\ \A u \in Tasks \ {t} : frame'[u] = frame[u]
           /\ frame'[t].pc = frame[t].pc
           /\ frame[t].pc \in {"candidate", "find"} => /\ frame'[t].id = frame[t].id
                                                       /\ frame'[t].att = frame[t].att
           /\ frame[t].pc = "candidate" => frame'[t].group = frame[t].group
           /\ UNCHANGED <<att, snap>>
  <1>1. PICK r : Answer(t, r)
    BY DEF Serve, ServeCandidate, ServeFind, ServeLookup, ServeShare, ServeRebind
  <1>2. frame' = [frame EXCEPT ![t].reply = r] /\ frame \in [Tasks -> Frame]
    BY <1>1 DEF Answer, Typed, Changing, Handlers
  <1>3. frame'[t] = [frame[t] EXCEPT !.reply = r] /\ \A u \in Tasks \ {t} : frame'[u] = frame[u]
    BY <1>2
  <1>4. frame[t].pc \in {"candidate", "find", "lookup", "share", "rebind"}
    BY DEF Serve, ServeCandidate, ServeFind, ServeLookup, ServeShare, ServeRebind
  <1>5. /\ frame'[t].pc = frame[t].pc
        /\ frame[t].pc \in {"candidate", "find"} => /\ frame'[t].id = frame[t].id
                                                    /\ frame'[t].att = frame[t].att
        /\ frame[t].pc = "candidate" => frame'[t].group = frame[t].group
    BY <1>3, <1>4, FrameKinds DEF GroupFrame, FindFrame, DirectFrame, ShareFrame, RebindFrame
  <1> QED
    BY <1>3, <1>5 DEF Serve

LEMMA ServeKeeps ==
    ASSUME Kept, NEW t \in Tasks, Serve(t)
    PROVE  Orderly
  <1>1. /\ \A u \in Tasks : /\ frame'[u].pc = frame[u].pc
                            /\ frame[u].pc \in {"candidate", "find"} => /\ frame'[u].id = frame[u].id
                                                                        /\ frame'[u].att = frame[u].att
                            /\ frame[u].pc = "candidate" => frame'[u].group = frame[u].group
        /\ UNCHANGED <<att, snap>>
    BY Answered DEF Kept
  <1>2. CopiesKept
    BY <1>1 DEF CopiesKept, Copied, InGroup, Member, HeldIn
  <1>3. FramesFit' /\ OneRebind
    BY <1>1 DEF FramesFit, FrameFits, Kept, OneRebind
  <1> QED
    BY <1>1, <1>2, <1>3, UntouchedKeeps

LEMMA StopKeeps ==
    ASSUME Kept, ClientRestart \/ HostReboot
    PROVE  Orderly
  <1>1. snap' = NoSnap /\ frame' = [t \in Tasks |-> Idle] /\ att' = att
    BY DEF ClientRestart, HostReboot
  <1>2. CopiesKept /\ FramesFit' /\ OneRebind
    BY <1>1 DEF CopiesKept, Copied, Member, HeldIn, NoSnap, Idle, FramesFit, FrameFits, OneRebind
  <1> QED
    BY <1>1, <1>2, UntouchedKeeps

LEMMA NextKeeps ==
    ASSUME Kept, [Next]_vars
    PROVE  Orderly
  <1>1. CASE WatchdogStep
    BY <1>1, WatchdogTickKeeps, WatchdogSkipKeeps, WatchdogRestoreKeeps DEF WatchdogStep
  <1>2. ASSUME NEW t \in Tasks, TaskStep(t) PROVE Orderly
    BY <1>2, ServeKeeps, ResumeKeeps DEF TaskStep
  <1>3. CASE WorldStep \/ GraceEnd \/ UNCHANGED vars
    BY <1>3, QuietKeeps, UntouchedKeeps DEF WorldStep, GraceEnd, vars
  <1> QED
    BY <1>1, <1>2, <1>3, PushesKeep, UsersKeep, StopKeeps DEF Next

LEMMA OneGroupStep ==
    ASSUME OneGroup, GroupsGrow
    PROVE  OneGroup'
  BY DEF OneGroup, GroupsGrow, GroupsKept, NewMember

LEMMA KeptStep ==
    ASSUME Kept, [Next]_vars
    PROVE  Kept'
  BY NextStep, NextKeeps, OneGroupStep DEF Kept, Orderly

LEMMA InitKept == Init => Kept
  <1>1. Init => OneGroup /\ FramesFit
    BY DEF Init, OneGroup, InGroup, Copied, Member, HeldIn, NoSnap, Idle, FramesFit, FrameFits
  <1> QED
    BY <1>1, InitTyped DEF Kept

-----------------------------------------------------------------------------
(* The theorems.                                                           *)

LEMMA LeftByDetach ==
    ASSUME Kept, [Next]_vars, NEW id \in AttIds, att[id] # None, att[id].group = None,
           att[id].auto_failover, snap[id] = None \/ snap[id].auto_failover, att'[id] = None
    PROVE  Detach(id)
  <1>1. Stays(id) \/ Leaves(id)
    BY NextKeeps DEF Orderly, Settled
  <1>2. \A g \in Groups : att[id].group # g
    BY NoneAssumption
  <1> QED
    BY <1>1, <1>2 DEF Stays, Leaves, GivenUp

(* A direct attachment the user wants kept is never lost by failures and   *)
(* races: nothing but the user's detach takes it out of the table.         *)
THEOREM DirectKept == Spec => KeptUntilDetached
  <1>1. Kept /\ [Next]_vars => Kept'
    BY KeptStep
  <1>2. Kept /\ [Next]_vars =>
          [\A id \in AttIds :
              /\ OnRecord(id) /\ att[id].group = None /\ att[id].auto_failover
              /\ snap[id] = None \/ snap[id].auto_failover
              /\ att'[id] = None
            => Detach(id)]_vars
    BY LeftByDetach DEF OnRecord
  <1> QED
    BY InitKept, <1>1, <1>2, PTL DEF Spec, KeptUntilDetached

LEMMA RebindRight ==
    ASSUME Kept, [Next]_vars
    PROVE  /\ \A t \in Tasks :
                frame[t].pc # "rebind" /\ frame'[t].pc = "rebind" =>
                  LET id == frame'[t].id IN
                  \/ id \in requested' \ requested
                  \/ /\ OnRecord(id) /\ att[id].failure_count < FORCE_REBIND_AFTER_FAILURES
                     /\ att'[id].failure_count = FORCE_REBIND_AFTER_FAILURES
           /\ \A id \in AttIds :
                OnRecord(id) /\ att[id].group = None /\ att'[id] # None
                  /\ att'[id].failure_count < att[id].failure_count => IsLive(vhci', att'[id])
  <1>1. Orderly /\ Kept'
    BY NextKeeps, KeptStep
  <1>2. ASSUME NEW id \in AttIds, att[id] # None, att[id].group = None, att'[id] # None,
               att'[id].failure_count < att[id].failure_count
        PROVE  IsLive(vhci', att'[id])
    <2>1. Stays(id)
      BY <1>1, <1>2 DEF Orderly, Settled
    <2>2. att[id].failure_count \in Nat
      BY <1>2, RecordTyped DEF Kept, Typed, Changing
    <2>3. att' \in Table
      BY <1>1 DEF Kept, Typed, Changing
    <2>4. att'[id].failure_count \in Nat
      BY <1>2, <2>3, RecordTyped
    <2> QED
      BY <1>2, <2>1, <2>2, <2>4 DEF Stays
  <1> QED
    BY <1>1, <1>2 DEF Orderly, OneRebind, Rebinds, OnRecord

(* A rebind of the device, which ends whatever session it has, is asked    *)
(* for once per drop-out, however many handlers fail side by side.         *)
THEOREM RebindOnce == Spec => OneRebindPerDropout
  <1>1. Kept /\ [Next]_vars => Kept'
    BY KeptStep
  <1>2. Kept /\ [Next]_vars =>
          [/\ \A t \in Tasks :
                frame[t].pc # "rebind" /\ frame'[t].pc = "rebind" =>
                  LET id == frame'[t].id IN
                  \/ id \in requested' \ requested
                  \/ /\ OnRecord(id) /\ att[id].failure_count < FORCE_REBIND_AFTER_FAILURES
                     /\ att'[id].failure_count = FORCE_REBIND_AFTER_FAILURES
           /\ \A id \in AttIds :
                OnRecord(id) /\ att[id].group = None /\ att'[id] # None
                  /\ att'[id].failure_count < att[id].failure_count => IsLive(vhci', att'[id])]_vars
    BY RebindRight
  <1> QED
    BY InitKept, <1>1, <1>2, PTL DEF Spec, OneRebindPerDropout

(* Nothing but an exception or the end of the process stops a handler on   *)
(* its way (groups.py:390, main.py on_shutdown).                           *)
NothingStops ==
    /\ Hanging = {}
    /\ \A e \in DOMAIN Environments : Environments[e].events \cap {"restart", "reboot"} = {}

(* Whoever brings a group back either goes on or leaves a record of it.    *)
LEMMA OthersGoOn ==
    ASSUME Typed, NothingStops, [Next]_vars, NEW t \in Tasks, frame[t].pc = "candidate",
           ~TryCandidate(t)
    PROVE  /\ frame'[t].pc = "candidate" /\ frame'[t].group = frame[t].group
           /\ frame'[t].id = frame[t].id
  <1> DEFINE Goes == /\ frame'[t].pc = "candidate" /\ frame'[t].group = frame[t].group
                     /\ frame'[t].id = frame[t].id
  <1>1. frame \in [Tasks -> Frame] /\ frame[t] # Idle /\ frame[t] # Scan
    BY DEF Typed, Changing, Handlers, Idle, Scan
  <1>2. ASSUME NEW u \in Tasks, u # t, NEW s, \/ Return(u, s) \/ Raise(u, s) \/ \E f : Await(u, s, f)
        PROVE  Goes
    BY <1>1, <1>2 DEF Return, Raise, Await
  <1>3. ASSUME frame' = frame PROVE Goes
    BY <1>3
  <1>4. ASSUME NEW u \in Tasks, NEW s, NEW id, NEW a, NEW A, NEW v, NEW x,
               Restore(u, s, id, a, A, v, x)
        PROVE  \/ Return(u, s) \/ Raise(u, s) \/ \E f : Await(u, s, f)
    BY <1>4 DEF Restore, Forget, RestoreGroup, BeginAttachGroup, RestoreDirect, Reattached, FailDirect
  <1>5. CASE WatchdogStep
    <2>1. frame[Watchdog] \in {Idle, Scan} /\ Watchdog \in Tasks
      BY <1>5 DEF WatchdogStep, WatchdogTick, WatchdogSkip, WatchdogRestore, IsNext, Tasks
    <2>2. Watchdog # t
      BY <1>1, <2>1
    <2>3. CASE WatchdogTick
      BY <1>1, <2>2, <2>3 DEF WatchdogTick
    <2>4. ASSUME NEW id \in AttIds, WatchdogSkip(id) \/ WatchdogRestore(id) PROVE Goes
      BY <1>2, <1>4, <2>1, <2>2, <2>4 DEF WatchdogSkip, WatchdogRestore
    <2> QED
      BY <1>5, <2>3, <2>4 DEF WatchdogStep
  <1>6. CASE PushStep
    <2>1. PICK u \in Pushes, s \in Servers, b \in Busids : \E n : Push(u, s, b, n)
      BY <1>6 DEF PushStep
    <2>2. PICK n : Push(u, s, b, n)
      BY <2>1
    <2>3. u \in Tasks /\ u # t
      BY <1>1, <2>2 DEF Push, Tasks
    <2>4. PICK id \in AttIds : PushMatched(u, id, s, b) \/ PushRelocated(u, id, s, b, n)
      BY <2>2 DEF Push
    <2> QED
      BY <1>2, <1>4, <2>3, <2>4 DEF PushMatched, PushRelocated
  <1>7. CASE UserStep
    <2>1. ASSUME NEW u \in Users, NEW d, NEW flags, DirectAttach(u, d, flags) PROVE Goes
      <3>1. u \in Tasks /\ u # t
        BY <1>1, <2>1 DEF DirectAttach, Tasks
      <3> QED
        BY <1>2, <2>1, <3>1 DEF DirectAttach
    <2>2. ASSUME NEW u \in Users, NEW g \in Groups, AttachGroup(u, g) PROVE Goes
      <3>1. u \in Tasks /\ u # t
        BY <1>1, <2>2 DEF AttachGroup, Tasks
      <3> QED
        BY <1>2, <2>2, <3>1 DEF AttachGroup, BeginAttachGroup
    <2> QED
      BY <1>3, <1>7, <2>1, <2>2
         DEF UserStep, Detach, UpdateAttachment, AddServer, DeleteServer, SaveGroup, DeleteGroup
  <1>8. ASSUME NEW u \in Tasks, Serve(u) PROVE Goes
    BY <1>8, Answered
  <1>9. ASSUME NEW u \in Tasks, Resume(u) PROVE Goes
    <2>1. u # t
      BY <1>9 DEF Resume, TryRelocated, RebindAnswered, LookupAnswered, ShareAnswered
    <2>2. \/ Return(u, snap) \/ Raise(u, snap) \/ \E f : Await(u, snap, f)
      BY <1>9 DEF Resume, TryCandidate, TryRelocated, RebindAnswered, LookupAnswered, ShareAnswered,
                  DirectTail, Reattached, FailDirect
    <2> QED
      BY <1>2, <2>1, <2>2
  <1>10. ~ClientRestart /\ ~HostReboot
    BY DEF NothingStops, ClientRestart, HostReboot, Events, Typed, Resting
  <1>11. CASE WorldStep \/ GraceEnd \/ UNCHANGED vars
    BY <1>3, <1>11 DEF WorldStep, GraceEnd, vars
  <1> QED
    BY <1>5, <1>6, <1>7, <1>8, <1>9, <1>10, <1>11 DEF Next, TaskStep

LEMMA BroughtBack ==
    ASSUME Kept, NothingStops, [Next]_vars, NEW t \in Tasks, frame[t].pc = "candidate",
           frame[t].id # None, NEW g \in Groups, frame[t].group = g
    PROVE  Wanted(g)'
  <1> DEFINE f == frame[t]
  <1>1. CASE ~TryCandidate(t)
    BY <1>1, OthersGoOn DEF Kept, Wanted
  <1>2. CASE TryCandidate(t)
    <2>1. f \in GroupFrame /\ f.reply.serial \in Serials \cup {None} /\ Typed
      BY <1>2, CandidateTried DEF Kept
    <2>2. att \in Table /\ frame \in [Tasks -> Frame]
      BY DEF Kept, Typed, Changing, Handlers
    <2>3. f.group = g /\ Captures(f.id, f.att) /\ f.att.group = g
      BY <2>1, FrameCaptures DEF Kept, FramesFit, FrameFits
    <2>4. PICK i \in f.untried :
            /\ f.candidates[i] \in Devices
            /\ \/ Taken(t, f, f.candidates[i])
               \/ Exhausted(t, f) \/ GoesOn(t, f)
               \/ Hangs(t, f.candidates[i])
      BY <1>2, CandidateTried DEF Kept
    <2> HIDE DEF f
    <2>5. CASE Taken(t, f, f.candidates[i])
      <3>1. PICK pb \in Attachable(vhci, export, f.candidates[i]), n \in FreshIds,
                 flags \in [auto_failover : BOOLEAN, auto_rebind_on_backoff : BOOLEAN] :
              /\ att' = [att EXCEPT ![n] = NewRecord(f.candidates[i], f.reply.serial, f.group, flags, pb)]
              /\ Return(t, snap)
        BY <2>5 DEF Taken
      <3>2. pb \in Ports \X LocalBusids
        BY <2>4, AttachableTyped DEF Kept, Typed, Changing
      <3>3. NewRecord(f.candidates[i], f.reply.serial, f.group, flags, pb) \in Record
        BY <2>1, <2>3, <2>4, <3>2, NewRecordIsRecord
      <3>4. n \in AttIds
        BY DEF FreshIds
      <3>5. att'[n] = NewRecord(f.candidates[i], f.reply.serial, f.group, flags, pb)
        BY <2>2, <3>1, <3>4 DEF Table
      <3>6. att'[n] # None
        BY <3>3, <3>5, NoRecordAssumption
      <3>7. att'[n].group = g
        BY <2>3, <3>5 DEF NewRecord
      <3> QED
        BY <3>4, <3>6, <3>7 DEF Wanted, OnRecord
    <2>6. CASE Exhausted(t, f)
      <3>1. f.id \in AttIds /\ f.att \in Record /\ f.id # None
        BY <2>3 DEF Captures, f
      <3>2. att' = [att EXCEPT ![f.id] = Bump(f.att)]
        BY <2>6, <3>1 DEF Exhausted, PutBack
      <3>3. att'[f.id] = Bump(f.att)
        BY <2>2, <3>1, <3>2 DEF Table
      <3>4. att'[f.id] # None /\ att'[f.id].group = g
        BY <2>3, <3>1, <3>3, BumpKeeps
      <3> QED
        BY <3>1, <3>4 DEF Wanted, OnRecord
    <2>7. CASE GoesOn(t, f)
      <3>1. PICK h \in GroupFrame : h.id = f.id /\ h.group = g /\ Await(t, snap, h)
        BY <2>3, <2>7 DEF GoesOn
      <3>2. frame'[t] = h /\ h.pc = "candidate"
        BY <2>2, <3>1 DEF Await, GroupFrame
      <3> QED
        BY <3>1, <3>2 DEF Wanted, f
    <2>8. ~Hangs(t, f.candidates[i])
      BY DEF Hangs, AttachHangs, NothingStops
    <2> QED
      BY <2>4, <2>5, <2>6, <2>7, <2>8 DEF f
  <1> QED
    BY <1>1, <1>2

LEMMA WantedStays ==
    ASSUME Kept, NothingStops, [Next]_vars, NEW g \in Groups, Wanted(g), ~Wanted(g)'
    PROVE  \E id \in AttIds :
             /\ OnRecord(id) /\ att[id].group = g /\ att'[id] = None
             /\ \/ Detach(id)
                \/ ~att[id].auto_failover
                \/ snap[id] # None /\ ~snap[id].auto_failover
  <1>1. \A t \in Tasks : frame[t].pc = "candidate" /\ frame[t].id # None => frame[t].group # g
    BY BroughtBack
  <1>2. PICK id \in AttIds : OnRecord(id) /\ att[id].group = g
    BY <1>1 DEF Wanted
  <1>3. ~Stays(id)
    BY <1>2 DEF Stays, Wanted, OnRecord
  <1>4. att'[id] = None /\ Leaves(id)
    BY <1>2, <1>3, NextKeeps DEF Orderly, Settled, OnRecord
  <1>5. ~\E h \in Groups : att[id].group = h /\ Wanted(h)'
    BY <1>2
  <1> QED
    BY <1>2, <1>4, <1>5 DEF Leaves, GivenUp, OnRecord

(* As long as no call runs into a time-out and the process does not stop,  *)
(* a group that was attached is attached or being brought back until the   *)
(* user gives it up, although its record is taken out of the table for the *)
(* time of the attempt (groups.py:364-390).                                *)
THEOREM GroupsWanted ==
    ASSUME NothingStops
    PROVE  Spec => GroupStaysWanted
  <1>1. Kept /\ [Next]_vars => Kept'
    BY KeptStep
  <1>2. Kept /\ [Next]_vars =>
          [\A g \in Groups : Wanted(g) /\ ~Wanted(g)' =>
              \E id \in AttIds :
                 /\ OnRecord(id) /\ att[id].group = g /\ att'[id] = None
                 /\ \/ Detach(id)
                    \/ ~att[id].auto_failover
                    \/ snap[id] # None /\ ~snap[id].auto_failover]_vars
    BY WantedStays
  <1> QED
    BY InitKept, <1>1, <1>2, PTL DEF Spec, GroupStaysWanted
=============================================================================

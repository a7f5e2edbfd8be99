------------------ MODULE ClientAttachments_sessions_proofs ------------------
(***************************************************************************)
(* Proof about ClientAttachments, for every value of its constants: a      *)
(* device this host holds is on record, with the port it is on.            *)
(*                                                                         *)
(* A record may be overwritten, or taken out, by a handler that goes by an *)
(* older copy of it: a tick's snapshot, or what a suspended handler has    *)
(* captured.  So the inductive invariant is about all copies of a record:  *)
(* they are of one server, of one kind of attachment and, if devices keep  *)
(* their busids, of one device.  And it asks more of the record that names *)
(* a session: that no copy is about to take it out of the table.           *)
(*                                                                         *)
(* m tells the two cases of the property apart: TRUE if devices stay where *)
(* they are, FALSE if each server has one device, which may move.          *)
(***************************************************************************)
EXTENDS ClientAttachments_kept_proofs

HeldAs(t, i, r)  == /\ frame[t].pc \in {"candidate", "find"} /\ frame[t].id = i
                    /\ frame[t].att = r
Elsewhere(i, r)  == snap[i] = r \/ \E t \in Tasks : HeldAs(t, i, r)
Copy(i, r)       == att[i] = r \/ Elsewhere(i, r)

-----------------------------------------------------------------------------
(* The ports v and the exports x.                                          *)

Single(x) == \A d, e \in Devices : x[d] \in Ports /\ x[d] = x[e] => d = e

(* No session is new: ports are freed, and no device left on a port freed; *)
(* a device that can be attached was there before.                         *)
Shrinks(v, x, w, y) ==
    /\ \A p \in Ports : w[p] \in {v[p], None}
    /\ \A d \in Devices : /\ y[d] \in Ports => y[d] = x[d] /\ w[y[d]] = v[y[d]]
                          /\ y[d] = "idle" => x[d] # "absent"

LEMMA DetachShrinks ==
    ASSUME NEW v \in Vhci, NEW x \in Exports, NEW p \in Ports, NEW o \in DetachResults(v, x, p)
    PROVE  /\ o[1] \in Vhci /\ o[2] \in Exports
           /\ Shrinks(v, x, o[1], o[2]) /\ o[1][p] = None /\ \A d \in Devices : o[2][d] # p
  <1>1. PICK held \in {"idle", "foreign"} :
          /\ o[1] = [v EXCEPT ![p] = None]
          /\ o[2] = [d \in Devices |-> IF x[d] = p THEN held ELSE x[d]]
    BY DEF DetachResults
  <1>2. held \notin Ports /\ "absent" \notin Ports
    BY PortsAssumption
  <1> QED
    BY <1>1, <1>2, DetachTyped DEF Shrinks, Vhci

LEMMA SeverShrinks ==
    ASSUME Typed, Single(export), NEW d \in Devices, export[d] # "absent",
           NEW state \in {"unshared", "idle", "foreign"}, Sever(d, state)
    PROVE  Shrinks(vhci, export, vhci', export')
  <1>1. export' = [export EXCEPT ![d] = state] /\ state \notin Ports
    BY PortsAssumption DEF Sever
  <1>2. CASE export[d] \in Ports /\ vhci' = [vhci EXCEPT ![export[d]] = None]
    BY <1>1, <1>2 DEF Shrinks, Single, Typed, Changing, Vhci, Exports
  <1>3. CASE vhci' = vhci
    BY <1>1, <1>3 DEF Shrinks, Typed, Changing, Vhci, Exports
  <1> QED
    BY <1>2, <1>3 DEF Sever

LEMMA ShrinksItself == ASSUME Typed, UNCHANGED <<vhci, export>> PROVE Shrinks(vhci, export, vhci', export')
  BY DEF Shrinks

-----------------------------------------------------------------------------
(* The copies of a record.                                                 *)

(* A record that is never attached again under its own id.                 *)
Final(r) == ~r.auto_failover \/ r.group # None

(* For the same attachment and, in the case m, of the same device.         *)
Akin(m, q, r) == /\ r.server = q.server /\ r.group = q.group
                 /\ r.auto_failover = q.auto_failover
                 /\ m => r.busid = q.busid /\ r.serial = q.serial

In(m, i, r) == \E q \in Record : Copy(i, q) /\ Akin(m, q, r)
From(m, T)  == \A i \in AttIds : T[i] # None => In(m, i, T[i])
OneOwner(m) == \A i \in AttIds, q, r \in Record : Copy(i, q) /\ Copy(i, r) => Akin(m, q, r)
Known(n, d) == n \in {None, serialAt[d]}
Serialled   == \A i \in AttIds, r \in Record : Copy(i, r) => Known(r.serial, <<r.server, r.busid>>)

(* No copy is about to take id i's record out of the table or to put       *)
(* another in its place.                                                   *)
Staying(i) == /\ snap[i] = None \/ ~Final(snap[i])
              /\ \A t \in Tasks : frame[t].pc = "candidate" => frame[t].id # i

(* What a step makes of the copies.                                        *)
Sub(s)      == s \in Table /\ \A i \in AttIds : s[i] \in {snap[i], None}
Descend(m)  == \A i \in AttIds, r \in Record : Elsewhere(i, r)' => In(m, i, r)
Remains(i)  == Staying(i) => Staying(i)'

(* The names i has in the table, as sessions see them.                     *)
Names(r, d, pb) == /\ r \in Record /\ r.server = d[1] /\ r.busid = d[2]
                   /\ r.port = pb[1] /\ r.local_busid = pb[2]
Backing(i, d, v, x) == /\ att[i] # None /\ IsLive(v, att[i])
                       /\ d = <<att[i].server, att[i].busid>> /\ x[d] = att[i].port

(* i is not what keeps a session on record.                                *)
Unused(i, v, x) == \A d \in Devices : x[d] \in Ports => ~(Backing(i, d, v, x) /\ Staying(i))

(* i keeps on record what it kept.                                         *)
Lasts(i) == att[i] # None =>
                /\ att'[i] # None
                /\ att'[i].server = att[i].server /\ att'[i].busid = att[i].busid
                /\ att'[i].port = att[i].port /\ att'[i].local_busid = att[i].local_busid
                /\ Remains(i)

AllOnRecord == \A d \in Devices : export[d] \in Ports =>
                   \E i \in AttIds : Backing(i, d, vhci, export) /\ Staying(i)
Held        == Single(export) /\ AllOnRecord

LEMMA CopyIn ==
    ASSUME NEW m, NEW i \in AttIds, NEW r \in Record, Copy(i, r)
    PROVE  In(m, i, r)
  BY DEF In, Akin

LEMMA TableFrom ==
    ASSUME Typed, NEW m
    PROVE  From(m, att) /\ Sub(snap)
  BY CopyIn DEF From, Sub, Typed, Changing, Handlers, Table, Copy

LEMMA FromLess ==
    ASSUME NEW m, NEW A \in Table, From(m, A), NEW id \in AttIds
    PROVE  From(m, [A EXCEPT ![id] = None])
  BY DEF From, Table

LEMMA FromOne ==
    ASSUME NEW m, NEW A \in Table, From(m, A), NEW id \in AttIds, NEW r \in Record, In(m, id, r)
    PROVE  From(m, [A EXCEPT ![id] = r])
  BY DEF From, Table

LEMMA BumpSame ==
    ASSUME NEW r \in Record
    PROVE  /\ Bump(r) \in Record /\ Bump(r) # None
           /\ Bump(r).server = r.server /\ Bump(r).busid = r.busid /\ Bump(r).serial = r.serial
           /\ Bump(r).group = r.group /\ Bump(r).auto_failover = r.auto_failover
           /\ Bump(r).port = r.port /\ Bump(r).local_busid = r.local_busid
  <1>1. Bump(r) \in Record /\ Bump(r) # None
    BY BumpIsRecord, NoRecordAssumption
  <1> QED
    BY <1>1 DEF Bump, Record

LEMMA InBump ==
    ASSUME NEW m, NEW i, NEW r \in Record, In(m, i, r)
    PROVE  In(m, i, Bump(r)) /\ Bump(r) \in Record
  <1>1. PICK q \in Record : Copy(i, q) /\ Akin(m, q, r)
    BY DEF In
  <1>2. Akin(m, q, Bump(r))
    BY <1>1, BumpSame DEF Akin
  <1> QED
    BY <1>1, <1>2, BumpSame DEF In

LEMMA FromNoted ==
    ASSUME NEW m, NEW A \in Table, From(m, A), NEW id \in AttIds
    PROVE  From(m, NoteReconnectFailure(A, id))
  <1>1. CASE A[id] = None
    BY <1>1 DEF NoteReconnectFailure
  <1>2. CASE A[id] # None
    <2>1. A[id] \in Record /\ In(m, id, A[id])
      BY <1>2 DEF From, Table
    <2>2. Bump(A[id]) \in Record /\ In(m, id, Bump(A[id]))
      BY <2>1, InBump
    <2> QED
      BY <1>2, <2>2, FromOne DEF NoteReconnectFailure
  <1> QED
    BY <1>1, <1>2

LEMMA ReturnDescends ==
    ASSUME Typed, NEW m, NEW t \in Tasks, NEW s, Sub(s), Return(t, s) \/ Raise(t, s)
    PROVE  Descend(m) /\ \A i \in AttIds : Remains(i)
  <1>1. \A u \in Tasks : frame'[u] = frame[u] \/ frame'[u] \in {Idle, Scan}
    BY DEF Typed, Changing, Handlers, Return, Raise
  <1>2. \A i \in AttIds : snap'[i] \in {snap[i], None}
    BY DEF Return, Raise, NoSnap, Sub
  <1>3. ASSUME NEW i \in AttIds, NEW r \in Record, Elsewhere(i, r)' PROVE In(m, i, r)
    <2>1. ASSUME NEW u \in Tasks, HeldAs(u, i, r)' PROVE HeldAs(u, i, r)
      BY <1>1, <2>1 DEF HeldAs, Idle, Scan
    <2>2. Copy(i, r)
      BY <1>2, <1>3, <2>1, NoRecordAssumption DEF Elsewhere, Copy
    <2> QED
      BY <2>2, CopyIn
  <1>4. ASSUME NEW i \in AttIds PROVE Remains(i)
    BY <1>1, <1>2 DEF Remains, Staying, Idle, Scan
  <1> QED
    BY <1>3, <1>4 DEF Descend

LEMMA AwaitDescends ==
    ASSUME Typed, NEW m, NEW t \in Tasks, NEW s, Sub(s), NEW f, Await(t, s, f),
           f.pc \in {"candidate", "find"} /\ f.id \in AttIds /\ f.att \in Record
               => In(m, f.id, f.att)
    PROVE  /\ Descend(m)
           /\ \A i \in AttIds : (f.pc = "candidate" => f.id # i) => Remains(i)
  <1>1. frame'[t] = f /\ \A u \in Tasks \ {t} : frame'[u] = frame[u]
    BY DEF Typed, Changing, Handlers, Await
  <1>2. \A i \in AttIds : snap'[i] \in {snap[i], None}
    BY DEF Await, Sub
  <1>3. ASSUME NEW i \in AttIds, NEW r \in Record, Elsewhere(i, r)' PROVE In(m, i, r)
    <2>1. CASE HeldAs(t, i, r)'
      BY <1>1, <2>1 DEF HeldAs
    <2>2. CASE snap'[i] = r \/ \E u \in Tasks \ {t} : HeldAs(u, i, r)'
      <3>1. Copy(i, r)
        BY <1>1, <1>2, <2>2, NoRecordAssumption DEF Elsewhere, Copy, HeldAs
      <3> QED
        BY <3>1, CopyIn
    <2> QED
      BY <1>3, <2>1, <2>2 DEF Elsewhere
  <1>4. ASSUME NEW i \in AttIds, f.pc = "candidate" => f.id # i PROVE Remains(i)
    BY <1>1, <1>2, <1>4 DEF Remains, Staying
  <1> QED
    BY <1>3, <1>4 DEF Descend

LEMMA QuietDescends ==
    ASSUME NEW m, UNCHANGED <<snap, frame>>
    PROVE  Descend(m) /\ \A i \in AttIds : Remains(i)
  <1>1. ASSUME NEW i \in AttIds, NEW r \in Record, Elsewhere(i, r)' PROVE In(m, i, r)
    BY <1>1, CopyIn DEF Elsewhere, HeldAs, Copy
  <1>2. ASSUME NEW i \in AttIds PROVE Remains(i)
    BY DEF Remains, Staying
  <1> QED
    BY <1>1, <1>2 DEF Descend

-----------------------------------------------------------------------------
(* What keeps the sessions on record.                                      *)

(* A step that makes no session: whoever keeps one on record goes on so.   *)
LEMMA HeldLasts ==
    ASSUME Typed, Held, Typed', Shrinks(vhci, export, vhci', export'),
           \A i \in AttIds : Lasts(i) \/ Unused(i, vhci', export')
    PROVE  Held'
  <1>1. Single(export')
    BY DEF Held, Single, Shrinks
  <1>2. ASSUME NEW d \in Devices, export'[d] \in Ports
        PROVE  \E i \in AttIds : (Backing(i, d, vhci, export) /\ Staying(i))'
    <2>1. export'[d] = export[d] /\ vhci'[export'[d]] = vhci[export'[d]]
      BY <1>2 DEF Shrinks
    <2>2. PICK i \in AttIds : Backing(i, d, vhci, export) /\ Staying(i)
      BY <1>2, <2>1 DEF Held, AllOnRecord
    <2>3. Backing(i, d, vhci', export')
      BY <2>1, <2>2 DEF Backing, IsLive
    <2>4. Lasts(i)
      BY <1>2, <2>2, <2>3 DEF Unused
    <2>5. /\ att'[i] # None /\ IsLive(vhci', att'[i]) /\ Staying(i)'
          /\ d = <<att'[i].server, att'[i].busid>> /\ export'[d] = att'[i].port
      BY <2>2, <2>3, <2>4 DEF Lasts, Remains, Backing, IsLive
    <2> QED
      BY <2>5 DEF Backing, IsLive
  <1> QED
    BY <1>1, <1>2 DEF Held, AllOnRecord, Single

(* A new session on a free port, and the record for it.                    *)
LEMMA HeldGrows ==
    ASSUME Typed, Held, NEW v \in Vhci, NEW x \in Exports, Shrinks(vhci, export, v, x),
           NEW d \in Devices, NEW pb \in Attachable(v, x, d),
           vhci' = Occupy(v, pb), export' = Export(x, d, pb),
           NEW n \in AttIds, Names(att'[n], d, pb), Staying(n)', Unused(n, v, x),
           \A i \in AttIds \ {n} : Lasts(i) \/ Unused(i, v, x)
    PROVE  Held'
  <1>1. pb \in Ports \X LocalBusids /\ x[d] = "idle" /\ v[pb[1]] = None
    BY AttachableTyped DEF Attachable, Refused, FreePorts
  <1>2. /\ pb[1] \in Ports /\ pb[2] \in LocalBusids /\ pb[2] # None
        /\ vhci'[pb[1]] = pb[2] /\ \A p \in Ports \ {pb[1]} : vhci'[p] = v[p]
        /\ export'[d] = pb[1] /\ \A e \in Devices \ {d} : export'[e] = x[e]
    BY <1>1, NoneAssumption DEF Occupy, Export, Vhci, Exports
  <1>3. ASSUME NEW e \in Devices, x[e] \in Ports
        PROVE  /\ x[e] # pb[1]
               /\ \E i \in AttIds \ {n} : Backing(i, e, v, x) /\ Staying(i) /\ Lasts(i)
    <2>1. x[e] = export[e] /\ v[x[e]] = vhci[x[e]]
      BY <1>3 DEF Shrinks
    <2>2. PICK i \in AttIds : Backing(i, e, vhci, export) /\ Staying(i)
      BY <1>3, <2>1 DEF Held, AllOnRecord
    <2>3. Backing(i, e, v, x)
      BY <2>1, <2>2 DEF Backing, IsLive
    <2>4. att[i] \in Record
      BY <2>2 DEF Backing, Typed, Changing, Table
    <2>5. v[x[e]] # None
      BY <2>3, <2>4, NoneAssumption DEF Backing, IsLive, Record
    <2> QED
      BY <1>1, <1>3, <2>2, <2>3, <2>5 DEF Unused
  <1>4. Single(export')
    <2>1. \A e, k \in Devices : x[e] \in Ports /\ x[e] = x[k] => e = k
      BY DEF Held, Single, Shrinks
    <2> QED
      BY <1>2, <1>3, <2>1 DEF Single
  <1>5. ASSUME NEW e \in Devices, export'[e] \in Ports
        PROVE  \E i \in AttIds : (Backing(i, e, vhci, export) /\ Staying(i))'
    <2>1. CASE e = d
      <3>1. /\ att'[n] # None /\ att'[n].port = pb[1] /\ att'[n].local_busid = pb[2]
            /\ d = <<att'[n].server, att'[n].busid>>
        BY NoRecordAssumption DEF Names, Devices
      <3>2. vhci'[att'[n].port] = att'[n].local_busid /\ export'[d] = att'[n].port
        BY <1>2, <3>1
      <3> QED
        BY <2>1, <3>1, <3>2 DEF Backing, IsLive
    <2>2. CASE e # d
      <3>1. export'[e] = x[e] /\ x[e] # pb[1]
        BY <1>2, <1>3, <1>5, <2>2
      <3>2. PICK i \in AttIds : Backing(i, e, v, x) /\ Staying(i) /\ Lasts(i)
        BY <1>3, <1>5, <3>1
      <3>3. vhci'[x[e]] = v[x[e]]
        BY <1>2, <1>5, <3>1
      <3>4. /\ att'[i] # None /\ vhci'[att'[i].port] = att'[i].local_busid /\ Staying(i)'
            /\ e = <<att'[i].server, att'[i].busid>> /\ export'[e] = att'[i].port
        BY <3>1, <3>2, <3>3 DEF Lasts, Remains, Backing, IsLive
      <3> QED
        BY <3>4 DEF Backing, IsLive
    <2> QED
      BY <2>1, <2>2
  <1> QED
    BY <1>4, <1>5 DEF Held, AllOnRecord, Single

-----------------------------------------------------------------------------
(* The ways a restore of id's record a ends.                               *)

Still(v, x)    == vhci' = v /\ export' = x
Session(v, x, d, pb) == vhci' = Occupy(v, pb) /\ export' = Export(x, d, pb)
OthersRemain(id) == \A i \in AttIds \ {id} : Remains(i)
AllRemain        == \A i \in AttIds : Remains(i)

Popped(id, a, A, v, x) ==
    /\ att' \in {[A EXCEPT ![id] = None], [A EXCEPT ![id] = Bump(a)]}
    /\ Final(a) /\ Still(v, x) /\ OthersRemain(id)
Failed(id, A, v, x) ==
    att' \in {A, NoteReconnectFailure(A, id)} /\ Still(v, x) /\ AllRemain
Again(id, a, A, v, x, d) ==
    \E pb \in Attachable(v, x, d), r \in Record :
        /\ att' = [A EXCEPT ![id] = r] /\ Session(v, x, d, pb) /\ AllRemain
        /\ r.server = a.server /\ r.busid = d[2] /\ r.serial = a.serial /\ r.group = a.group
        /\ r.auto_failover = a.auto_failover /\ r.port = pb[1] /\ r.local_busid = pb[2]

Ended(id, a, A, v, x, d) ==
    \/ Popped(id, a, A, v, x) \/ Failed(id, A, v, x)
    \/ ~Final(a) /\ Again(id, a, A, v, x, d)

Begins(m, t, s, id, a, A, v, x) ==
    /\ t \in Tasks /\ Sub(s)
    /\ id \in AttIds /\ a \in Record /\ In(m, id, a)
    /\ A \in Table /\ From(m, A) /\ v \in Vhci /\ x \in Exports

(* usbip fails at once or not at all, and nobody edits a record.           *)
Quick == Events \cap {"lag", "detachfails", "edit"} = {}

LEMMA QuickErrors ==
    ASSUME Quick, NEW v, NEW x, NEW d, NEW o \in AttachErrors(v, x, d), vhci' = o[1], export' = o[2]
    PROVE  Still(v, x)
  BY DEF Quick, AttachErrors, Still

LEMMA ReattachedEnds ==
    ASSUME Typed, NEW m, NEW t, NEW s, NEW id, NEW a, NEW A, NEW v, NEW x, NEW d \in Devices,
           Begins(m, t, s, id, a, A, v, x), Reattached(t, s, id, a, A, v, x, d)
    PROVE  Descend(m) /\ Again(id, a, A, v, x, d)
  <1>1. PICK pb \in Attachable(v, x, d) :
          /\ att' = [A EXCEPT ![id] = NoteReconnectSuccess(
                        [a EXCEPT !.busid = d[2], !.port = pb[1], !.local_busid = pb[2]])]
          /\ Session(v, x, d, pb)
          /\ Return(t, s)
    BY DEF Reattached, Session
  <1> DEFINE r == NoteReconnectSuccess(
                     [a EXCEPT !.busid = d[2], !.port = pb[1], !.local_busid = pb[2]])
  <1>2. pb \in Ports \X LocalBusids
    BY AttachableTyped DEF Begins
  <1>3. r \in Record
    BY <1>2, ReattachedIsRecord DEF Begins
  <1>4. /\ r.server = a.server /\ r.busid = d[2] /\ r.serial = a.serial /\ r.group = a.group
        /\ r.auto_failover = a.auto_failover /\ r.port = pb[1] /\ r.local_busid = pb[2]
    BY <1>2 DEF NoteReconnectSuccess, Begins, Record
  <1>5. att' = [A EXCEPT ![id] = r]
    BY <1>1
  <1> HIDE DEF r
  <1>6. Descend(m) /\ AllRemain
    BY <1>1, ReturnDescends DEF Begins, AllRemain
  <1> QED
    BY <1>1, <1>3, <1>4, <1>5, <1>6 DEF Again

LEMMA FailDirectEnds ==
    ASSUME Typed, NEW m, NEW t, NEW s, NEW id, NEW a, NEW A, NEW v, NEW x, NEW d, NEW busy,
           Begins(m, t, s, id, a, A, v, x), FailDirect(t, s, id, a, A, d, busy), Still(v, x)
    PROVE  Descend(m) /\ Failed(id, A, v, x)
  <1> DEFINE f == [pc |-> "rebind", id |-> id, device |-> d, reply |-> None]
  <1>1. att' = NoteReconnectFailure(A, id) /\ (Return(t, s) \/ Await(t, s, f))
    BY DEF FailDirect
  <1>2. f.pc = "rebind"
    OBVIOUS
  <1> HIDE DEF f
  <1> QED
    BY <1>1, <1>2, ReturnDescends, AwaitDescends DEF Begins, Failed, AllRemain

LEMMA RestoreGroupEnds ==
    ASSUME Typed, NEW m, NEW t, NEW s, NEW id, NEW a, NEW A, NEW v, NEW x,
           Begins(m, t, s, id, a, A, v, x), a.group # None, RestoreGroup(t, s, id, a, A, v, x)
    PROVE  Descend(m) /\ Popped(id, a, A, v, x)
  <1> DEFINE B == [A EXCEPT ![id] = None]
             g == a.group
             f == [pc |-> "candidate", group |-> g, candidates |-> groups[g].candidates,
                   untried |-> Reachable(g), auto_failover |-> groups[g].auto_failover,
                   id |-> id, att |-> a, reply |-> None]
  <1>1. Still(v, x) /\ Final(a)
    BY DEF RestoreGroup, Still, Final
  <1>2. \/ att' = PutBack(B, id, a) /\ Return(t, s)
        \/ att' = B /\ Await(t, s, f)
    BY DEF RestoreGroup, BeginAttachGroup
  <1>3. CASE att' = PutBack(B, id, a) /\ Return(t, s)
    <2>1. att' = [A EXCEPT ![id] = Bump(a)]
      BY <1>3, NoneAssumption DEF PutBack, Begins, Table
    <2> QED
      BY <1>1, <1>3, <2>1, ReturnDescends DEF Popped, Begins, OthersRemain
  <1>4. CASE att' = B /\ Await(t, s, f)
    <2>1. f.id = id /\ f.att = a
      OBVIOUS
    <2>2. Await(t, s, f)
      BY <1>4
    <2> HIDE DEF f
    <2>3. Descend(m) /\ OthersRemain(id)
      BY <2>1, <2>2, AwaitDescends DEF Begins, OthersRemain
    <2> QED
      BY <1>1, <1>4, <2>3 DEF Popped
  <1> QED
    BY <1>2, <1>3, <1>4

LEMMA RestoreEnds ==
    ASSUME Typed, Quick, NEW m, NEW t, NEW s, NEW id, NEW a, NEW A, NEW v, NEW x,
           Begins(m, t, s, id, a, A, v, x), Restore(t, s, id, a, A, v, x)
    PROVE  Descend(m) /\ Ended(id, a, A, v, x, <<a.server, a.busid>>)
  <1> DEFINE d == <<a.server, a.busid>>
  <1>d. d \in Devices
    BY DEF Begins, Record, Devices
  <1>1. CASE ~a.auto_failover /\ Forget(t, s, id, A, v, x)
    BY <1>1, ReturnDescends DEF Forget, Ended, Popped, Final, Still, Begins, OthersRemain
  <1>2. CASE a.group # None /\ RestoreGroup(t, s, id, a, A, v, x)
    BY <1>2, RestoreGroupEnds DEF Ended
  <1>3. CASE a.auto_failover /\ a.group = None /\ RestoreDirect(t, s, id, a, A, v, x)
    <2> HIDE DEF d
    <2>1. CASE att' = NoteReconnectFailure(A, id) /\ Still(v, x) /\ Return(t, s)
      BY <2>1, ReturnDescends DEF Ended, Failed, Begins, AllRemain
    <2>2. CASE Reattached(t, s, id, a, A, v, x, d)
      BY <1>3, <2>2, <1>d, ReattachedEnds DEF Ended, Final, d
    <2>3. CASE att' = A /\ Still(v, x) /\ Raise(t, s)
      BY <2>3, ReturnDescends DEF Ended, Failed, Begins, AllRemain
    <2>4. CASE Still(v, x) /\ FailDirect(t, s, id, a, A, d, Busy(x, d))
      BY <2>4, FailDirectEnds DEF Ended
    <2>5. CASE /\ Still(v, x) /\ att' = A
               /\ Await(t, s, [pc |-> "find", id |-> id, att |-> a, busy |-> Busy(x, d), reply |-> None])
      <3> DEFINE f == [pc |-> "find", id |-> id, att |-> a, busy |-> Busy(x, d), reply |-> None]
      <3>1. f.pc = "find" /\ f.id = id /\ f.att = a
        OBVIOUS
      <3>2. Await(t, s, f)
        BY <2>5
      <3> HIDE DEF f
      <3>3. Descend(m) /\ AllRemain
        BY <3>1, <3>2, AwaitDescends DEF Begins, AllRemain
      <3> QED
        BY <2>5, <3>3 DEF Ended, Failed
    <2> QED
      BY <1>3, <2>1, <2>2, <2>3, <2>4, <2>5, QuickErrors DEF RestoreDirect, Still, d
  <1> QED
    BY <1>1, <1>2, <1>3 DEF Restore

-----------------------------------------------------------------------------
(* What handlers wait for, and know, stays true: serials do not move.      *)

(* What the answers a handler has had, or waits for, may tell it.          *)
Informed(f, at) ==
    /\ f.pc = "candidate" /\ f.reply # None =>
         \A i \in f.untried : (\A j \in f.untried : i <= j) =>
             f.reply.serial \in {None, at[f.candidates[i]]}
    /\ f.pc = "find" => f.att.serial # None /\ (f.reply # None => f.reply.busid = None)
    /\ f.pc = "lookup" /\ f.reply # None => f.reply.serial \in {None, at[f.device]}
    /\ f.pc = "share" => f.serial \in {None, at[f.device]}
AllInformed == \A t \in Tasks : Informed(frame[t], serialAt)

LEMMA SettledInformed ==
    ASSUME AllInformed, serialAt' = serialAt,
           \A u \in Tasks : frame'[u] = frame[u] \/ Informed(frame'[u], serialAt)
    PROVE  AllInformed'
  <1>1. \A u \in Tasks : Informed(frame'[u], serialAt')
    BY DEF AllInformed
  <1> QED
    BY <1>1 DEF AllInformed, Informed

LEMMA EndInforms ==
    ASSUME Typed, AllInformed, serialAt' = serialAt, NEW t \in Tasks, NEW s,
           \/ Return(t, s) \/ Raise(t, s)
           \/ \E f : Await(t, s, f) /\ Informed(f, serialAt)
    PROVE  AllInformed'
  <1>1. Informed(Idle, serialAt) /\ Informed(Scan, serialAt)
    BY DEF Informed, Idle, Scan
  <1>2. frame \in [Tasks -> Frame]
    BY DEF Typed, Changing, Handlers
  <1>3. CASE Return(t, s) \/ Raise(t, s)
    <2>1. \A u \in Tasks : frame'[u] = frame[u] \/ frame'[u] \in {Idle, Scan}
      BY <1>2, <1>3 DEF Return, Raise
    <2> QED
      BY <1>1, <2>1, SettledInformed
  <1>4. ASSUME NEW f, Await(t, s, f), Informed(f, serialAt) PROVE AllInformed'
    <2>1. \A u \in Tasks : frame'[u] = frame[u] \/ frame'[u] = f
      BY <1>2, <1>4 DEF Await
    <2> QED
      BY <1>4, <2>1, SettledInformed
  <1> QED
    BY <1>3, <1>4

LEMMA RestoreInforms ==
    ASSUME Typed, AllInformed, NEW t \in Tasks, NEW s, NEW id, NEW a, NEW A, NEW v, NEW x,
           Restore(t, s, id, a, A, v, x)
    PROVE  AllInformed'
  <1>1. serialAt' = serialAt
    BY DEF Restore
  <1>2. ASSUME NEW f, Await(t, s, f), f.pc = "rebind" \/ (f.pc = "candidate" /\ f.reply = None)
                 \/ (f.pc = "find" /\ f.att.serial # None /\ f.reply = None)
        PROVE  AllInformed'
    BY <1>1, <1>2, EndInforms DEF Informed
  <1>3. ASSUME Return(t, s) \/ Raise(t, s) PROVE AllInformed'
    BY <1>1, <1>3, EndInforms
  <1>4. ASSUME NEW d, NEW busy, FailDirect(t, s, id, a, A, d, busy) PROVE AllInformed'
    <2> DEFINE f == [pc |-> "rebind", id |-> id, device |-> d, reply |-> None]
    <2>1. Await(t, s, f) \/ Return(t, s)
      BY <1>4 DEF FailDirect
    <2>2. f.pc = "rebind"
      OBVIOUS
    <2> HIDE DEF f
    <2> QED
      BY <1>2, <1>3, <2>1, <2>2
  <1>5. CASE RestoreGroup(t, s, id, a, A, v, x)
    <2> DEFINE g == a.group
               f == [pc |-> "candidate", group |-> g, candidates |-> groups[g].candidates,
                     untried |-> Reachable(g), auto_failover |-> groups[g].auto_failover,
                     id |-> id, att |-> a, reply |-> None]
    <2>1. Await(t, s, f) \/ Return(t, s)
      BY <1>5 DEF RestoreGroup, BeginAttachGroup
    <2>2. f.pc = "candidate" /\ f.reply = None
      OBVIOUS
    <2> HIDE DEF f
    <2> QED
      BY <1>2, <1>3, <2>1, <2>2
  <1>6. CASE RestoreDirect(t, s, id, a, A, v, x)
    <2> DEFINE d == <<a.server, a.busid>>
               f == [pc |-> "find", id |-> id, att |-> a, busy |-> Busy(x, d), reply |-> None]
    <2>1. \/ Return(t, s) \/ Raise(t, s) \/ FailDirect(t, s, id, a, A, d, Busy(x, d))
          \/ a.serial # None /\ Await(t, s, f)
      BY <1>6 DEF RestoreDirect, Reattached
    <2>2. f.pc = "find" /\ f.att = a /\ f.reply = None
      OBVIOUS
    <2> HIDE DEF f, d
    <2> QED
      BY <1>2, <1>3, <1>4, <2>1, <2>2
  <1> QED
    BY <1>3, <1>5, <1>6 DEF Restore, Forget

LEMMA ServeInforms ==
    ASSUME Typed, DevicesStay, Serialled, AllInformed, NEW t \in Tasks, Serve(t)
    PROVE  AllInformed'
  <1> DEFINE f == frame[t]
  <1>1. serialAt' = serialAt /\ frame \in [Tasks -> Frame]
    BY DEF Serve, Typed, Changing, Handlers
  <1>2. ASSUME NEW r, Answer(t, r), Informed([f EXCEPT !.reply = r], serialAt) PROVE AllInformed'
    <2>1. \A u \in Tasks : frame'[u] = frame[u] \/ frame'[u] = [f EXCEPT !.reply = r]
      BY <1>1, <1>2 DEF Answer
    <2> QED
      BY <1>1, <1>2, <2>1, SettledInformed
  <1>3. CASE ServeCandidate(t)
    <2>1. f.pc = "candidate" /\ f \in GroupFrame
      BY <1>3, FrameKinds DEF ServeCandidate
    <2>2. PICK i \in f.untried :
            /\ \A j \in f.untried : i <= j
            /\ Answer(t, [ok |-> Status(f.candidates[i]) = "idle",
                          serial |-> IF Status(f.candidates[i]) = "idle"
                                     THEN serialAt[f.candidates[i]] ELSE None])
      BY <1>3 DEF ServeCandidate
    <2> DEFINE r == [ok |-> Status(f.candidates[i]) = "idle",
                     serial |-> IF Status(f.candidates[i]) = "idle"
                                THEN serialAt[f.candidates[i]] ELSE None]
               h == [f EXCEPT !.reply = r]
    <2>3. r.serial \in {None, serialAt[f.candidates[i]]} /\ Answer(t, r)
      BY <2>2
    <2> HIDE DEF r
    <2>4. h.pc = "candidate" /\ h.reply = r /\ h.untried = f.untried /\ h.candidates = f.candidates
          /\ f.untried \subseteq Nat
      BY <2>1 DEF GroupFrame
    <2>5. \A k \in f.untried : (\A j \in f.untried : k <= j) => k = i
      BY <2>2, <2>4
    <2>6. Informed(h, serialAt)
      BY <2>3, <2>4, <2>5 DEF Informed
    <2> QED
      BY <1>2, <2>3, <2>6
  <1>4. CASE ServeFind(t)
    <2>1. f.pc = "find" /\ f \in FindFrame /\ f.att.serial # None
      BY <1>4, FrameKinds DEF ServeFind, AllInformed, Informed
    <2>2. f.id \in AttIds /\ f.att \in Record
      BY <2>1 DEF FindFrame
    <2>3. Copy(f.id, f.att)
      BY <2>1, <2>2 DEF Copy, Elsewhere, HeldAs
    <2>4. serialAt[<<f.att.server, f.att.busid>>] = f.att.serial
      BY <2>1, <2>2, <2>3 DEF Serialled, Known
    <2>5. \A b \in Busids : serialAt[<<f.att.server, b>>] = f.att.serial => b = f.att.busid
      BY <2>1, <2>2, <2>4 DEF DevicesStay, Record
    <2>6. Answer(t, [busid |-> None])
      BY <1>4, <2>5 DEF ServeFind
    <2> DEFINE h == [f EXCEPT !.reply = [busid |-> None]]
    <2>7. h.pc = "find" /\ h.att = f.att /\ h.reply.busid = None
      BY <2>1 DEF FindFrame
    <2>8. Informed(h, serialAt)
      BY <2>1, <2>7 DEF Informed
    <2> QED
      BY <1>2, <2>6, <2>8
  <1>5. CASE ServeLookup(t)
    <2>1. f.pc = "lookup" /\ f \in DirectFrame
      BY <1>5, FrameKinds DEF ServeLookup
    <2>2. PICK r : Answer(t, r) /\ r.serial \in {None, serialAt[f.device]}
      BY <1>5 DEF ServeLookup
    <2> DEFINE h == [f EXCEPT !.reply = r]
    <2>3. h.pc = "lookup" /\ h.device = f.device /\ h.reply = r
      BY <2>1 DEF DirectFrame
    <2>4. Informed(h, serialAt)
      BY <2>2, <2>3 DEF Informed
    <2> QED
      BY <1>2, <2>2, <2>4
  <1>6. CASE ServeShare(t)
    <2>1. f.pc = "share" /\ f \in ShareFrame
      BY <1>6, FrameKinds DEF ServeShare
    <2>2. PICK r : Answer(t, r)
      BY <1>6 DEF ServeShare
    <2> DEFINE h == [f EXCEPT !.reply = r]
    <2>3. h.pc = "share" /\ h.device = f.device /\ h.serial = f.serial
      BY <2>1 DEF ShareFrame
    <2>4. Informed(h, serialAt)
      BY <2>1, <2>3 DEF Informed, AllInformed
    <2> QED
      BY <1>2, <2>2, <2>4
  <1>7. CASE ServeRebind(t)
    <2>1. f.pc = "rebind" /\ f \in RebindFrame /\ Answer(t, "done")
      BY <1>7, FrameKinds DEF ServeRebind
    <2> DEFINE h == [f EXCEPT !.reply = "done"]
    <2>2. h.pc = "rebind"
      BY <2>1 DEF RebindFrame
    <2>3. Informed(h, serialAt)
      BY <2>2 DEF Informed
    <2> QED
      BY <1>2, <2>1, <2>3
  <1> QED
    BY <1>3, <1>4, <1>5, <1>6, <1>7 DEF Serve

-----------------------------------------------------------------------------
(* A step keeps the sessions on record, one lemma per action.              *)

Calm(m)  == Quick /\ IF m THEN DevicesStay ELSE LoneDevices
Told(m)  == m => AllInformed
Tidy(m)  == Held /\ OneOwner(m) /\ Told(m) /\ (m => Serialled)
Firm(m)  == Kept /\ Calm(m) /\ Tidy(m)

(* A record under an id that nothing names.                                *)
First(m, i, r) == /\ \A q \in Record : ~Copy(i, q)
                  /\ m => Known(r.serial, <<r.server, r.busid>>)

LEMMA FirmTables ==
    ASSUME NEW m \in BOOLEAN, Firm(m)
    PROVE  /\ att \in Table /\ snap \in Table /\ vhci \in Vhci /\ export \in Exports
           /\ Typed /\ Held /\ OneOwner(m) /\ From(m, att) /\ Sub(snap) /\ Quick
  BY TableFrom DEF Firm, Tidy, Kept, Calm, Typed, Changing, Handlers

LEMMA AkinTo ==
    ASSUME NEW m, NEW q, NEW r, NEW u, NEW w, Akin(m, q, r), Akin(m, u, w), Akin(m, q, u)
    PROVE  Akin(m, r, w)
  BY DEF Akin

LEMMA OneOfIn ==
    ASSUME NEW m, OneOwner(m), NEW i \in AttIds, NEW q \in Record, NEW r \in Record,
           In(m, i, q), In(m, i, r)
    PROVE  Akin(m, q, r)
  <1>1. PICK u \in Record : Copy(i, u) /\ Akin(m, u, q)
    BY DEF In
  <1>2. PICK w \in Record : Copy(i, w) /\ Akin(m, w, r)
    BY DEF In
  <1>3. Akin(m, u, w)
    BY <1>1, <1>2 DEF OneOwner
  <1> QED
    BY <1>1, <1>2, <1>3, AkinTo

LEMMA Lineage ==
    ASSUME NEW m \in BOOLEAN, Firm(m), Descend(m), m => serialAt' = serialAt,
           \A i \in AttIds : att'[i] # None => In(m, i, att'[i]) \/ First(m, i, att'[i])
    PROVE  OneOwner(m)' /\ (m => Serialled)'
  <1>1. ASSUME NEW i \in AttIds, NEW r \in Record, Copy(i, r)'
        PROVE  In(m, i, r) \/ (First(m, i, r) /\ att'[i] = r)
    BY <1>1, NoRecordAssumption DEF Copy, Descend
  <1>2. ASSUME NEW i \in AttIds, NEW q \in Record, NEW r \in Record, Copy(i, q)', Copy(i, r)'
        PROVE  Akin(m, q, r)
    <2>1. CASE In(m, i, q) /\ In(m, i, r)
      BY <2>1, OneOfIn, FirmTables
    <2>2. CASE q = r
      BY <2>2 DEF Akin
    <2>3. First(m, i, q) => ~In(m, i, r)
      BY DEF First, In
    <2>4. First(m, i, r) => ~In(m, i, q)
      BY DEF First, In
    <2>5. In(m, i, q) \/ (First(m, i, q) /\ att'[i] = q)
      BY <1>1, <1>2
    <2>6. In(m, i, r) \/ (First(m, i, r) /\ att'[i] = r)
      BY <1>1, <1>2
    <2> QED
      BY <2>1, <2>2, <2>3, <2>4, <2>5, <2>6
  <1>3. ASSUME m, NEW i \in AttIds, NEW r \in Record, Copy(i, r)'
        PROVE  r.serial \in {None, serialAt'[<<r.server, r.busid>>]}
    <2>1. CASE In(m, i, r)
      <3>1. PICK q \in Record : Copy(i, q) /\ Akin(m, q, r)
        BY <2>1 DEF In
      <3> QED
        BY <1>3, <3>1 DEF Akin, Known, Firm, Tidy, Serialled
    <2> QED
      BY <1>1, <1>3, <2>1 DEF First, Known
  <1>4. OneOwner(m)'
    BY <1>2 DEF OneOwner, Akin
  <1>5. m => Serialled'
    BY <1>3 DEF Serialled, Known
  <1> QED
    BY <1>4, <1>5

LEMMA TidyConcludes ==
    ASSUME NEW m \in BOOLEAN, Firm(m), m => serialAt' = serialAt, Descend(m), Told(m)',
           \A i \in AttIds : att'[i] # None => In(m, i, att'[i]) \/ First(m, i, att'[i]), Held'
    PROVE  Tidy(m)'
  BY Lineage DEF Tidy

LEMMA FromTidy ==
    ASSUME NEW m \in BOOLEAN, Firm(m), m => serialAt' = serialAt, Descend(m), Told(m)',
           NEW T, From(m, T), att' = T, Held'
    PROVE  Tidy(m)'
  BY TidyConcludes DEF From

(* A stretch that changes no record and makes no session.                  *)
LEMMA UntouchedTidy ==
    ASSUME NEW m \in BOOLEAN, Firm(m), Typed', m => serialAt' = serialAt, Descend(m), Told(m)',
           att' = att, AllRemain, Shrinks(vhci, export, vhci', export')
    PROVE  Tidy(m)'
  <1>1. \A i \in AttIds : Lasts(i)
    BY DEF Lasts, AllRemain
  <1>2. Held'
    BY <1>1, FirmTables, HeldLasts
  <1> QED
    BY <1>2, FirmTables, FromTidy

(* A device that is idle is not the one a copy of its record's device      *)
(* keeps on record.                                                        *)
LEMMA AgainUnused ==
    ASSUME NEW m \in BOOLEAN, Firm(m), NEW v, NEW x, Shrinks(vhci, export, v, x),
           NEW id \in AttIds, NEW a \in Record, In(m, id, a),
           NEW d \in Devices, d[1] = a.server, m => d[2] = a.busid, x[d] = "idle"
    PROVE  Unused(id, v, x)
  <1> SUFFICES ASSUME NEW e \in Devices, x[e] \in Ports, Backing(id, e, v, x)
               PROVE  FALSE
    BY DEF Unused
  <1>1. att[id] \in Record /\ e = <<att[id].server, att[id].busid>>
    BY FirmTables DEF Backing, Table
  <1>2. In(m, id, att[id])
    BY <1>1, CopyIn DEF Copy
  <1>3. Akin(m, att[id], a)
    BY <1>1, <1>2, FirmTables, OneOfIn
  <1>4. e[1] = d[1] /\ (m => e = d) /\ e = <<e[1], e[2]>> /\ d = <<d[1], d[2]>>
    BY <1>1, <1>3 DEF Akin, Devices
  <1>5. x[d] \notin Ports /\ export[e] # "absent" /\ export[d] # "absent"
    BY FirmTables, PortsAssumption DEF Shrinks
  <1>6. ~m => e = d
    BY <1>4, <1>5 DEF Firm, Calm, LoneDevices, Devices
  <1> QED
    BY <1>4, <1>5, <1>6

(* A direct attachment that is to be kept is not taken out.                *)
LEMMA NotFinalStays ==
    ASSUME NEW m \in BOOLEAN, Firm(m), NEW id \in AttIds, NEW a \in Record, In(m, id, a), ~Final(a)
    PROVE  Staying(id)
  <1>1. ASSUME NEW r \in Record, Copy(id, r) PROVE r.group = None /\ ~Final(r)
    <2>1. Akin(m, a, r)
      BY <1>1, CopyIn, FirmTables, OneOfIn
    <2> QED
      BY <2>1 DEF Akin, Final
  <1>2. snap[id] = None \/ ~Final(snap[id])
    BY <1>1, FirmTables DEF Table, Copy, Elsewhere
  <1>3. ASSUME NEW t \in Tasks, frame[t].pc = "candidate", frame[t].id = id PROVE FALSE
    <2>1. frame[t].id # None
      BY <1>3, NoneAssumption
    <2>2. frame[t].att \in Record /\ frame[t].group \in Groups
      BY <1>3, <2>1, FirmTables, FrameKinds, FrameCaptures DEF Captures, GroupFrame
    <2>3. Copy(id, frame[t].att)
      BY <1>3 DEF Copy, Elsewhere, HeldAs
    <2>4. frame[t].att.group = frame[t].group
      BY <1>3, <2>1 DEF Firm, Kept, FramesFit, FrameFits
    <2> QED
      BY <1>1, <2>2, <2>3, <2>4, NoneAssumption
  <1> QED
    BY <1>2, <1>3 DEF Staying

LEMMA EndedTidy ==
    ASSUME NEW m \in BOOLEAN, Firm(m), Typed', serialAt' = serialAt, Told(m)', Descend(m),
           NEW t, NEW s, NEW id, NEW a, NEW A, NEW v, NEW x,
           Begins(m, t, s, id, a, A, v, x), Shrinks(vhci, export, v, x),
           \A i \in AttIds \ {id} : A[i] = att[i], A[id] = att[id] \/ Unused(id, v, x),
           Final(a) => Unused(id, v, x),
           NEW d \in Devices, d[1] = a.server, m => d[2] = a.busid,
           Ended(id, a, A, v, x, d)
    PROVE  Tidy(m)'
  <1>1. /\ id \in AttIds /\ a \in Record /\ In(m, id, a) /\ From(m, A)
        /\ A \in Table /\ v \in Vhci /\ x \in Exports
    BY DEF Begins
  <1>2. ASSUME \A i \in AttIds \ {id} : att'[i] = A[i], OthersRemain(id)
        PROVE  \A i \in AttIds \ {id} : Lasts(i)
    BY <1>2 DEF Lasts, OthersRemain
  <1>3. CASE Popped(id, a, A, v, x)
    <2>1. \A i \in AttIds \ {id} : Lasts(i)
      BY <1>1, <1>2, <1>3 DEF Popped, Table
    <2>2. Unused(id, vhci', export') /\ Shrinks(vhci, export, vhci', export')
      BY <1>3 DEF Popped, Still
    <2>3. Held'
      BY <2>1, <2>2, FirmTables, HeldLasts
    <2>4. From(m, [A EXCEPT ![id] = None]) /\ From(m, [A EXCEPT ![id] = Bump(a)])
      BY <1>1, FromLess, InBump, FromOne
    <2> QED
      BY <1>3, <2>3, <2>4, FromTidy DEF Popped
  <1>4. CASE Failed(id, A, v, x)
    <2>1. From(m, NoteReconnectFailure(A, id))
      BY <1>1, FromNoted
    <2>2. \A i \in AttIds \ {id} : att'[i] = A[i]
      BY <1>1, <1>4 DEF Failed, NoteReconnectFailure, Table
    <2>3. \A i \in AttIds \ {id} : Lasts(i)
      BY <1>2, <1>4, <2>2 DEF Failed, AllRemain, OthersRemain
    <2>4. ASSUME A[id] = att[id] PROVE Lasts(id)
      <3> SUFFICES ASSUME att[id] # None PROVE Lasts(id)
        BY DEF Lasts
      <3>1. att[id] \in Record
        BY <1>1, FirmTables DEF Table
      <3>2. att'[id] \in {att[id], Bump(att[id])}
        BY <1>1, <1>4, <2>4 DEF Failed, NoteReconnectFailure, Table
      <3>3. Bump(att[id]) # None /\ Bump(att[id]).server = att[id].server
            /\ Bump(att[id]).busid = att[id].busid /\ Bump(att[id]).port = att[id].port
            /\ Bump(att[id]).local_busid = att[id].local_busid
        BY <3>1, BumpSame
      <3>4. Remains(id)
        BY <1>1, <1>4 DEF Failed, AllRemain
      <3> QED
        BY <3>2, <3>3, <3>4 DEF Lasts
    <2>5. Shrinks(vhci, export, vhci', export') /\ (A[id] = att[id] \/ Unused(id, vhci', export'))
      BY <1>4 DEF Failed, Still
    <2>6. Held'
      BY <2>3, <2>4, <2>5, FirmTables, HeldLasts
    <2> QED
      BY <1>1, <1>4, <2>1, <2>6, FromTidy DEF Failed
  <1>5. CASE ~Final(a) /\ Again(id, a, A, v, x, d)
    <2>1. PICK pb \in Attachable(v, x, d), r \in Record :
            /\ att' = [A EXCEPT ![id] = r] /\ Session(v, x, d, pb) /\ AllRemain
            /\ r.server = a.server /\ r.busid = d[2] /\ r.serial = a.serial /\ r.group = a.group
            /\ r.auto_failover = a.auto_failover /\ r.port = pb[1] /\ r.local_busid = pb[2]
      BY <1>5 DEF Again
    <2>2. x[d] = "idle" /\ att'[id] = r /\ \A i \in AttIds \ {id} : att'[i] = A[i]
      BY <1>1, <2>1 DEF Attachable, Refused, Table
    <2>3. Unused(id, v, x)
      BY <1>1, <2>2, AgainUnused
    <2>4. Staying(id)'
      BY <1>1, <1>5, <2>1, NotFinalStays DEF AllRemain, Remains
    <2>5. Names(att'[id], d, pb) /\ \A i \in AttIds \ {id} : Lasts(i)
      BY <1>2, <2>1, <2>2 DEF Names, AllRemain, OthersRemain
    <2>6. vhci' = Occupy(v, pb) /\ export' = Export(x, d, pb)
      BY <2>1 DEF Session
    <2>7. Held'
      BY <1>1, <2>3, <2>4, <2>5, <2>6, FirmTables, HeldGrows
    <2>8. In(m, id, r)
      <3>1. PICK q \in Record : Copy(id, q) /\ Akin(m, q, a)
        BY <1>1 DEF In
      <3>2. Akin(m, q, r)
        BY <2>1, <3>1 DEF Akin
      <3> QED
        BY <3>1, <3>2 DEF In
    <2>9. From(m, [A EXCEPT ![id] = r])
      BY <1>1, <2>8, FromOne
    <2> QED
      BY <2>1, <2>7, <2>9, FromTidy
  <1> QED
    BY <1>3, <1>4, <1>5 DEF Ended

LEMMA RestoreTidy ==
    ASSUME NEW m \in BOOLEAN, Firm(m), Typed',
           NEW t, NEW s, NEW id, NEW a, NEW A, NEW v, NEW x,
           Begins(m, t, s, id, a, A, v, x), Shrinks(vhci, export, v, x),
           \A i \in AttIds \ {id} : A[i] = att[i], A[id] = att[id] \/ Unused(id, v, x),
           Final(a) => Unused(id, v, x), Restore(t, s, id, a, A, v, x)
    PROVE  Tidy(m)'
  <1> DEFINE d == <<a.server, a.busid>>
  <1>1. d \in Devices /\ d[1] = a.server /\ d[2] = a.busid /\ t \in Tasks
    BY DEF Begins, Record, Devices
  <1>2. Told(m)' /\ serialAt' = serialAt
    BY <1>1, FirmTables, RestoreInforms DEF Firm, Tidy, Told, Restore
  <1>3. Descend(m) /\ Ended(id, a, A, v, x, d)
    BY FirmTables, RestoreEnds
  <1> HIDE DEF d
  <1> QED
    BY <1>1, <1>2, <1>3, EndedTidy

-----------------------------------------------------------------------------
(* The watchdog and the pushes.                                            *)

LEMMA UnusedIfNotStaying ==
    ASSUME NEW i, ~Staying(i), NEW v, NEW x
    PROVE  Unused(i, v, x)
  BY DEF Unused

LEMMA FinalUnused ==
    ASSUME NEW id \in AttIds, snap[id] # None, Final(snap[id]), NEW v, NEW x
    PROVE  Unused(id, v, x)
  BY UnusedIfNotStaying DEF Staying

LEMMA DeadUnused ==
    ASSUME NEW id \in AttIds, NEW v, NEW x, att[id] # None => ~IsLive(v, att[id])
    PROVE  Unused(id, v, x)
  BY DEF Unused, Backing

LEMMA EndTold ==
    ASSUME NEW m \in BOOLEAN, Firm(m), m => serialAt' = serialAt, NEW t \in Tasks, NEW s,
           \/ Return(t, s) \/ Raise(t, s)
           \/ \E f : Await(t, s, f) /\ Informed(f, serialAt)
    PROVE  Told(m)'
  BY FirmTables, EndInforms DEF Firm, Tidy, Told

LEMMA WatchdogTickTidy ==
    ASSUME NEW m \in BOOLEAN, Firm(m), Typed', WatchdogTick
    PROVE  Tidy(m)'
  <1>1. /\ snap' = [id \in AttIds |-> IF id \in Dropped THEN att[id] ELSE None]
        /\ \A u \in Tasks : frame'[u] = frame[u] \/ frame'[u] = Scan
        /\ UNCHANGED <<att, vhci, export, serialAt>>
    BY FirmTables DEF WatchdogTick, Typed, Changing, Handlers, world
  <1>2. ASSUME NEW i \in AttIds, NEW r \in Record, Elsewhere(i, r)' PROVE In(m, i, r)
    <2>1. Copy(i, r)
      BY <1>1, <1>2, NoRecordAssumption DEF Copy, Elsewhere, HeldAs, Scan
    <2> QED
      BY <2>1, CopyIn
  <1>3. ASSUME NEW i \in AttIds PROVE Lasts(i) \/ Unused(i, vhci', export')
    <2>1. CASE i \in Dropped
      BY <1>1, <2>1, DeadUnused DEF Dropped
    <2>2. CASE i \notin Dropped
      BY <1>1, <2>2 DEF Lasts, Remains, Staying, Scan
    <2> QED
      BY <2>1, <2>2
  <1>4. Held'
    BY <1>1, <1>3, FirmTables, ShrinksItself, HeldLasts
  <1>5. Informed(Scan, serialAt)
    BY DEF Informed, Scan
  <1>6. Told(m)'
    BY <1>1, <1>5, SettledInformed DEF Firm, Tidy, Told
  <1>7. Descend(m)
    BY <1>2 DEF Descend
  <1> QED
    BY <1>1, <1>4, <1>6, <1>7, FirmTables, FromTidy

LEMMA SubNext ==
    ASSUME NEW m \in BOOLEAN, Firm(m), NEW id \in AttIds
    PROVE  Sub([snap EXCEPT ![id] = None])
  BY FirmTables DEF Sub, Table

LEMMA WatchdogSkipTidy ==
    ASSUME NEW m \in BOOLEAN, Firm(m), Typed', NEW id \in AttIds, WatchdogSkip(id)
    PROVE  Tidy(m)'
  <1>1. /\ Return(Watchdog, [snap EXCEPT ![id] = None]) /\ Watchdog \in Tasks
        /\ UNCHANGED <<att, vhci, export, serialAt>>
    BY DEF WatchdogSkip, Tasks, world
  <1>2. Descend(m) /\ AllRemain
    BY <1>1, SubNext, FirmTables, ReturnDescends DEF AllRemain
  <1>3. Told(m)'
    BY <1>1, EndTold
  <1> QED
    BY <1>1, <1>2, <1>3, FirmTables, ShrinksItself, UntouchedTidy

LEMMA WatchdogRestoreTidy ==
    ASSUME NEW m \in BOOLEAN, Firm(m), Typed', NEW id \in AttIds, WatchdogRestore(id)
    PROVE  Tidy(m)'
  <1> DEFINE s == [snap EXCEPT ![id] = None]
             a == snap[id]
  <1>1. Restore(Watchdog, s, id, a, att, vhci, export) /\ a # None
    BY DEF WatchdogRestore, IsNext
  <1>2. a \in Record /\ Sub(s) /\ Watchdog \in Tasks
    BY <1>1, SubNext, FirmTables DEF Table, Tasks
  <1>3. In(m, id, a)
    BY <1>2, CopyIn DEF Copy, Elsewhere
  <1>4. Final(a) => Unused(id, vhci, export)
    BY <1>1, FinalUnused
  <1> HIDE DEF s, a
  <1>5. Begins(m, Watchdog, s, id, a, att, vhci, export)
    BY <1>2, <1>3, FirmTables DEF Begins
  <1>6. Shrinks(vhci, export, vhci, export)
    BY DEF Shrinks
  <1> QED
    BY <1>1, <1>4, <1>5, <1>6, RestoreTidy

(* A push starts from where its detach leaves the port on record.          *)
LEMMA PushMatchedTidy ==
    ASSUME NEW m \in BOOLEAN, Firm(m), Typed', NEW t \in Pushes, NEW s, NEW b, NEW id \in AttIds,
           PushMatched(t, id, s, b)
    PROVE  Tidy(m)'
  <1>1. att[id] # None /\ att[id] \in Record /\ t \in Tasks
    BY FirmTables DEF PushMatched, Matches, Table, Tasks
  <1>2. In(m, id, att[id])
    BY <1>1, CopyIn DEF Copy
  <1>3. ASSUME NEW v \in Vhci, NEW x \in Exports, Shrinks(vhci, export, v, x),
               ~IsLive(v, att[id]), Restore(t, snap, id, att[id], att, v, x)
        PROVE  Tidy(m)'
    <2>1. Begins(m, t, snap, id, att[id], att, v, x)
      BY <1>1, <1>2, FirmTables DEF Begins
    <2>2. Unused(id, v, x)
      BY <1>3, DeadUnused
    <2> QED
      BY <1>3, <2>1, <2>2, RestoreTidy
  <1>4. CASE \E o \in DetachResults(vhci, export, att[id].port) :
                Restore(t, snap, id, att[id], att, o[1], o[2])
    <2>1. PICK o \in DetachResults(vhci, export, att[id].port) :
                Restore(t, snap, id, att[id], att, o[1], o[2])
      BY <1>4
    <2>2. att[id].port \in Ports /\ att[id].local_busid # None
      BY <1>1, NoneAssumption DEF Record
    <2>3. o[1] \in Vhci /\ o[2] \in Exports /\ Shrinks(vhci, export, o[1], o[2])
          /\ o[1][att[id].port] = None
      BY <2>2, FirmTables, DetachShrinks
    <2>4. ~IsLive(o[1], att[id])
      BY <2>2, <2>3 DEF IsLive
    <2> QED
      BY <1>3, <2>1, <2>3, <2>4
  <1>5. CASE /\ ~IsLive(vhci, att[id]) \/ "detachfails" \in Events
             /\ Restore(t, snap, id, att[id], att, vhci, export)
    <2>1. Shrinks(vhci, export, vhci, export)
      BY DEF Shrinks
    <2>2. ~IsLive(vhci, att[id])
      BY <1>5, FirmTables DEF Quick
    <2> QED
      BY <1>3, <1>5, <2>1, <2>2, FirmTables
  <1> QED
    BY <1>4, <1>5 DEF PushMatched

(* A record that moves is not live; a device that stays is never looked up *)
(* by its serial at another busid.                                         *)
LEMMA PushRelocatedTidy ==
    ASSUME NEW m \in BOOLEAN, Firm(m), Typed', NEW t \in Pushes, NEW s \in Servers,
           NEW b \in Busids, NEW n, m => n = serialAt[<<s, b>>],
           NEW id \in AttIds, PushRelocated(t, id, s, b, n)
    PROVE  Tidy(m)'
  <1> DEFINE a == [att[id] EXCEPT !.busid = b]
             A == [att EXCEPT ![id] = a]
  <1>1. /\ att[id] # None /\ att[id].server = s /\ att[id].serial = n /\ n # None
        /\ att[id].busid # b /\ ~IsLive(vhci, att[id])
    BY DEF PushRelocated, Relocated, Matches
  <1>2. att[id] \in Record /\ Copy(id, att[id]) /\ t \in Tasks
    BY <1>1, FirmTables DEF Table, Copy, Tasks
  <1>3. CASE m
    <2>1. serialAt[<<s, att[id].busid>>] = n /\ att[id].busid \in Busids
      BY <1>1, <1>2, <1>3 DEF Firm, Tidy, Serialled, Known, Record
    <2> QED
      BY <1>1, <1>3, <2>1 DEF Firm, Calm, DevicesStay
  <1>4. CASE ~m
    <2>1. a \in Record /\ Akin(m, att[id], a)
      BY <1>2, <1>4 DEF Record, Akin
    <2>2. Restore(t, snap, id, a, A, vhci, export)
      BY DEF PushRelocated
    <2>3. A = [att EXCEPT ![id] = a]
      OBVIOUS
    <2> HIDE DEF a, A
    <2>4. In(m, id, a)
      BY <1>2, <2>1 DEF In
    <2>5. A \in Table /\ From(m, A) /\ \A i \in AttIds \ {id} : A[i] = att[i]
      BY <2>1, <2>3, <2>4, FirmTables, FromOne DEF Table
    <2>6. Begins(m, t, snap, id, a, A, vhci, export)
      BY <1>2, <2>1, <2>4, <2>5, FirmTables DEF Begins
    <2>7. Unused(id, vhci, export) /\ Shrinks(vhci, export, vhci, export)
      BY <1>1, DeadUnused DEF Shrinks
    <2> QED
      BY <2>2, <2>5, <2>6, <2>7, RestoreTidy
  <1> QED
    BY <1>3, <1>4

LEMMA PushesTidy ==
    ASSUME NEW m \in BOOLEAN, Firm(m), Typed', PushStep
    PROVE  Tidy(m)'
  <1>1. PICK t \in Pushes, s \in Servers, b \in Busids :
          \E n \in IF "late" \in Events THEN Serials \cup {None} ELSE {serialAt[<<s, b>>]} :
            Push(t, s, b, n)
    BY DEF PushStep
  <1>2. PICK n : Push(t, s, b, n) /\ (m => n = serialAt[<<s, b>>])
    BY <1>1 DEF Firm, Calm, DevicesStay
  <1>3. PICK id \in AttIds : PushMatched(t, id, s, b) \/ PushRelocated(t, id, s, b, n)
    BY <1>2 DEF Push
  <1> QED
    BY <1>2, <1>3, PushMatchedTidy, PushRelocatedTidy

-----------------------------------------------------------------------------
(* The handlers that go on after an answer.                                *)

(* A new attachment's record names the device it has just attached.        *)
LEMMA NewAttachmentTidy ==
    ASSUME NEW m \in BOOLEAN, Firm(m), Typed', serialAt' = serialAt, NEW t \in Tasks,
           NEW d \in Devices, NEW pb \in Attachable(vhci, export, d), NEW n \in FreshIds,
           NEW serial \in Serials \cup {None}, m => Known(serial, d), NEW g \in Groups \cup {None},
           NEW flags \in [auto_failover : BOOLEAN, auto_rebind_on_backoff : BOOLEAN],
           att' = [att EXCEPT ![n] = NewRecord(d, serial, g, flags, pb)],
           vhci' = Occupy(vhci, pb), export' = Export(export, d, pb), Return(t, snap)
    PROVE  Tidy(m)'
  <1> DEFINE r == NewRecord(d, serial, g, flags, pb)
  <1>1. r \in Record
    BY FirmTables, AttachableTyped, NewRecordIsRecord
  <1>2. /\ r.server = d[1] /\ r.busid = d[2] /\ r.serial = serial
        /\ r.port = pb[1] /\ r.local_busid = pb[2]
    BY DEF NewRecord
  <1>3. att' = [att EXCEPT ![n] = r]
    OBVIOUS
  <1> HIDE DEF r
  <1>4. n \in AttIds /\ att[n] = None /\ snap[n] = None
        /\ \A u \in Tasks : frame[u].pc \in {"candidate", "find"} => frame[u].id # n
    BY DEF FreshIds
  <1>5. att'[n] = r /\ \A i \in AttIds \ {n} : att'[i] = att[i]
    BY <1>3, <1>4, FirmTables DEF Table
  <1>6. First(m, n, r)
    <2>1. d = <<r.server, r.busid>>
      BY <1>2 DEF Devices
    <2> QED
      BY <1>2, <1>4, <2>1, NoRecordAssumption DEF First, Copy, Elsewhere, HeldAs
  <1>7. Descend(m) /\ AllRemain
    BY FirmTables, ReturnDescends DEF AllRemain
  <1>8. Held'
    <2>1. Unused(n, vhci, export) /\ Staying(n) /\ Shrinks(vhci, export, vhci, export)
      BY <1>4 DEF Unused, Backing, Staying, Shrinks
    <2>2. Names(att'[n], d, pb) /\ Staying(n)'
      BY <1>1, <1>2, <1>4, <1>5, <1>7, <2>1 DEF Names, AllRemain, Remains
    <2>3. \A i \in AttIds \ {n} : Lasts(i)
      BY <1>5, <1>7 DEF Lasts, AllRemain
    <2> QED
      BY <1>4, <2>1, <2>2, <2>3, FirmTables, HeldGrows
  <1>9. Told(m)'
    BY EndTold
  <1>10. \A i \in AttIds : att'[i] # None => In(m, i, att'[i]) \/ First(m, i, att'[i])
    BY <1>5, <1>6, FirmTables DEF From
  <1> QED
    BY <1>7, <1>8, <1>9, <1>10, TidyConcludes

LEMMA CandidateCopy ==
    ASSUME NEW m \in BOOLEAN, Firm(m), NEW t \in Tasks, frame[t].pc = "candidate",
           frame[t].id # None
    PROVE  /\ frame[t].id \in AttIds /\ frame[t].att \in Record
           /\ In(m, frame[t].id, frame[t].att) /\ ~Staying(frame[t].id)
  <1>1. Captures(frame[t].id, frame[t].att)
    BY FirmTables, FrameCaptures
  <1>2. Copy(frame[t].id, frame[t].att)
    BY DEF Copy, Elsewhere, HeldAs
  <1> QED
    BY <1>1, <1>2, CopyIn DEF Captures, Staying

LEMMA QuietFruitless ==
    ASSUME NEW m \in BOOLEAN, Firm(m), NEW d, Fruitless(d)
    PROVE  UNCHANGED <<vhci, export>>
  BY FirmTables, QuickErrors DEF Fruitless, Still

LEMMA TryCandidateTidy ==
    ASSUME NEW m \in BOOLEAN, Firm(m), Typed', NEW t \in Tasks, TryCandidate(t)
    PROVE  Tidy(m)'
  <1> DEFINE f == frame[t]
  <1>1. /\ f.pc = "candidate" /\ f \in GroupFrame /\ f.reply # None
        /\ f.reply.serial \in Serials \cup {None} /\ serialAt' = serialAt
    BY FirmTables, CandidateTried
  <1>2. f.group \in Groups /\ f.id \in AttIds \cup {None}
    BY <1>1 DEF GroupFrame
  <1>3. f.id # None => /\ f.id \in AttIds /\ f.att \in Record
                       /\ In(m, f.id, f.att) /\ ~Staying(f.id)
    BY <1>1, CandidateCopy
  <1>4. PICK i \in f.untried :
          /\ f.candidates[i] \in Devices
          /\ \A j \in f.untried : i <= j
          /\ \/ Taken(t, f, f.candidates[i])
             \/ Fruitless(f.candidates[i]) /\ (Exhausted(t, f) \/ GoesOn(t, f))
             \/ Hangs(t, f.candidates[i])
    BY FirmTables, CandidateTried
  <1>5. m => Known(f.reply.serial, f.candidates[i])
    BY <1>1, <1>4 DEF Firm, Tidy, Told, AllInformed, Informed, Known
  <1> HIDE DEF f
  <1>6. CASE Taken(t, f, f.candidates[i])
    <2>1. PICK pb \in Attachable(vhci, export, f.candidates[i]), n \in FreshIds,
               flags \in [auto_failover : BOOLEAN, auto_rebind_on_backoff : BOOLEAN] :
            /\ att' = [att EXCEPT ![n] = NewRecord(f.candidates[i], f.reply.serial, f.group, flags, pb)]
            /\ vhci' = Occupy(vhci, pb) /\ export' = Export(export, f.candidates[i], pb)
            /\ Return(t, snap)
      BY <1>6 DEF Taken
    <2> QED
      BY <1>1, <1>2, <1>4, <1>5, <2>1, NewAttachmentTidy
  <1>7. CASE Fruitless(f.candidates[i]) /\ Exhausted(t, f)
    <2>1. UNCHANGED <<vhci, export>> /\ Shrinks(vhci, export, vhci', export')
      BY <1>7, QuietFruitless, FirmTables, ShrinksItself
    <2>2. Descend(m) /\ AllRemain /\ Told(m)'
      BY <1>1, <1>7, FirmTables, ReturnDescends, EndTold DEF Exhausted, AllRemain
    <2>3. CASE f.id = None
      BY <1>1, <1>7, <2>1, <2>2, <2>3, UntouchedTidy DEF Exhausted, PutBack
    <2>4. CASE f.id # None
      <3>1. att' = [att EXCEPT ![f.id] = Bump(f.att)]
        BY <1>7, <2>4 DEF Exhausted, PutBack
      <3>2. Bump(f.att) \in Record /\ In(m, f.id, Bump(f.att))
        BY <1>3, <2>4, InBump
      <3>3. From(m, [att EXCEPT ![f.id] = Bump(f.att)])
        BY <1>3, <2>4, <3>2, FirmTables, FromOne
      <3>4. Unused(f.id, vhci', export')
        BY <1>3, <2>4, UnusedIfNotStaying
      <3>5. \A k \in AttIds \ {f.id} : Lasts(k)
        BY <2>2, <3>1, FirmTables DEF Lasts, AllRemain, Table
      <3>6. Held'
        BY <2>1, <3>4, <3>5, FirmTables, HeldLasts
      <3> QED
        BY <1>1, <2>2, <3>1, <3>3, <3>6, FromTidy
    <2> QED
      BY <2>3, <2>4
  <1>8. CASE Fruitless(f.candidates[i]) /\ GoesOn(t, f)
    <2>1. PICK h \in GroupFrame : h.id = f.id /\ h.att = f.att /\ h.reply = None /\ Await(t, snap, h)
      BY <1>8 DEF GoesOn
    <2>2. h.id \in AttIds => In(m, h.id, h.att)
      BY <1>3, <2>1, NoneAssumption
    <2>3. Descend(m) /\ \A k \in AttIds : h.id # k => Remains(k)
      BY <2>1, <2>2, FirmTables, AwaitDescends
    <2>4. ASSUME NEW k \in AttIds PROVE Remains(k)
      BY <1>3, <2>1, <2>3, NoneAssumption DEF Remains
    <2>5. Informed(h, serialAt)
      BY <2>1 DEF Informed, GroupFrame
    <2>6. Told(m)'
      BY <1>1, <2>1, <2>5, EndTold
    <2>7. att' = att /\ Shrinks(vhci, export, vhci', export')
      BY <1>8, QuietFruitless, FirmTables, ShrinksItself DEF GoesOn
    <2> QED
      BY <1>1, <2>3, <2>4, <2>6, <2>7, UntouchedTidy DEF AllRemain
  <1>9. CASE Hangs(t, f.candidates[i])
    <2>1. Descend(m) /\ AllRemain /\ Told(m)'
      BY <1>1, <1>9, FirmTables, ReturnDescends, EndTold DEF Hangs, AllRemain
    <2> QED
      BY <1>1, <1>9, <2>1, FirmTables, ShrinksItself, UntouchedTidy DEF Hangs
  <1> QED
    BY <1>4, <1>6, <1>7, <1>8, <1>9

(* A device that has not moved is not found elsewhere (groups.py:405-410); *)
(* the lone device of a server is found wherever it is.                    *)
LEMMA TryRelocatedTidy ==
    ASSUME NEW m \in BOOLEAN, Firm(m), Typed', NEW t \in Tasks, TryRelocated(t)
    PROVE  Tidy(m)'
  <1> DEFINE f == frame[t]
             d == <<f.att.server, f.att.busid>>
             e == <<f.att.server, f.reply.busid>>
             h == [pc |-> "rebind", id |-> f.id, device |-> d, reply |-> None]
             k == [pc |-> "rebind", id |-> f.id, device |-> e, reply |-> None]
  <1>1. f.pc = "find" /\ f \in FindFrame /\ f.reply # None
    BY FirmTables, FrameKinds DEF TryRelocated
  <1>2. f.id \in AttIds /\ f.att \in Record /\ f.reply \in [busid : Busids \cup {None}]
    BY <1>1 DEF FindFrame
  <1>3. In(m, f.id, f.att) /\ ~Final(f.att)
    BY <1>1, <1>2, CopyIn DEF Copy, Elsewhere, HeldAs, Firm, Kept, FramesFit, FrameFits, Final
  <1>4. Begins(m, t, snap, f.id, f.att, att, vhci, export) /\ serialAt' = serialAt
    BY <1>2, <1>3, FirmTables DEF Begins, TryRelocated
  <1>5. m => f.reply.busid = None
    BY <1>1 DEF Firm, Tidy, Told, AllInformed, Informed
  <1>6. d \in Devices /\ d[1] = f.att.server /\ d[2] = f.att.busid
    BY <1>2 DEF Record, Devices
  <1>7. f.reply.busid # None => e \in Devices /\ e[1] = f.att.server
    BY <1>2 DEF Record, Devices
  <1>8. h.pc = "rebind" /\ k.pc = "rebind"
    OBVIOUS
  <1>9. \/ FailDirect(t, snap, f.id, f.att, att, d, f.busy) /\ Still(vhci, export)
        \/ /\ f.reply.busid # None
           /\ \/ Reattached(t, snap, f.id, f.att, att, vhci, export, e)
              \/ att' = att /\ Still(vhci, export) /\ Raise(t, snap)
              \/ FailDirect(t, snap, f.id, f.att, att, e, Busy(export, e)) /\ Still(vhci, export)
    BY FirmTables, QuickErrors DEF TryRelocated, Still
  <1>10. Return(t, snap) \/ Raise(t, snap) \/ Await(t, snap, h) \/ Await(t, snap, k)
    BY DEF TryRelocated, FailDirect, Reattached
  <1> HIDE DEF f, d, e, h, k
  <1>11. Told(m)'
    <2>1. Informed(h, serialAt) /\ Informed(k, serialAt)
      BY <1>8 DEF Informed
    <2> QED
      BY <1>4, <1>10, <2>1, EndTold
  <1>12. Shrinks(vhci, export, vhci, export)
    BY DEF Shrinks
  <1>13. ASSUME NEW u \in Devices, u[1] = f.att.server, m => u[2] = f.att.busid,
                Descend(m), Ended(f.id, f.att, att, vhci, export, u)
         PROVE  Tidy(m)'
    BY <1>3, <1>4, <1>11, <1>12, <1>13, EndedTidy
  <1>14. CASE FailDirect(t, snap, f.id, f.att, att, d, f.busy) /\ Still(vhci, export)
    <2>1. Descend(m) /\ Failed(f.id, att, vhci, export)
      BY <1>4, <1>14, FirmTables, FailDirectEnds
    <2> QED
      BY <1>6, <1>13, <2>1 DEF Ended
  <1>15. CASE f.reply.busid # None /\ Reattached(t, snap, f.id, f.att, att, vhci, export, e)
    <2>1. Descend(m) /\ Again(f.id, f.att, att, vhci, export, e)
      BY <1>4, <1>7, <1>15, FirmTables, ReattachedEnds
    <2> QED
      BY <1>3, <1>5, <1>7, <1>13, <1>15, <2>1 DEF Ended
  <1>16. CASE f.reply.busid # None /\ att' = att /\ Still(vhci, export) /\ Raise(t, snap)
    <2>1. Descend(m) /\ Failed(f.id, att, vhci, export)
      BY <1>16, FirmTables, ReturnDescends DEF Failed, AllRemain
    <2> QED
      BY <1>6, <1>13, <2>1 DEF Ended
  <1>17. CASE /\ f.reply.busid # None /\ Still(vhci, export)
              /\ FailDirect(t, snap, f.id, f.att, att, e, Busy(export, e))
    <2>1. Descend(m) /\ Failed(f.id, att, vhci, export)
      BY <1>4, <1>17, FirmTables, FailDirectEnds
    <2> QED
      BY <1>6, <1>13, <2>1 DEF Ended
  <1> QED
    BY <1>9, <1>14, <1>15, <1>16, <1>17

(* A stretch that ends and changes nothing else.                           *)
LEMMA NothingTidy ==
    ASSUME NEW m \in BOOLEAN, Firm(m), Typed', NEW t \in Tasks, Return(t, snap) \/ Raise(t, snap),
           UNCHANGED <<att, vhci, export, serialAt>>
    PROVE  Tidy(m)'
  <1>1. Descend(m) /\ AllRemain /\ Told(m)'
    BY FirmTables, ReturnDescends, EndTold DEF AllRemain
  <1> QED
    BY <1>1, FirmTables, ShrinksItself, UntouchedTidy

(* A stretch that only starts to wait, and holds no record.                *)
LEMMA OnlyAwaitsTidy ==
    ASSUME NEW m \in BOOLEAN, Firm(m), Typed', NEW t \in Tasks, NEW f, Await(t, snap, f),
           f.pc \in {"candidate", "find"} => f.id \notin AttIds, Informed(f, serialAt),
           UNCHANGED <<att, vhci, export, serialAt>>
    PROVE  Tidy(m)'
  <1>1. Descend(m) /\ \A i \in AttIds : (f.pc = "candidate" => f.id # i) => Remains(i)
    BY FirmTables, AwaitDescends
  <1>2. AllRemain
    BY <1>1 DEF AllRemain
  <1>3. Told(m)'
    BY EndTold
  <1> QED
    BY <1>1, <1>2, <1>3, FirmTables, ShrinksItself, UntouchedTidy

LEMMA DirectTailTidy ==
    ASSUME NEW m \in BOOLEAN, Firm(m), Typed', serialAt' = serialAt, NEW t \in Tasks,
           NEW d \in Devices, NEW flags \in Flags, NEW serial \in Serials \cup {None},
           m => Known(serial, d), DirectTail(t, d, flags, serial)
    PROVE  Tidy(m)'
  <1>1. flags \in [auto_failover : BOOLEAN, auto_rebind_on_backoff : BOOLEAN]
    BY ValuesAssumption
  <1>2. CASE \E pb \in Attachable(vhci, export, d), n \in FreshIds :
               /\ att' = [att EXCEPT ![n] = NewRecord(d, serial, None, flags, pb)]
               /\ vhci' = Occupy(vhci, pb) /\ export' = Export(export, d, pb)
               /\ Return(t, snap)
    BY <1>1, <1>2, NewAttachmentTidy
  <1>3. CASE Still(vhci, export) /\ att' = att /\ (Return(t, snap) \/ Raise(t, snap))
    BY <1>3, NothingTidy DEF Still
  <1> QED
    BY <1>2, <1>3, FirmTables, QuickErrors DEF DirectTail, Still

LEMMA AnsweredTidy ==
    ASSUME NEW m \in BOOLEAN, Firm(m), Typed', NEW t \in Tasks,
           LookupAnswered(t) \/ ShareAnswered(t) \/ RebindAnswered(t)
    PROVE  Tidy(m)'
  <1> DEFINE f == frame[t]
             h == [pc |-> "share", device |-> f.device, flags |-> f.flags,
                   serial |-> f.reply.serial, reply |-> None]
  <1>1. serialAt' = serialAt
    BY DEF LookupAnswered, ShareAnswered, RebindAnswered, world
  <1>2. CASE LookupAnswered(t)
    <2>1. /\ f.device \in Devices /\ f.flags \in Flags /\ f.reply.serial \in Serials \cup {None}
      BY <1>2, FirmTables, FrameKinds DEF LookupAnswered, DirectFrame
    <2>2. m => Known(f.reply.serial, f.device)
      BY <1>2 DEF LookupAnswered, Firm, Tidy, Told, AllInformed, Informed, Known
    <2>3. CASE Await(t, snap, h) /\ UNCHANGED <<att, vhci, export>>
      <3>1. h.pc = "share" /\ h.device = f.device /\ h.serial = f.reply.serial
        OBVIOUS
      <3> HIDE DEF h
      <3>2. CASE m
        <4>1. Informed(h, serialAt)
          BY <2>2, <3>1, <3>2 DEF Informed, Known
        <4> QED
          BY <1>1, <2>3, <3>1, <4>1, OnlyAwaitsTidy
      <3>3. CASE ~m
        <4>1. Descend(m) /\ AllRemain
          BY <2>3, <3>1, FirmTables, AwaitDescends DEF AllRemain
        <4> QED
          BY <1>1, <2>3, <3>3, <4>1, FirmTables, ShrinksItself, UntouchedTidy DEF Told
      <3> QED
        BY <3>2, <3>3
    <2> QED
      BY <1>1, <1>2, <2>1, <2>2, <2>3, DirectTailTidy, NothingTidy DEF LookupAnswered
  <1>3. CASE ShareAnswered(t)
    <2>1. f.device \in Devices /\ f.flags \in Flags /\ f.serial \in Serials \cup {None}
      BY <1>3, FirmTables, FrameKinds DEF ShareAnswered, ShareFrame
    <2>2. m => Known(f.serial, f.device)
      BY <1>3 DEF ShareAnswered, Firm, Tidy, Told, AllInformed, Informed, Known
    <2> QED
      BY <1>1, <1>3, <2>1, <2>2, DirectTailTidy, NothingTidy DEF ShareAnswered
  <1>4. CASE RebindAnswered(t)
    BY <1>4, NothingTidy DEF RebindAnswered, world
  <1> QED
    BY <1>2, <1>3, <1>4

-----------------------------------------------------------------------------
(* The user, the servers and the world.                                    *)

(* A step that only frees ports.                                           *)
LEMMA QuietTidy ==
    ASSUME NEW m \in BOOLEAN, Firm(m), Typed', UNCHANGED <<att, snap, frame>>,
           m => serialAt' = serialAt, Shrinks(vhci, export, vhci', export')
    PROVE  Tidy(m)'
  <1>1. Descend(m) /\ AllRemain /\ Told(m)'
    BY QuietDescends, SettledInformed DEF AllRemain, Firm, Tidy, Told
  <1> QED
    BY <1>1, UntouchedTidy

LEMMA DetachTidy ==
    ASSUME NEW m \in BOOLEAN, Firm(m), Typed', NEW id \in AttIds, Detach(id)
    PROVE  Tidy(m)'
  <1>1. att[id] \in Record /\ att[id].port \in Ports
    BY FirmTables DEF Detach, Table, Record
  <1>2. PICK o \in DetachResults(vhci, export, att[id].port) :
          vhci' = o[1] /\ export' = o[2] /\ att' = [att EXCEPT ![id] = None]
    BY DEF Detach
  <1>3. Shrinks(vhci, export, vhci', export') /\ \A d \in Devices : export'[d] # att[id].port
    BY <1>1, <1>2, FirmTables, DetachShrinks
  <1>4. Unused(id, vhci', export')
    BY <1>3 DEF Unused, Backing
  <1>5. Descend(m) /\ AllRemain /\ Told(m)' /\ serialAt' = serialAt
    BY QuietDescends, SettledInformed DEF Detach, AllRemain, Firm, Tidy, Told
  <1>6. \A i \in AttIds \ {id} : Lasts(i)
    BY <1>2, <1>5, FirmTables DEF Lasts, AllRemain, Table
  <1>7. Held'
    BY <1>3, <1>4, <1>6, FirmTables, HeldLasts
  <1> QED
    BY <1>2, <1>5, <1>7, FirmTables, FromLess, FromTidy

LEMMA UsersTidy ==
    ASSUME NEW m \in BOOLEAN, Firm(m), Typed', UserStep
    PROVE  Tidy(m)'
  <1>1. ASSUME NEW t \in Users, NEW d, NEW flags, DirectAttach(t, d, flags) PROVE Tidy(m)'
    <2> DEFINE f == [pc |-> "lookup", device |-> d, flags |-> flags, reply |-> None]
    <2>1. /\ UNCHANGED <<att, vhci, export, serialAt>> /\ Await(t, snap, f) /\ t \in Tasks
          /\ f.pc = "lookup" /\ f.reply = None
      BY <1>1 DEF DirectAttach, Tasks, world
    <2> HIDE DEF f
    <2>2. Informed(f, serialAt)
      BY <2>1 DEF Informed
    <2> QED
      BY <2>1, <2>2, OnlyAwaitsTidy
  <1>2. ASSUME NEW t \in Users, NEW g \in Groups, AttachGroup(t, g) PROVE Tidy(m)'
    <2> DEFINE f == [pc |-> "candidate", group |-> g, candidates |-> groups[g].candidates,
                     untried |-> Reachable(g), auto_failover |-> groups[g].auto_failover,
                     id |-> None, att |-> None, reply |-> None]
    <2>1. UNCHANGED <<att, vhci, export, serialAt>> /\ Await(t, snap, f) /\ t \in Tasks
      BY <1>2 DEF AttachGroup, BeginAttachGroup, Tasks, world
    <2>2. f.id \notin AttIds /\ f.pc = "candidate" /\ f.reply = None
      BY NoneAssumption
    <2> HIDE DEF f
    <2>3. Informed(f, serialAt)
      BY <2>2 DEF Informed
    <2> QED
      BY <2>1, <2>2, <2>3, OnlyAwaitsTidy
  <1>3. ASSUME UNCHANGED <<serialAt, att, snap, frame, vhci, export>> PROVE Tidy(m)'
    BY <1>3, FirmTables, ShrinksItself, QuietTidy
  <1>4. "edit" \notin Events
    BY FirmTables DEF Quick
  <1> QED
    BY <1>1, <1>2, <1>3, <1>4, DetachTidy
       DEF UserStep, AddServer, DeleteServer, SaveGroup, DeleteGroup, world

LEMMA ServeShrinks ==
    ASSUME NEW m \in BOOLEAN, Firm(m), NEW t \in Tasks, Serve(t)
    PROVE  Shrinks(vhci, export, vhci', export')
  <1>1. ASSUME UNCHANGED <<vhci, export>> PROVE Shrinks(vhci, export, vhci', export')
    BY <1>1, FirmTables, ShrinksItself
  <1>2. CASE ServeShare(t)
    <2>1. frame[t].device \in Devices
      BY <1>2, FirmTables, FrameKinds DEF ServeShare, ShareFrame
    <2>2. CASE /\ export' = [export EXCEPT ![frame[t].device] = "idle"] /\ vhci' = vhci
               /\ Status(frame[t].device) = "unshared"
      <3>1. export[frame[t].device] # "absent"
        BY <2>2 DEF Status
      <3> QED
        BY <2>1, <2>2, <3>1, FirmTables, PortsAssumption DEF Shrinks, Exports
    <2> QED
      BY <1>1, <1>2, <2>2 DEF ServeShare
  <1>3. CASE ServeRebind(t)
    <2>1. frame[t].device \in Devices
      BY <1>3, FirmTables, FrameKinds DEF ServeRebind, RebindFrame
    <2>2. Typed /\ Single(export)
      BY FirmTables DEF Held
    <2>3. Status(frame[t].device) \in {"idle", "in_use"} => export[frame[t].device] # "absent"
      BY DEF Status
    <2> QED
      BY <1>1, <1>3, <2>1, <2>2, <2>3, SeverShrinks DEF ServeRebind
  <1> QED
    BY <1>1, <1>2, <1>3 DEF Serve, ServeCandidate, ServeFind, ServeLookup

LEMMA ServeTidy ==
    ASSUME NEW m \in BOOLEAN, Firm(m), Typed', NEW t \in Tasks, Serve(t)
    PROVE  Tidy(m)'
  <1>1. /\ \A u \in Tasks : /\ frame'[u].pc = frame[u].pc
                            /\ frame[u].pc \in {"candidate", "find"} => /\ frame'[u].id = frame[u].id
                                                                        /\ frame'[u].att = frame[u].att
        /\ UNCHANGED <<att, snap>>
    BY Answered, FirmTables
  <1>2. ASSUME NEW i \in AttIds, NEW r \in Record, Elsewhere(i, r)' PROVE Copy(i, r)
    BY <1>1, <1>2 DEF Elsewhere, HeldAs, Copy
  <1>3. Descend(m) /\ serialAt' = serialAt
    BY <1>2, CopyIn DEF Descend, Serve
  <1>4. AllRemain
    BY <1>1 DEF AllRemain, Remains, Staying
  <1>5. Told(m)'
    BY FirmTables, ServeInforms DEF Firm, Calm, Tidy, Told
  <1> QED
    BY <1>1, <1>3, <1>4, <1>5, ServeShrinks, UntouchedTidy

LEMMA StopTidy ==
    ASSUME NEW m \in BOOLEAN, Firm(m), Typed', ClientRestart \/ HostReboot
    PROVE  Tidy(m)'
  <1>1. snap' = NoSnap /\ frame' = [t \in Tasks |-> Idle] /\ UNCHANGED <<att, serialAt>>
    BY DEF ClientRestart, HostReboot, world
  <1>2. Descend(m)
    BY <1>1, NoRecordAssumption DEF Descend, Elsewhere, HeldAs, NoSnap, Idle
  <1>3. AllRemain
    BY <1>1 DEF AllRemain, Remains, Staying, NoSnap, Idle
  <1>4. Informed(Idle, serialAt)
    BY DEF Informed, Idle
  <1>5. Told(m)'
    BY <1>1, <1>4, SettledInformed DEF Firm, Tidy, Told
  <1>6. Shrinks(vhci, export, vhci', export')
    <2>1. CASE ClientRestart
      BY <2>1, FirmTables, ShrinksItself DEF ClientRestart, world
    <2>2. CASE HostReboot
      BY <2>2, FirmTables, PortsAssumption DEF HostReboot, Shrinks
    <2> QED
      BY <2>1, <2>2
  <1> QED
    BY <1>1, <1>2, <1>3, <1>5, <1>6, UntouchedTidy

LEMMA RenumberShrinks ==
    ASSUME NEW m \in BOOLEAN, Firm(m), NEW s \in Servers, NEW b \in Busids, NEW c \in Busids,
           Renumber(s, b, c)
    PROVE  Shrinks(vhci, export, vhci', export')
  <1> DEFINE d == <<s, b>>
             e == <<s, c>>
  <1>t. Single(export) /\ vhci \in Vhci /\ export \in Exports
    BY FirmTables DEF Held
  <1>1. d \in Devices /\ e \in Devices
    BY DEF Devices
  <1>2. /\ export[d] # "absent" /\ export[e] = "absent"
        /\ export' = [export EXCEPT ![d] = "absent", ![e] = "unshared"]
        /\ \/ export[d] \in Ports /\ vhci' = [vhci EXCEPT ![export[d]] = None]
           \/ vhci' = vhci
    BY DEF Renumber
  <1> HIDE DEF d, e
  <1>3. \A k \in Devices : export'[k] \in Ports \cup {"idle"} => k # d /\ k # e /\ export'[k] = export[k]
    BY <1>t, <1>1, <1>2, PortsAssumption DEF Exports
  <1>4. \A p \in Ports : vhci'[p] \in {vhci[p], None}
    BY <1>t, <1>2 DEF Vhci
  <1>5. ASSUME NEW k \in Devices, export'[k] \in Ports
        PROVE  export'[k] = export[k] /\ vhci'[export'[k]] = vhci[export'[k]]
    <2>1. k # d /\ export'[k] = export[k] /\ export[k] # export[d]
      BY <1>t, <1>1, <1>3, <1>5 DEF Single
    <2> QED
      BY <1>t, <1>2, <1>5, <2>1 DEF Vhci
  <1>6. \A k \in Devices : export'[k] = "idle" => export[k] # "absent"
    BY <1>3
  <1> QED
    BY <1>4, <1>5, <1>6 DEF Shrinks

LEMMA WorldShrinks ==
    ASSUME NEW m \in BOOLEAN, Firm(m), WorldStep
    PROVE  Shrinks(vhci, export, vhci', export')
  <1>t. Typed /\ Single(export) /\ vhci \in Vhci /\ export \in Exports
    BY FirmTables DEF Held
  <1>1. ASSUME NEW d \in Devices, Drop(d) \/ Unbind(d) PROVE Shrinks(vhci, export, vhci', export')
    BY <1>t, <1>1, SeverShrinks, PortsAssumption DEF Drop, Unbind
  <1>2. ASSUME NEW d \in Devices, Grab(d) \/ Release(d) \/ Bind(d)
        PROVE  Shrinks(vhci, export, vhci', export')
    BY <1>t, <1>2, PortsAssumption DEF Grab, Release, Bind, Shrinks, Exports
  <1>3. ASSUME NEW p \in Ports, Reap(p) PROVE Shrinks(vhci, export, vhci', export')
    BY <1>t, <1>3 DEF Reap, Shrinks, Vhci
  <1>4. ASSUME UNCHANGED <<vhci, export>> PROVE Shrinks(vhci, export, vhci', export')
    BY <1>t, <1>4, ShrinksItself
  <1> QED
    BY <1>1, <1>2, <1>3, <1>4, RenumberShrinks DEF WorldStep, Outage, Heal

LEMMA WorldTidy ==
    ASSUME NEW m \in BOOLEAN, Firm(m), Typed', WorldStep
    PROVE  Tidy(m)'
  <1>1. UNCHANGED <<att, snap, frame>>
    BY DEF WorldStep
  <1>2. m => serialAt' = serialAt
    BY DEF WorldStep, Drop, Grab, Release, Bind, Unbind, Reap, Outage, Heal, Firm, Calm, DevicesStay
  <1> QED
    BY <1>1, <1>2, WorldShrinks, QuietTidy

LEMMA NextTidy ==
    ASSUME NEW m \in BOOLEAN, Firm(m), Typed', [Next]_vars
    PROVE  Tidy(m)'
  <1>1. CASE WatchdogStep
    BY <1>1, WatchdogTickTidy, WatchdogSkipTidy, WatchdogRestoreTidy DEF WatchdogStep
  <1>2. ASSUME NEW t \in Tasks, TaskStep(t) PROVE Tidy(m)'
    BY <1>2, ServeTidy, TryCandidateTidy, TryRelocatedTidy, AnsweredTidy DEF TaskStep, Resume
  <1>3. CASE GraceEnd \/ UNCHANGED vars
    BY <1>3, FirmTables, ShrinksItself, QuietTidy DEF GraceEnd, vars, world
  <1> QED
    BY <1>1, <1>2, <1>3, PushesTidy, UsersTidy, WorldTidy, StopTidy DEF Next

-----------------------------------------------------------------------------
(* What the environment forbids never happens, and a server that has one   *)
(* device never had two.                                                   *)

LEMMA EnvironmentStays ==
    ASSUME [Next]_vars
    PROVE  env' = env
  <1>1. CASE WatchdogStep
    BY <1>1 DEF WatchdogStep, WatchdogTick, WatchdogSkip, WatchdogRestore, Restore, config
  <1>2. CASE PushStep
    BY <1>2 DEF PushStep, Push, PushMatched, PushRelocated, Restore, config
  <1>3. CASE UserStep
    BY <1>3 DEF UserStep, DirectAttach, AttachGroup, Detach, UpdateAttachment, AddServer,
                DeleteServer, SaveGroup, DeleteGroup, config
  <1>4. ASSUME NEW t \in Tasks, TaskStep(t) PROVE env' = env
    BY <1>4 DEF TaskStep, Serve, Resume, TryCandidate, TryRelocated, LookupAnswered, ShareAnswered,
                RebindAnswered, config
  <1> QED
    BY <1>1, <1>2, <1>3, <1>4 DEF Next, WorldStep, GraceEnd, ClientRestart, HostReboot, vars, config

LEMMA SerialsStay ==
    ASSUME [Next]_vars, "renumber" \notin Events
    PROVE  serialAt' = serialAt
  <1>1. CASE WatchdogStep
    BY <1>1 DEF WatchdogStep, WatchdogTick, WatchdogSkip, WatchdogRestore, Restore, world
  <1>2. CASE PushStep
    BY <1>2 DEF PushStep, Push, PushMatched, PushRelocated, Restore
  <1>3. CASE UserStep
    BY <1>3 DEF UserStep, DirectAttach, AttachGroup, Detach, UpdateAttachment, AddServer,
                DeleteServer, SaveGroup, DeleteGroup, world
  <1>4. ASSUME NEW t \in Tasks, TaskStep(t) PROVE serialAt' = serialAt
    BY <1>4 DEF TaskStep, Serve, Resume, TryCandidate, TryRelocated, LookupAnswered, ShareAnswered,
                RebindAnswered, world
  <1>5. CASE WorldStep
    BY <1>5 DEF WorldStep, Drop, Grab, Release, Bind, Unbind, Reap, Outage, Heal
  <1> QED
    BY <1>1, <1>2, <1>3, <1>4, <1>5 DEF Next, GraceEnd, ClientRestart, HostReboot, vars, world

(* The devices of the exports x are still there in y.                      *)
Present(x, y) == \A d \in Devices : x[d] # "absent" => y[d] # "absent"

LEMMA AttachPresent ==
    ASSUME NEW v, NEW x \in Exports, NEW d, NEW pb \in Attachable(v, x, d)
    PROVE  Present(x, Export(x, d, pb))
  <1>1. pb[1] \in Ports
    BY DEF Attachable, FreePorts
  <1> QED
    BY <1>1, PortsAssumption DEF Present, Export, Exports

LEMMA ErrorsPresent ==
    ASSUME NEW v, NEW x \in Exports, NEW d, NEW o \in AttachErrors(v, x, d), export' = o[2]
    PROVE  Present(x, export')
  BY AttachPresent DEF AttachErrors, Present

LEMMA ReattachedPresent ==
    ASSUME NEW t, NEW s, NEW id, NEW a, NEW A, NEW v, NEW x \in Exports, NEW d,
           Reattached(t, s, id, a, A, v, x, d)
    PROVE  Present(x, export')
  <1>1. PICK pb \in Attachable(v, x, d) : export' = Export(x, d, pb)
    BY DEF Reattached
  <1> QED
    BY <1>1, AttachPresent

LEMMA RestorePresent ==
    ASSUME NEW t, NEW s, NEW id, NEW a, NEW A, NEW v, NEW x \in Exports, Present(export, x),
           Restore(t, s, id, a, A, v, x)
    PROVE  Present(export, export')
  <1>1. Present(x, export')
    <2>1. ASSUME export' = x PROVE Present(x, export')
      BY <2>1 DEF Present
    <2> QED
      BY <2>1, ReattachedPresent, ErrorsPresent DEF Restore, Forget, RestoreGroup, RestoreDirect
  <1> QED
    BY <1>1 DEF Present

LEMMA DetachPresent ==
    ASSUME NEW p \in Ports, NEW o \in DetachResults(vhci, export, p)
    PROVE  Present(export, o[2])
  BY DEF DetachResults, Present

LEMMA HandlersPresent ==
    ASSUME Typed, WatchdogStep \/ PushStep \/ UserStep
    PROVE  Present(export, export')
  <1>t. export \in Exports /\ vhci \in Vhci /\ Present(export, export)
    BY DEF Typed, Changing, Present
  <1>1. ASSUME UNCHANGED export PROVE Present(export, export')
    BY <1>1 DEF Present
  <1>2. CASE WatchdogStep
    BY <1>t, <1>1, <1>2, RestorePresent
       DEF WatchdogStep, WatchdogTick, WatchdogSkip, WatchdogRestore, world
  <1>p. \A id \in AttIds : att[id] # None => att[id].port \in Ports
    BY DEF Typed, Changing, Table, Record
  <1>3. ASSUME NEW t, NEW s, NEW b, NEW n, NEW id \in AttIds,
               PushMatched(t, id, s, b) \/ PushRelocated(t, id, s, b, n)
        PROVE  Present(export, export')
    <2>1. ASSUME NEW o \in DetachResults(vhci, export, att[id].port), PushMatched(t, id, s, b)
          PROVE  o[2] \in Exports /\ Present(export, o[2])
      BY <1>t, <1>p, <2>1, DetachTyped, DetachPresent DEF PushMatched, Matches
    <2> QED
      BY <1>t, <1>3, <2>1, RestorePresent DEF PushMatched, PushRelocated
  <1>4. CASE PushStep
    BY <1>3, <1>4 DEF PushStep, Push
  <1>5. ASSUME NEW id \in AttIds, Detach(id) PROVE Present(export, export')
    BY <1>p, <1>5, DetachPresent DEF Detach
  <1>6. CASE UserStep
    BY <1>1, <1>5, <1>6 DEF UserStep, DirectAttach, AttachGroup, UpdateAttachment, AddServer,
                DeleteServer, SaveGroup, DeleteGroup, world
  <1> QED
    BY <1>2, <1>4, <1>6

LEMMA SeverPresent ==
    ASSUME NEW d, NEW state \in {"unshared", "idle", "foreign"}, export \in Exports, Sever(d, state)
    PROVE  Present(export, export')
  BY DEF Sever, Present, Exports

LEMMA TasksPresent ==
    ASSUME Typed, NEW t \in Tasks, TaskStep(t)
    PROVE  Present(export, export')
  <1>t. export \in Exports /\ vhci \in Vhci
    BY DEF Typed, Changing
  <1>1. ASSUME UNCHANGED export PROVE Present(export, export')
    BY <1>1 DEF Present
  <1>2. CASE Serve(t)
    <2>1. ASSUME NEW d, export' = [export EXCEPT ![d] = "idle"] PROVE Present(export, export')
      BY <1>t, <2>1 DEF Present, Exports
    <2> QED
      BY <1>t, <1>1, <1>2, <2>1, SeverPresent
         DEF Serve, ServeCandidate, ServeFind, ServeLookup, ServeShare, ServeRebind
  <1>3. CASE TryCandidate(t)
    BY <1>t, <1>1, <1>3, AttachPresent, ErrorsPresent DEF TryCandidate
  <1>4. CASE TryRelocated(t)
    BY <1>t, <1>1, <1>4, ReattachedPresent, ErrorsPresent DEF TryRelocated
  <1>5. ASSUME NEW d, NEW flags, NEW serial, DirectTail(t, d, flags, serial)
        PROVE  Present(export, export')
    BY <1>t, <1>1, <1>5, AttachPresent, ErrorsPresent DEF DirectTail
  <1>6. CASE LookupAnswered(t) \/ ShareAnswered(t) \/ RebindAnswered(t)
    BY <1>1, <1>5, <1>6 DEF LookupAnswered, ShareAnswered, RebindAnswered, world
  <1> QED
    BY <1>2, <1>3, <1>4, <1>6 DEF TaskStep, Resume

(* A device that turns up under another busid leaves the old one.          *)
LEMMA RenumberLone ==
    ASSUME export \in Exports, NEW s \in Servers, NEW b \in Busids, NEW c \in Busids,
           Renumber(s, b, c), LoneDevices'
    PROVE  LoneDevices
  <1> DEFINE d == <<s, b>>
             e == <<s, c>>
  <1>1. d \in Devices /\ e \in Devices /\ d # e
    BY DEF Devices, Renumber
  <1>2. /\ export[e] = "absent" /\ export'[e] = "unshared"
        /\ \A k \in Devices \ {d, e} : export'[k] = export[k]
    BY <1>1 DEF Renumber, Exports
  <1> SUFFICES ASSUME NEW u \in Servers, NEW i \in Busids, NEW j \in Busids,
                      export[<<u, i>>] # "absent", export[<<u, j>>] # "absent"
               PROVE  i = j
    BY DEF LoneDevices
  <1>3. <<u, i>> \in Devices \ {e} /\ <<u, j>> \in Devices \ {e}
    BY <1>2 DEF Devices
  <1>4. \A g, h \in Busids : export'[<<u, g>>] # "absent" /\ export'[<<u, h>>] # "absent" => g = h
    BY DEF LoneDevices
  <1>5. CASE <<u, i>> # d /\ <<u, j>> # d
    BY <1>2, <1>3, <1>4, <1>5
  <1>6. CASE u = s
    <2>1. ASSUME NEW k \in Busids, export[<<s, k>>] # "absent" PROVE k = b
      <3>1. export'[<<s, k>>] # "absent" => k = c
        BY <1>2, <1>4, <1>6
      <3>2. k # c
        BY <1>2, <2>1
      <3>3. <<s, k>> \in Devices
        BY DEF Devices
      <3> QED
        BY <1>2, <2>1, <3>1, <3>2, <3>3
    <2> QED
      BY <1>6, <2>1
  <1> QED
    BY <1>5, <1>6

LEMMA LoneBefore ==
    ASSUME Typed, [Next]_vars, LoneDevices'
    PROVE  LoneDevices
  <1>t. export \in Exports
    BY DEF Typed, Changing
  <1>1. ASSUME Present(export, export') PROVE LoneDevices
    BY <1>1 DEF Present, LoneDevices, Devices
  <1>2. ASSUME UNCHANGED export PROVE LoneDevices
    BY <1>1, <1>2 DEF Present
  <1>3. CASE WorldStep
    <2>1. ASSUME NEW d \in Devices, Drop(d) \/ Unbind(d) PROVE LoneDevices
      BY <1>t, <1>1, <2>1, SeverPresent DEF Drop, Unbind
    <2>2. ASSUME NEW d \in Devices, Grab(d) \/ Release(d) \/ Bind(d) PROVE Present(export, export')
      BY <1>t, <2>2 DEF Grab, Release, Bind, Present, Exports
    <2> QED
      BY <1>t, <1>1, <1>2, <1>3, <2>1, <2>2, RenumberLone DEF WorldStep, Reap, Outage, Heal
  <1>4. CASE HostReboot
    BY <1>1, <1>4 DEF HostReboot, Present
  <1>5. CASE GraceEnd \/ ClientRestart \/ UNCHANGED vars
    BY <1>2, <1>5 DEF GraceEnd, ClientRestart, vars, world
  <1> QED
    BY <1>1, <1>3, <1>4, <1>5, HandlersPresent, TasksPresent DEF Next

LEMMA CalmBefore ==
    ASSUME NEW m \in BOOLEAN, Typed, [Next]_vars, Calm(m)'
    PROVE  Calm(m)
  <1>1. Events' = Events
    BY EnvironmentStays DEF Events
  <1>2. CASE m
    <2>1. "renumber" \notin Events
      BY <1>1, <1>2 DEF Calm, DevicesStay
    <2>2. serialAt' = serialAt
      BY <2>1, SerialsStay
    <2> QED
      BY <1>1, <1>2, <2>2 DEF Calm, Quick, DevicesStay
  <1>3. CASE ~m
    <2>1. Quick /\ LoneDevices'
      BY <1>1, <1>3 DEF Calm, Quick
    <2> QED
      BY <1>3, <2>1, LoneBefore DEF Calm
  <1> QED
    BY <1>2, <1>3

LEMMA InitTidy ==
    ASSUME NEW m \in BOOLEAN, Init
    PROVE  Tidy(m)
  <1>1. \A i \in AttIds, r \in Record : ~Copy(i, r)
    BY NoRecordAssumption DEF Init, Copy, Elsewhere, HeldAs, NoSnap, Idle
  <1>2. \A d \in Devices : export[d] \notin Ports
    <2>1. Environments[env] \in Environment
      BY EnvironmentsAssumption DEF Init
    <2> QED
      BY <2>1, PortsAssumption DEF Init, Environment
  <1>3. AllInformed
    BY DEF Init, AllInformed, Informed, Idle
  <1> QED
    BY <1>1, <1>2, <1>3 DEF Tidy, Held, Single, AllOnRecord, OneOwner, Told, Serialled

(* However many handlers, watchdog ticks and pushes work on the table side *)
(* by side, and whichever sessions they cut, no device stays attached to   *)
(* this host without a record of it: not if devices stay where they are,   *)
(* and not if the lone device of each server moves; unless usbip is slow   *)
(* or fails, or the user edits a record (groups.py:379-390, 424-444).      *)
THEOREM SessionsRecorded == Spec => []SessionsAreOnRecord
  <1> DEFINE Inv == Kept /\ \A m \in BOOLEAN : Calm(m) => Tidy(m)
  <1>1. Init => Inv
    BY InitKept, InitTidy
  <1>2. Inv /\ [Next]_vars => Inv'
    <2> SUFFICES ASSUME Inv, [Next]_vars PROVE Inv'
      OBVIOUS
    <2>1. Kept' /\ Typed /\ Typed'
      BY KeptStep DEF Kept
    <2>2. ASSUME NEW m \in BOOLEAN, Calm(m)' PROVE Tidy(m)'
      <3>1. Firm(m)
        BY <2>1, <2>2, CalmBefore DEF Firm
      <3> QED
        BY <2>1, <3>1, NextTidy
    <2> QED
      BY <2>1, <2>2
  <1>3. Inv => SessionsAreOnRecord
    <2> SUFFICES ASSUME Inv, Quick, DevicesStay \/ LoneDevices, NEW d \in Devices, export[d] \in Ports
                 PROVE  \E id \in AttIds : Connected(id, d)
      BY DEF SessionsAreOnRecord, Quick
    <2>1. PICK m \in BOOLEAN : Calm(m)
      <3>1. DevicesStay => Calm(TRUE)
        BY DEF Calm
      <3>2. LoneDevices => Calm(FALSE)
        BY DEF Calm
      <3> QED
        BY <3>1, <3>2
    <2> QED
      BY <2>1 DEF Tidy, Held, AllOnRecord, Backing, Connected, OnRecord
  <1> QED
    BY <1>1, <1>2, <1>3, PTL DEF Spec
=============================================================================

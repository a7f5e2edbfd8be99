------------------------- MODULE ServerShares_proofs -------------------------
(***************************************************************************)
(* Proofs about ServerShares: typing, what gets bound, and what leaves the *)
(* list of shares, for every number of busids, devices, clients and        *)
(* requests.                                                               *)
(***************************************************************************)
EXTENDS ServerShares, TLAPS

(* The two halves of TypeOK: the frames, and everything else.              *)
Frames ==
    /\ DOMAIN frame = Tasks
    /\ frame[Watchdog] \in PassFrame \cup {Idle}
    /\ \A t \in Requests : frame[t] \in RequestFrame \cup {Idle}

Data ==
    /\ plug \in [Busids -> Devs \cup {None}]
    /\ bound \subseteq Plugged
    /\ shared \subseteq Busids
    /\ known \in Known
    /\ clients \subseteq Clients
    /\ up \in BOOLEAN
    /\ restarts \in 0 .. MaxRestarts
    /\ owed \subseteq bound \X Clients

(* A pass visits only what it took for the list.                           *)
TodoListed == frame[Watchdog] # Idle => frame[Watchdog].todo \subseteq frame[Watchdog].list

Inv == Data /\ Frames /\ TodoListed

-----------------------------------------------------------------------------
(* The operators the actions are built from.                               *)

LEMMA SerialTyped ==
    ASSUME Data, NEW b \in Busids
    PROVE  SerialAt(b) \in Serials \cup {None}
  BY SerialsAssumption DEF SerialAt, Data

(* A round that is owed for b belongs to b and goes to registered clients. *)
LEMMA OweTyped ==
    ASSUME Data, NEW b \in Busids
    PROVE  /\ OwePushes(owed, b) \subseteq (bound \cup {b}) \X Clients
           /\ Forgiven(owed, b) \subseteq (bound \ {b}) \X Clients
  BY DEF OwePushes, Forgiven, Data

LEMMA AnswerTyped ==
    ASSUME Data, Frames, NEW t \in Requests, NEW b \in Busids, AnswerAfterPushes(t, b)
    PROVE  Frames' /\ frame'[Watchdog] = frame[Watchdog]
  <1>1. [pc |-> "push", busid |-> b, rest |-> clients] \in RequestFrame
    BY DEF RequestFrame, Data
  <1>2. frame' = [frame EXCEPT ![t] = frame'[t]] /\ frame'[t] \in RequestFrame \cup {Idle}
    BY <1>1 DEF AnswerAfterPushes, Frames, Tasks
  <1> QED
    BY <1>2, TasksAssumption DEF Frames, Tasks

LEMMA RefreshedTyped ==
    ASSUME Data, NEW f \in PassFrame
    PROVE  Refreshed(f) \in Known
  BY SerialTyped DEF Refreshed, Known, PassFrame

(* A step that leaves the frames alone, or ends them all.                  *)
LEMMA SameFrames ==
    ASSUME Frames, TodoListed, UNCHANGED frame
    PROVE  Frames' /\ TodoListed'
  BY DEF Frames, TodoListed

LEMMA NoFrames ==
    ASSUME frame' = [t \in Tasks |-> Idle]
    PROVE  Frames' /\ TodoListed'
  BY DEF Frames, TodoListed, Tasks

(* A step of the pass only, to a well-formed frame.                        *)
LEMMA PassFrames ==
    ASSUME Frames, NEW f, f \in PassFrame \cup {Idle}, f # Idle => f.todo \subseteq f.list,
           frame' = [frame EXCEPT ![Watchdog] = f]
    PROVE  Frames' /\ TodoListed'
  BY TasksAssumption DEF Frames, TodoListed, Tasks

-----------------------------------------------------------------------------
(* Requests.                                                               *)

LEMMA ShareStep ==
    ASSUME Inv, NEW t \in Requests, NEW b \in Busids, Share(t, b)
    PROVE  Inv'
  <1>1. Data'
    BY SerialTyped, OweTyped DEF Inv, Share, Data, Plugged, Known
  <1>2. Frames' /\ TodoListed'
    BY AnswerTyped DEF Inv, Share, TodoListed
  <1> QED
    BY <1>1, <1>2 DEF Inv

LEMMA UnshareStep ==
    ASSUME Inv, NEW b \in Busids, Unshare(b)
    PROVE  Inv'
  <1>1. Data'
    BY OweTyped DEF Inv, Unshare, Data, Plugged
  <1> QED
    BY <1>1, SameFrames DEF Inv, Unshare

LEMMA RebindStep ==
    ASSUME Inv, NEW t \in Requests, NEW b \in Busids, Rebind(t, b)
    PROVE  Inv'
  <1>1. Data'
    BY OweTyped DEF Inv, Rebind, Data, Plugged, store
  <1>2. CASE AnswerAfterPushes(t, b)
    BY <1>1, <1>2, AnswerTyped DEF Inv, TodoListed
  <1>3. CASE UNCHANGED frame
    BY <1>1, <1>3, SameFrames DEF Inv
  <1> QED
    BY <1>2, <1>3 DEF Rebind

LEMMA ClientStep ==
    ASSUME Inv, NEW c \in Clients, AddClient(c) \/ DeleteClient(c)
    PROVE  Inv'
  <1>1. Data'
    BY DEF Inv, AddClient, DeleteClient, Data, Plugged
  <1>2. UNCHANGED frame
    BY DEF AddClient, DeleteClient
  <1> QED
    BY <1>1, <1>2, SameFrames DEF Inv

-----------------------------------------------------------------------------
(* The pass.                                                               *)

LEMMA ToVisitListed ==
    ASSUME NEW list
    PROVE  ToVisit(list) \subseteq list
  BY DEF ToVisit

LEMMA BeginPassStep ==
    ASSUME Inv, BeginPass
    PROVE  Inv'
  <1>1. PICK at \in BySerial :
          LET list == (shared \ Relocated(at)) \cup {at[known[b]] : b \in Relocated(at)}
          IN  /\ shared' = list
              /\ frame' = [frame EXCEPT ![Watchdog] =
                   [pc |-> "scan", list |-> list, known |-> known,
                    todo |-> ToVisit(list), busid |-> None, rest |-> {}]]
    BY DEF BeginPass
  <1> DEFINE list == (shared \ Relocated(at)) \cup {at[known[b]] : b \in Relocated(at)}
             f == [pc |-> "scan", list |-> list, known |-> known,
                   todo |-> ToVisit(list), busid |-> None, rest |-> {}]
  <1>2. list \subseteq Busids
    BY DEF Inv, Data, BySerial, Relocated, Plugged
  <1>3. f \in PassFrame /\ f.todo \subseteq f.list
    BY <1>2, ToVisitListed DEF PassFrame, Inv, Data
  <1>4. Data'
    BY <1>1, <1>2 DEF Inv, Data, BeginPass, Plugged
  <1>5. Frames' /\ TodoListed'
    <2>1. frame' = [frame EXCEPT ![Watchdog] = f]
      BY <1>1
    <2> HIDE DEF f
    <2> QED
      BY <1>3, <2>1, PassFrames DEF Inv
  <1> QED
    BY <1>4, <1>5 DEF Inv

LEMMA VisitStep ==
    ASSUME Inv, NEW b \in Busids, Visit(b)
    PROVE  Inv'
  <1> DEFINE w == frame[Watchdog]
             f == [w EXCEPT !.todo = @ \ {b}]
             g == [f EXCEPT !.pc = "push", !.busid = b, !.rest = clients]
  <1>1. w \in PassFrame /\ w.todo \subseteq w.list
    BY DEF Inv, Frames, Visit, Idle, TodoListed
  <1>2. f \in PassFrame /\ f.todo \subseteq f.list
    BY <1>1 DEF PassFrame
  <1>3. g \in PassFrame /\ g.todo \subseteq g.list
    BY <1>1 DEF PassFrame, Inv, Data
  <1>4. Data'
    BY OweTyped DEF Inv, Data, Visit, Plugged, store
  <1>5. frame' = [frame EXCEPT ![Watchdog] = f] \/ frame' = [frame EXCEPT ![Watchdog] = g]
    BY DEF Visit
  <1>6. Frames' /\ TodoListed'
    <2> HIDE DEF f, g
    <2> QED
      BY <1>2, <1>3, <1>5, PassFrames DEF Inv
  <1> QED
    BY <1>4, <1>6 DEF Inv

LEMMA FinishPassStep ==
    ASSUME Inv, FinishPass
    PROVE  Inv'
  <1>1. frame[Watchdog] \in PassFrame
    BY DEF Inv, Frames, FinishPass, Idle
  <1>2. Data'
    BY <1>1, RefreshedTyped DEF Inv, Data, FinishPass, Plugged
  <1> QED
    BY <1>2, PassFrames DEF Inv, FinishPass

LEMMA NothingSharedStep ==
    ASSUME Inv, NothingShared
    PROVE  Inv'
  BY SameFrames DEF Inv, Data, NothingShared, Plugged, store

LEMMA PushToStep ==
    ASSUME Inv, NEW t \in Tasks, NEW c \in Clients, PushTo(t, c)
    PROVE  Inv'
  <1>1. Data'
    BY DEF Inv, Data, PushTo, Plugged, store
  <1>2. CASE t = Watchdog
    <2> DEFINE w == frame[Watchdog]
               f == [w EXCEPT !.rest = @ \ {c}]
               g == [w EXCEPT !.pc = "scan", !.busid = None, !.rest = {}]
    <2>1. w \in PassFrame /\ w.todo \subseteq w.list
      BY <1>2 DEF Inv, Frames, PushTo, Idle, TodoListed
    <2>2. f \in PassFrame /\ f.todo \subseteq f.list /\ g \in PassFrame /\ g.todo \subseteq g.list
      BY <2>1 DEF PassFrame
    <2>3. frame' = [frame EXCEPT ![Watchdog] = f] \/ frame' = [frame EXCEPT ![Watchdog] = g]
      BY <1>2, <2>1 DEF PushTo, PassFrame
    <2>4. Frames' /\ TodoListed'
      <3> HIDE DEF f, g
      <3> QED
        BY <2>2, <2>3, PassFrames DEF Inv
    <2> QED
      BY <1>1, <2>4 DEF Inv
  <1>3. CASE t \in Requests
    <2> DEFINE f == [frame[t] EXCEPT !.rest = @ \ {c}]
    <2>1. frame[t] \in RequestFrame
      BY <1>3 DEF Inv, Frames, PushTo, Idle
    <2>2. f \in RequestFrame
      BY <2>1 DEF RequestFrame
    <2>3. frame' = [frame EXCEPT ![t] = f] \/ frame' = [frame EXCEPT ![t] = Idle]
      BY <1>3, <2>1, TasksAssumption DEF PushTo, RequestFrame
    <2>4. Frames' /\ TodoListed'
      <3> HIDE DEF f
      <3> QED
        BY <1>3, <2>2, <2>3, TasksAssumption DEF Inv, Frames, TodoListed, Tasks
    <2> QED
      BY <1>1, <2>4 DEF Inv
  <1> QED
    BY <1>2, <1>3 DEF Tasks

-----------------------------------------------------------------------------
(* The world.                                                              *)

LEMMA WorldStepStep ==
    ASSUME Inv, WorldStep
    PROVE  Inv'
  <1>1. ASSUME NEW from \in Busids, NEW to \in Busids, Renumber(from, to)
        PROVE  Data' /\ UNCHANGED frame
    <2>1. plug' \in [Busids -> Devs \cup {None}]
      BY <1>1, SerialsAssumption DEF Renumber, Inv, Data
    <2>2. bound' \subseteq Plugged'
      BY <1>1 DEF Renumber, Inv, Data, Plugged
    <2> QED
      BY <1>1, <2>1, <2>2, OweTyped DEF Renumber, Inv, Data, store
  <1>2. ASSUME NEW b \in Busids, Reset(b)
        PROVE  Data' /\ UNCHANGED frame
    BY <1>2, OweTyped DEF Reset, Inv, Data, Plugged, store
  <1> QED
    BY <1>1, <1>2, SameFrames DEF WorldStep, Inv

LEMMA RestartStep ==
    ASSUME Inv, Restart \/ HostReboot
    PROVE  Inv'
  <1>1. CASE Restart
    <2>1. restarts' \in 0 .. MaxRestarts
      BY <1>1, RestartsAssumption DEF Restart, Inv, Data
    <2>2. bound' \subseteq Plugged /\ owed' \subseteq bound' \X Clients
      BY <1>1, OweTyped DEF Restart, Inv, Data, Plugged
    <2> QED
      BY <1>1, <2>1, <2>2, NoFrames DEF Restart, Inv, Data, Plugged, store
  <1>2. CASE HostReboot
    <2>1. restarts' \in 0 .. MaxRestarts
      BY <1>2, RestartsAssumption DEF HostReboot, Inv, Data
    <2> QED
      BY <1>2, <2>1, NoFrames DEF HostReboot, Inv, Data, Plugged, store
  <1> QED
    BY <1>1, <1>2

-----------------------------------------------------------------------------
(* The theorems.                                                           *)

LEMMA InitInv == Init => Inv
  <1> SUFFICES ASSUME Init PROVE Inv
    OBVIOUS
  <1>1. 0 \in 0 .. MaxRestarts
    BY RestartsAssumption
  <1>2. Data
    BY <1>1, SerialsAssumption DEF Init, Data, Plugged, Known
  <1>3. Frames /\ TodoListed
    BY DEF Init, Frames, TodoListed, Tasks
  <1> QED
    BY <1>2, <1>3 DEF Inv

LEMMA NextInv == Inv /\ [Next]_vars => Inv'
  <1> SUFFICES ASSUME Inv, [Next]_vars PROVE Inv'
    OBVIOUS
  <1>1. CASE Pass
    BY <1>1, BeginPassStep, NothingSharedStep, VisitStep, FinishPassStep DEF Pass
  <1>2. CASE RequestStep
    BY <1>2, ShareStep, RebindStep, UnshareStep, ClientStep DEF RequestStep
  <1>3. CASE \E t \in Tasks : PushStep(t)
    BY <1>3, PushToStep DEF PushStep
  <1>4. CASE WorldStep
    BY <1>4, WorldStepStep
  <1>5. CASE Restart \/ HostReboot
    BY <1>5, RestartStep
  <1>6. CASE UNCHANGED vars
    BY <1>6, SameFrames DEF vars, Inv, Data, Plugged
  <1> QED
    BY <1>1, <1>2, <1>3, <1>4, <1>5, <1>6 DEF Next

(* The state is well typed; in particular a push is owed only for a device *)
(* that is bound, whatever handlers and passes run side by side.           *)
THEOREM SharesTyping == Spec => []TypeOK
  <1>1. Inv => TypeOK
    BY DEF Inv, Data, Frames, TypeOK, Plugged
  <1> QED
    BY InitInv, NextInv, <1>1, PTL DEF Spec

(* Nobody but a request of its own has a device bound that is not shared.  *)
THEOREM OnlySharedBound == Spec => OnlySharedAreBound
  <1>1. Inv /\ [Next]_vars =>
          [\A b \in bound' \ bound :
             b \in shared' \/ (frame[Watchdog] # Idle /\ b \in frame[Watchdog].list)
               \/ (up /\ ~up')]_vars
    <2> SUFFICES ASSUME Inv, Next, NEW b \in bound' \ bound
                 PROVE  \/ b \in shared'
                        \/ frame[Watchdog] # Idle /\ b \in frame[Watchdog].list
                        \/ up /\ ~up'
      OBVIOUS
    <2>1. CASE Pass
      <3>1. PICK i \in Busids : Visit(i)
        BY <2>1 DEF Pass, BeginPass, NothingShared, FinishPass
      <3>2. b = i
        BY <3>1 DEF Visit
      <3> QED
        BY <3>1, <3>2 DEF Visit, Inv, TodoListed, Idle
    <2>2. CASE RequestStep
      BY <2>2 DEF RequestStep, Share, Rebind, Unshare, AddClient, DeleteClient
    <2>3. CASE \E t \in Tasks : PushStep(t)
      BY <2>3 DEF PushStep, PushTo
    <2>4. CASE WorldStep
      BY <2>4 DEF WorldStep, Renumber, Reset
    <2>5. CASE Restart \/ HostReboot
      BY <2>5 DEF Restart, HostReboot
    <2> QED
      BY <2>1, <2>2, <2>3, <2>4, <2>5 DEF Next
  <1> QED
    BY InitInv, NextInv, <1>1, PTL DEF Spec, OnlySharedAreBound

(* Busids leave the list by the admin's hand, or make way for one busid    *)
(* for each serial that was last seen at them: shares of different serials *)
(* never become one, and none is moved onto a busid that had its own.      *)
THEOREM SharesFollow == Spec => SharesFollowSerials
  <1>1. Inv /\ [Next]_vars =>
          [LET left == shared \ shared'
               new  == shared' \ shared
           IN  left # {} =>
                  \/ \E b \in left : left = {b} /\ Unshare(b)
                  \/ /\ {SerialAt(n) : n \in new} = {known[b] : b \in left}
                     /\ \A b \in left : known[b] # None
                     /\ \A n, o \in new : SerialAt(n) = SerialAt(o) => n = o]_vars
    <2> DEFINE left == shared \ shared'
               new  == shared' \ shared
    <2> SUFFICES ASSUME Inv, Next, left # {}
                 PROVE  \/ \E b \in left : left = {b} /\ Unshare(b)
                        \/ /\ {SerialAt(n) : n \in new} = {known[b] : b \in left}
                           /\ \A b \in left : known[b] # None
                           /\ \A n, o \in new : SerialAt(n) = SerialAt(o) => n = o
      OBVIOUS
    <2>1. CASE BeginPass
      <3>1. PICK at \in BySerial :
              shared' = (shared \ Relocated(at)) \cup {at[known[b]] : b \in Relocated(at)}
        BY <2>1 DEF BeginPass
      <3>2. \A b \in Relocated(at) :
              /\ b \in shared /\ b \notin Plugged /\ known[b] # None
              /\ at[known[b]] \in Plugged \ shared /\ SerialAt(at[known[b]]) = known[b]
        BY DEF BySerial, Relocated
      <3>3. left = Relocated(at) /\ new = {at[known[b]] : b \in Relocated(at)}
        BY <3>1, <3>2
      <3> HIDE DEF left, new
      <3> QED
        BY <3>2, <3>3
    <2>2. CASE NothingShared \/ (\E i \in Busids : Visit(i)) \/ FinishPass
      BY <2>2 DEF NothingShared, Visit, FinishPass, store
    <2>3. CASE RequestStep
      BY <2>3 DEF RequestStep, Share, Rebind, Unshare, AddClient, DeleteClient, store
    <2>4. CASE \E t \in Tasks : PushStep(t)
      BY <2>4 DEF PushStep, PushTo, store
    <2>5. CASE WorldStep
      BY <2>5 DEF WorldStep, Renumber, Reset, store
    <2>6. CASE Restart \/ HostReboot
      BY <2>6 DEF Restart, HostReboot, store
    <2> QED
      BY <2>1, <2>2, <2>3, <2>4, <2>5, <2>6 DEF Next, Pass
  <1> QED
    BY InitInv, NextInv, <1>1, PTL DEF Spec, SharesFollowSerials
=============================================================================

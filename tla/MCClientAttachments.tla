------------------------ MODULE MCClientAttachments ------------------------
(* Constants and environments of the model-checking runs of                *)
(* ClientAttachments.                                                      *)
EXTENDS ClientAttachments, TLC

CONSTANTS s1, s2, b1, b2, k1, i1, i2, p1, l1, l2

RootHub == [p \in Ports |-> IF p = p1 THEN l1 ELSE l2]

NoCandidates  == {}
PrimaryBackup == {<< <<s1, b1>>, <<s2, b1>> >>}
FirstThenSecond == {<<i1, i2>>}

AnyFlags == [auto_failover : BOOLEAN, auto_rebind_on_backoff : BOOLEAN]
Kept     == {f \in AnyFlags : f.auto_failover /\ f.auto_rebind_on_backoff}
KeptOrNot == {f \in AnyFlags : f.auto_failover = f.auto_rebind_on_backoff}

(* A port is exchanged together with its busid.                            *)
PortSymmetry ==
    {f @@ [l \in LocalBusids |-> BusidOf[f[CHOOSE p \in Ports : BusidOf[p] = l]]] : f \in Permutations(Ports)}
Symmetry == Permutations({i1, i2}) \cup PortSymmetry

-----------------------------------------------------------------------------
(* Servers registered from the start, or once the user adds them.          *)
Known(S) == [s \in Servers |-> IF s \in S THEN "registered" ELSE "deleted"]
New(S)   == [s \in Servers |-> IF s \in S THEN "new" ELSE "deleted"]

(* The devices that are there, in the same state; the one at b1 of s1 may  *)
(* have a serial.                                                          *)
Plugged(D, state) == [d \in Devices |-> IF d \in D THEN state ELSE "absent"]
Serial            == [d \in Devices |-> IF d = <<s1, b1>> THEN k1 ELSE None]
NoSerial          == [d \in Devices |-> None]

(* Direct attachments of the two devices of one server, kept by the        *)
(* watchdog and the server's pushes.                                       *)
Direct == [servers |-> New({s1}), exports |-> Plugged({s1} \X Busids, "idle"),
           serials |-> Serial, flags |-> Kept, ids |-> {i1, i2},
           events |-> {"drop", "push", "detach", "servers", "zombie"}]

(* A group of two servers, and other clients that want its devices.        *)
Grouped == [servers |-> Known({s1, s2}), exports |-> Plugged(Servers \X {b1}, "idle"),
            serials |-> NoSerial, flags |-> {}, ids |-> AttIds,
            events |-> {"drop", "push", "detach", "others"}]

(* One device, whose flags the user changes.                               *)
Edited == [servers |-> Known({s1}), exports |-> Plugged({<<s1, b1>>}, "idle"),
           serials |-> Serial, flags |-> KeptOrNot, ids |-> {i1, i2},
           events |-> {"drop", "push", "detach", "edit"}]

(* One device, and usbip commands that fail or answer late.                *)
Failing == [servers |-> Known({s1}), exports |-> Plugged({<<s1, b1>>}, "idle"),
            serials |-> NoSerial, flags |-> Kept, ids |-> {i1, i2},
            events |-> {"drop", "push", "detach", "detachfails", "lag"}]

(* One device that moves, and pushes that speak of it late.                *)
Moving == [servers |-> Known({s1}), exports |-> Plugged({<<s1, b1>>}, "idle"),
           serials |-> Serial, flags |-> KeptOrNot, ids |-> {i1},
           events |-> {"drop", "push", "detach", "renumber", "admin", "late"}]

Everyday == [direct |-> Direct, grouped |-> Grouped, edited |-> Edited, failing |-> Failing,
             moving |-> Moving]

(* One attachment and everything that can happen to it, to its server and  *)
(* to this host; its device is not shared yet.                             *)
Hard == [servers |-> Known({s1}), exports |-> Plugged({<<s1, b1>>}, "unshared"),
         serials |-> Serial, flags |-> Kept, ids |-> {i1},
         events |-> {"drop", "stale", "push", "renumber", "admin", "reboot", "restart", "outage",
                     "lost", "bindfails", "late"}]
HardTimes == [hard |-> Hard]

(* Groups alone, with and without the servers' pushes.                     *)
Quiet  == [Grouped EXCEPT !.ids = {i1, i2}, !.events = {"drop"}]
Pushed == [Grouped EXCEPT !.events = {"drop", "push"}]
QuietGroups  == [quiet |-> Quiet]
PushedGroups == [pushed |-> Pushed]

(* Direct attachments of devices of two servers, and their pushes.         *)
TwoServers == [two |-> [Quiet EXCEPT !.flags = Kept]]
TwoPushing == [two |-> [Quiet EXCEPT !.flags = Kept, !.events = {"drop", "push"}]]
============================================================================

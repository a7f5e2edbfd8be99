----------------------------- MODULE ConfigStore -----------------------------
(***************************************************************************)
(* The JSON file in which both programs keep their state                   *)
(* (common/config_store.py).  read and update hold a lock; update loads    *)
(* the file, lets the caller change the dictionary and writes it to a      *)
(* temporary file that it renames over the old one.  The process may be    *)
(* killed between any two of these steps, the disk may be full at each,    *)
(* and after a power cut the file is one that was flushed, or written      *)
(* since, or unreadable: there is no fsync before the rename.              *)
(*                                                                         *)
(* Each program calls it from one event loop, without an await in a call,  *)
(* so that its calls never meet; the model has callers that do meet, as    *)
(* the lock allows.  DurableConfig says what callers may rely on, and      *)
(* Durable that this implements it.                                        *)
(***************************************************************************)
CONSTANTS
    Callers,        \* threads that call the store
    Fields,         \* top-level keys of the dictionary
    Values,
    Defaults,       \* what _defaults() may return: each call draws a new secret
    Updates,        \* what mutate may do: [field : Fields, value : Values]
    Read, Raising,  \* a call of read, and an update whose mutate raises
    Missing,        \* no file
    Broken,         \* a file that does not parse: cut off, or empty
    None

Config == [Fields -> Values]

(* A file of an older version of the program lacks some of the keys.       *)
OldFiles == UNION {[F -> Values] : F \in SUBSET Fields}

Files == OldFiles \cup {Missing, Broken}

ASSUME DefaultsAssumption == Defaults \subseteq Config /\ Defaults # {}
ASSUME UpdatesAssumption == Updates \subseteq [field : Fields, value : Values]
ASSUME NamesAssumption ==
    /\ {Missing, Broken} \cap OldFiles = {}
    /\ Read # Raising /\ {Read, Raising} \cap Updates = {}
    /\ None \notin Callers \cup Updates \cup {Read, Raising} \cup Config \cup Files

VARIABLES
    file,           \* the file at path
    disk,           \* what a power cut may leave there
    temp,           \* the temporary file of each caller
    left,           \* there are temporary files of dead processes
    lock,           \* _lock: who holds it
    call,           \* what each caller has called
    pc,             \* how far the call is
    data,           \* update's local dictionary
    returned,       \* what a caller's last call gave back
    up              \* __init__ is over

vars == <<file, disk, temp, left, lock, call, pc, data, returned, up>>

-----------------------------------------------------------------------------

Idle == [t \in Callers |-> "idle"]
Nothing == [t \in Callers |-> None]

TypeOK ==
    /\ file \in Files
    /\ disk \subseteq Files
    /\ temp \in [Callers -> Files \cup {None}]
    /\ left \in BOOLEAN
    /\ lock \in Callers \cup {None}
    /\ call \in [Callers -> Updates \cup {Read, Raising, None}]
    /\ pc \in [Callers -> {"idle", "called", "locked", "mutated", "opened", "dumped",
                           "done", "raised"}]
    /\ data \in [Callers -> Config \cup {None}]
    /\ returned \in [Callers -> Config \cup {None}]
    /\ up \in BOOLEAN

(* The first start, or one with the file of an older version.              *)
Init ==
    /\ file \in OldFiles \cup {Missing}
    /\ disk = {file}
    /\ temp = Nothing
    /\ left = FALSE
    /\ lock = None
    /\ call = Nothing
    /\ pc = Idle
    /\ data = Nothing
    /\ returned = Nothing
    /\ up = FALSE

Empty == [k \in {} |-> None]

(* What a file says: one that is missing or cut off says nothing.          *)
Contents(f) == IF f \in {Missing, Broken} THEN Empty ELSE f

(* Mutant: the file as it is, without the keys that are new.               *)
MergedAsIs(f) == IF f \in {Missing, Broken} THEN Defaults ELSE {f}

(* _load: what is in the file over the defaults, drawn anew.               *)
Merged(f) ==
    {[k \in Fields |-> IF k \in DOMAIN Contents(f) THEN Contents(f)[k] ELSE d[k]] : d \in Defaults}

Goto(t, label) == pc' = [pc EXCEPT ![t] = label]

Call(t) ==
    /\ up /\ pc[t] = "idle"
    /\ \E op \in Updates \cup {Read, Raising} : call' = [call EXCEPT ![t] = op]
    /\ Goto(t, "called")
    /\ UNCHANGED <<file, disk, temp, left, lock, data, returned, up>>

Acquire(t) ==
    /\ pc[t] = "called" /\ lock = None
    /\ lock' = t
    /\ Goto(t, "locked")
    /\ UNCHANGED <<file, disk, temp, left, call, data, returned, up>>

(* _load, and mutate on what it has loaded.                                *)
Load(t) ==
    /\ pc[t] = "locked"
    /\ \E d \in Merged(file) :
         \/ /\ call[t] = Read
            /\ data' = [data EXCEPT ![t] = d]
            /\ Goto(t, "done")
         \/ /\ call[t] = Raising
            /\ data' = [data EXCEPT ![t] = d]
            /\ Goto(t, "raised")
         \/ /\ call[t] \in Updates
            /\ data' = [data EXCEPT ![t] = [d EXCEPT ![call[t].field] = call[t].value]]
            /\ Goto(t, "mutated")
    /\ UNCHANGED <<file, disk, temp, left, lock, call, returned, up>>

(* Mutant: the file itself is opened, and cut off, instead of another.     *)
MakeTempInPlace(t) ==
    /\ pc[t] = "mutated"
    /\ file' = Broken /\ disk' = disk \cup {Broken}
    /\ temp' = [temp EXCEPT ![t] = Broken] /\ Goto(t, "opened")
    /\ UNCHANGED <<left, lock, call, data, returned, up>>

(* _write: mkstemp, the dump and the rename; each may find the disk full.  *)
MakeTemp(t) ==
    /\ pc[t] = "mutated"
    /\ \/ temp' = [temp EXCEPT ![t] = Broken] /\ Goto(t, "opened")
       \/ Goto(t, "raised") /\ UNCHANGED temp
    /\ UNCHANGED <<file, disk, left, lock, call, data, returned, up>>

(* Mutant: the temporary file stays.                                       *)
UnlinkedNot(t) == UNCHANGED temp

(* The temporary file goes before the exception does.                      *)
Unlinked(t) == temp' = [temp EXCEPT ![t] = None]

Dump(t) ==
    /\ pc[t] = "opened"
    /\ \/ temp' = [temp EXCEPT ![t] = data[t]] /\ Goto(t, "dumped")
       \/ Unlinked(t) /\ Goto(t, "raised")
    /\ UNCHANGED <<file, disk, left, lock, call, data, returned, up>>

Replace(t) ==
    /\ pc[t] = "dumped"
    /\ temp' = [temp EXCEPT ![t] = None]
    /\ file' = temp[t]
    /\ disk' = disk \cup {temp[t], Broken}
    /\ Goto(t, "done")
    /\ UNCHANGED <<left, lock, call, data, returned, up>>

NotReplaced(t) ==
    /\ pc[t] = "dumped"
    /\ Unlinked(t)
    /\ Goto(t, "raised")
    /\ UNCHANGED <<file, disk, left, lock, call, data, returned, up>>

(* Mutant: an exception leaves the lock locked.                            *)
ReleasedIfDone(t) == lock' = IF pc[t] = "done" THEN None ELSE lock

Released(t) == lock' = None

Return(t) ==
    /\ pc[t] \in {"done", "raised"}
    /\ Released(t)
    /\ returned' = IF pc[t] = "done" THEN [returned EXCEPT ![t] = data[t]] ELSE returned
    /\ call' = [call EXCEPT ![t] = None]
    /\ data' = [data EXCEPT ![t] = None]
    /\ Goto(t, "idle")
    /\ UNCHANGED <<file, disk, temp, left, up>>

Step(t) ==
    \/ Acquire(t) \/ Load(t) \/ MakeTemp(t) \/ Dump(t) \/ Replace(t) \/ NotReplaced(t)
    \/ Return(t)

-----------------------------------------------------------------------------

(* __init__: a file that does not exist is written.                        *)
Start ==
    /\ ~up
    /\ \/ /\ file = Missing
          /\ file' \in Defaults
          /\ disk' = disk \cup {file', Broken}
       \/ file # Missing /\ UNCHANGED <<file, disk>>
    /\ up' = TRUE
    /\ UNCHANGED <<temp, left, lock, call, pc, data, returned>>

Flush ==
    /\ disk # {file}
    /\ disk' = {file}
    /\ UNCHANGED <<file, temp, left, lock, call, pc, data, returned, up>>

(* A temporary file stays where the process dies; nobody removes it.      *)
HasTemp == \E t \in Callers : temp[t] # None

Stopped ==
    /\ temp' = Nothing /\ lock' = None
    /\ call' = Nothing /\ pc' = Idle
    /\ data' = Nothing /\ returned' = Nothing
    /\ up' = FALSE

(* It is killed, perhaps while __init__ writes the first file.             *)
Kill ==
    /\ up \/ file = Missing
    /\ left' = (left \/ HasTemp \/ ~up)
    /\ Stopped
    /\ UNCHANGED <<file, disk>>

PowerCut ==
    /\ left' \in {left, left \/ HasTemp}
    /\ Stopped
    /\ file' \in disk
    /\ disk' = {file'}

Next ==
    \/ \E t \in Callers : Call(t) \/ Step(t)
    \/ Start \/ Flush \/ Kill \/ PowerCut

Spec == Init /\ [][Next]_vars

(* The threads run, and nothing is assumed about who gets the lock.        *)
FairSpec == Spec /\ WF_vars(Start) /\ \A t \in Callers : WF_vars(Step(t))

-----------------------------------------------------------------------------
(* Properties.                                                             *)

(* A call has taken effect when the file is replaced, a read when it has   *)
(* been loaded; before that it is pending, and once it raises it has none. *)
Effective(t) == pc[t] \in {"done", "raised"}

Abstract == INSTANCE DurableConfig WITH
    config   <- Contents(file),
    durable  <- {Contents(f) : f \in disk},
    pending  <- [t \in Callers |-> IF Effective(t) THEN None ELSE call[t]],
    returned <- [t \in Callers |-> IF pc[t] = "done" THEN data[t] ELSE returned[t]]

(* Calls are atomic and durable: the store implements DurableConfig,       *)
(* whatever is killed in the middle, for all that a full disk, an old      *)
(* file and other callers may do (config_store.py:26-61).                  *)
Durable == Abstract!Spec

(* A call that is over, whether it wrote, raised or found the disk full,   *)
(* has left no temporary file behind (config_store.py:33-36); what a       *)
(* process that was killed has left stays.                                 *)
TempsAreGone == \A t \in Callers : pc[t] \in {"idle", "done", "raised"} => temp[t] = None

(* A caller that holds the lock gives it back, also when mutate raises or  *)
(* the disk is full (config_store.py:57).                                  *)
LockIsReleased == \A t \in Callers : lock = t ~> lock # t
=============================================================================

---------------------------- MODULE DurableConfig ----------------------------
(***************************************************************************)
(* What the rest of the program relies on when it calls config.store       *)
(* (common/config_store.py): a configuration that calls read and change,   *)
(* each at one moment between its beginning and its end or, when it raises *)
(* or the process dies, not at all; and that only a power cut may set      *)
(* back, for as long as the kernel has not flushed the last change.        *)
(***************************************************************************)
CONSTANTS
    Callers,
    Fields, Values,
    Defaults,       \* the dictionaries that _defaults() may make
    Updates,        \* the changes: [field : Fields, value : Values]
    Read, Raising,  \* a call of read, and an update whose mutate raises
    None

VARIABLES
    config,         \* what is stored: a call reads the defaults of other keys
    durable,        \* what a power cut may come back with
    pending,        \* the calls that have begun and taken no effect yet
    returned        \* what each caller's last call gave back

vars == <<config, durable, pending, returned>>

Partial == UNION {[F -> Values] : F \in SUBSET Fields}
Empty   == [k \in {} |-> None]

(* What a call may make of c: each draws its own defaults.                 *)
Whole(c) == {[k \in Fields |-> IF k \in DOMAIN c THEN c[k] ELSE d[k]] : d \in Defaults}

Changed(u, c) == [c EXCEPT ![u.field] = u.value]

Init ==
    /\ config \in Partial
    /\ durable = {config}
    /\ pending = [t \in Callers |-> None]
    /\ returned = [t \in Callers |-> None]

Begin(t) ==
    /\ pending[t] = None
    /\ \E op \in Updates \cup {Read, Raising} : pending' = [pending EXCEPT ![t] = op]
    /\ UNCHANGED <<config, durable, returned>>

DoRead(t) ==
    /\ pending[t] = Read
    /\ pending' = [pending EXCEPT ![t] = None]
    /\ \E c \in Whole(config) : returned' = [returned EXCEPT ![t] = c]
    /\ UNCHANGED <<config, durable>>

(* Until it is flushed a change may be lost, and with it everything.       *)
DoUpdate(t) ==
    /\ pending[t] \in Updates
    /\ \E c \in Whole(config) : config' = Changed(pending[t], c)
    /\ durable' = durable \cup {config', Empty}
    /\ pending' = [pending EXCEPT ![t] = None]
    /\ returned' = [returned EXCEPT ![t] = config']

(* mutate raises, or the disk is full.                                     *)
Fail(t) ==
    /\ pending[t] \in Updates \cup {Raising}
    /\ pending' = [pending EXCEPT ![t] = None]
    /\ UNCHANGED <<config, durable, returned>>

(* Before the first call, defaults are stored where nothing is.            *)
Create ==
    /\ config = Empty /\ pending = [t \in Callers |-> None]
    /\ config' \in Defaults
    /\ durable' = durable \cup {config', Empty}
    /\ UNCHANGED <<pending, returned>>

Flush ==
    /\ durable' = {config}
    /\ UNCHANGED <<config, pending, returned>>

Forgotten ==
    /\ pending' = [t \in Callers |-> None]
    /\ returned' = [t \in Callers |-> None]

Kill == Forgotten /\ UNCHANGED <<config, durable>>

PowerCut ==
    /\ Forgotten
    /\ config' \in durable
    /\ durable' = {config'}

Next ==
    \/ \E t \in Callers : Begin(t) \/ DoRead(t) \/ DoUpdate(t) \/ Fail(t)
    \/ Create \/ Flush \/ Kill \/ PowerCut

Spec == Init /\ [][Next]_vars
=============================================================================

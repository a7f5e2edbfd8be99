------------------------- MODULE ConfigStore_proofs -------------------------
(***************************************************************************)
(* Proofs about ConfigStore, for any number of callers, keys and values:   *)
(* it implements DurableConfig, and no temporary file outlives its call.   *)
(***************************************************************************)
EXTENDS ConfigStore, TLAPS

(* Whoever is past the lock holds it, and nobody calls before a start; a   *)
(* power cut may leave everything as it is.                                *)
LockHeld ==
    /\ \A t \in Callers : pc[t] \notin {"idle", "called"} => lock = t
    /\ ~up => pc = Idle
    /\ file \in disk

(* What a caller has called, loaded and written at each point.             *)
CallFits ==
    \A t \in Callers :
       /\ pc[t] = "idle" <=> call[t] = None
       /\ pc[t] \in {"mutated", "opened", "dumped"} =>
            /\ call[t] \in Updates
            /\ \E c \in Merged(file) : data[t] = [c EXCEPT ![call[t].field] = call[t].value]
       /\ pc[t] = "dumped" => temp[t] = data[t]
       /\ pc[t] = "done" => data[t] \in Config

Inv == TypeOK /\ LockHeld /\ CallFits

LEMMA ConfigIsFile ==
    /\ Config \subseteq OldFiles
    /\ \A c \in Config : c # Missing /\ c # Broken /\ c # None
  BY NamesAssumption DEF Config, OldFiles, Files

LEMMA ContentsTyped ==
    /\ \A f \in Files : Contents(f) \in OldFiles
    /\ \A c \in Config : Contents(c) = c
    /\ Contents(Missing) = Empty /\ Contents(Broken) = Empty
  <1>1. Empty \in [{} -> Values]
    BY DEF Empty
  <1>2. Empty \in OldFiles
    BY <1>1 DEF OldFiles
  <1> QED
    BY <1>2, ConfigIsFile DEF Contents, Files

LEMMA MergedTyped ==
    ASSUME NEW f \in Files
    PROVE  Merged(f) \subseteq Config
  <1>1. PICK F \in SUBSET Fields : Contents(f) \in [F -> Values]
    BY ContentsTyped DEF OldFiles
  <1> QED
    BY <1>1, DefaultsAssumption DEF Merged, Config

LEMMA ChangedTyped ==
    ASSUME NEW c \in Config, NEW u \in Updates
    PROVE  [c EXCEPT ![u.field] = u.value] \in Config
  BY UpdatesAssumption DEF Config

-----------------------------------------------------------------------------
(* The invariant.                                                          *)

LEMMA InitInv == Init => Inv
  BY DEF Init, Inv, TypeOK, LockHeld, CallFits, Files, Idle, Nothing

(* What is about to be written is a whole configuration.                   *)
LEMMA MutatedTyped ==
    ASSUME Inv, NEW t \in Callers, pc[t] \in {"mutated", "opened", "dumped"}
    PROVE  data[t] \in Config /\ data[t] \in Files
  <1>1. Merged(file) \subseteq Config
    BY MergedTyped DEF Inv, TypeOK
  <1>2. call[t] \in Updates
    BY DEF Inv, CallFits
  <1>3. PICK c \in Merged(file) : data[t] = [c EXCEPT ![call[t].field] = call[t].value]
    BY DEF Inv, CallFits
  <1> QED
    BY <1>1, <1>2, <1>3, ChangedTyped, ConfigIsFile DEF Files

LEMMA CallInv ==
    ASSUME Inv, NEW t \in Callers, Call(t)
    PROVE  Inv'
  <1>1. TypeOK'
    BY DEF Inv, TypeOK, Call, Goto
  <1>2. LockHeld'
    BY DEF Inv, TypeOK, LockHeld, Call, Goto
  <1>3. CallFits'
    BY NamesAssumption DEF Inv, TypeOK, CallFits, Call, Goto
  <1> QED
    BY <1>1, <1>2, <1>3 DEF Inv

LEMMA StepInv ==
    ASSUME Inv, NEW t \in Callers, Step(t)
    PROVE  Inv'
  <1>1. CASE Acquire(t)
    <2>1. TypeOK' /\ LockHeld'
      BY <1>1, NamesAssumption DEF Inv, TypeOK, LockHeld, Acquire, Goto, Idle
    <2>2. CallFits'
      BY <1>1 DEF Inv, TypeOK, CallFits, Acquire, Goto
    <2> QED
      BY <2>1, <2>2 DEF Inv
  <1>2. CASE Load(t)
    <2>1. PICK d \in Merged(file) :
             \/ /\ call[t] = Read
                /\ data' = [data EXCEPT ![t] = d]
                /\ Goto(t, "done")
             \/ /\ call[t] = Raising
                /\ data' = [data EXCEPT ![t] = d]
                /\ Goto(t, "raised")
             \/ /\ call[t] \in Updates
                /\ data' = [data EXCEPT ![t] = [d EXCEPT ![call[t].field] = call[t].value]]
                /\ Goto(t, "mutated")
      BY <1>2 DEF Load
    <2>2. d \in Config
      BY MergedTyped DEF Inv, TypeOK
    <2>3. call[t] \in Updates => [d EXCEPT ![call[t].field] = call[t].value] \in Config
      BY <2>2, ChangedTyped
    <2>4. TypeOK'
      BY <1>2, <2>1, <2>2, <2>3 DEF Inv, TypeOK, Load, Goto
    <2>5. LockHeld'
      BY <1>2, <2>1 DEF Inv, TypeOK, LockHeld, Load, Goto, Idle
    <2>6. /\ call[t] # None /\ UNCHANGED <<file, temp, call>>
          /\ \A u \in Callers \ {t} : pc'[u] = pc[u] /\ data'[u] = data[u]
      BY <1>2, <2>1 DEF Inv, TypeOK, CallFits, Load, Goto
    <2>7. \/ pc'[t] = "done" /\ data'[t] \in Config
          \/ pc'[t] = "raised"
          \/ /\ pc'[t] = "mutated" /\ call[t] \in Updates
             /\ data'[t] = [d EXCEPT ![call[t].field] = call[t].value]
      BY <2>1, <2>2 DEF Inv, TypeOK, Goto
    <2>8. CallFits'
      <3>1. SUFFICES ASSUME NEW u \in Callers
                     PROVE  /\ pc'[u] = "idle" <=> call'[u] = None
                            /\ pc'[u] \in {"mutated", "opened", "dumped"} =>
                                 /\ call'[u] \in Updates
                                 /\ \E c \in Merged(file) : data'[u] = [c EXCEPT ![call'[u].field] = call'[u].value]
                            /\ pc'[u] = "dumped" => temp'[u] = data'[u]
                            /\ pc'[u] = "done" => data'[u] \in Config
        BY <2>6 DEF CallFits, Merged, Contents
      <3>2. CASE u = t
        <4>1. call'[t] = call[t] /\ call[t] # None
          BY <2>6
        <4>2. CASE pc'[t] = "done" \/ pc'[t] = "raised"
          BY <2>7, <3>2, <4>1, <4>2
        <4>3. CASE /\ pc'[t] = "mutated" /\ call[t] \in Updates
                   /\ data'[t] = [d EXCEPT ![call[t].field] = call[t].value]
          <5>1. \E c \in Merged(file) : data'[t] = [c EXCEPT ![call'[t].field] = call'[t].value]
            BY <4>1, <4>3
          <5> QED
            BY <3>2, <4>1, <4>3, <5>1
        <4> QED
          BY <2>7, <4>2, <4>3
      <3>3. CASE u # t
        <4>1. pc'[u] = pc[u] /\ data'[u] = data[u] /\ call'[u] = call[u] /\ temp'[u] = temp[u]
          BY <2>6, <3>3
        <4>2. pc[u] \in {"mutated", "opened", "dumped"} =>
                 \E c \in Merged(file) : data[u] = [c EXCEPT ![call[u].field] = call[u].value]
          BY DEF Inv, CallFits
        <4>3. pc'[u] \in {"mutated", "opened", "dumped"} =>
                 \E c \in Merged(file) : data'[u] = [c EXCEPT ![call'[u].field] = call'[u].value]
          BY <4>1, <4>2
        <4>4. /\ pc[u] = "idle" <=> call[u] = None
              /\ pc[u] \in {"mutated", "opened", "dumped"} => call[u] \in Updates
              /\ pc[u] = "dumped" => temp[u] = data[u]
              /\ pc[u] = "done" => data[u] \in Config
          BY DEF Inv, CallFits
        <4> QED
          BY <4>1, <4>3, <4>4
      <3> QED
        BY <3>2, <3>3
    <2> QED
      BY <2>4, <2>5, <2>8 DEF Inv
  <1>3. CASE MakeTemp(t)
    <2>1. TypeOK' /\ LockHeld'
      BY <1>3 DEF Inv, TypeOK, LockHeld, MakeTemp, Goto, Files, Idle
    <2>2. CallFits'
      BY <1>3 DEF Inv, TypeOK, CallFits, MakeTemp, Goto
    <2> QED
      BY <2>1, <2>2 DEF Inv
  <1>4. CASE Dump(t)
    <2>1. data[t] \in Files
      BY <1>4, MutatedTyped DEF Dump
    <2>2. TypeOK' /\ LockHeld'
      BY <1>4, <2>1 DEF Inv, TypeOK, LockHeld, Dump, Unlinked, Goto, Idle
    <2>3. CallFits'
      BY <1>4 DEF Inv, TypeOK, CallFits, Dump, Unlinked, Goto
    <2> QED
      BY <2>2, <2>3 DEF Inv
  <1>5. CASE Replace(t)
    <2>1. temp[t] = data[t] /\ data[t] \in Config /\ temp[t] \in Files
      BY <1>5, MutatedTyped DEF Inv, CallFits, Replace
    <2>2. TypeOK' /\ LockHeld'
      BY <1>5, <2>1 DEF Inv, TypeOK, LockHeld, Replace, Goto, Files, Idle
    <2>3. \A u \in Callers \ {t} : pc[u] \in {"idle", "called"}
      BY <1>5 DEF Inv, LockHeld, Replace
    <2>4. CallFits'
      BY <1>5, <2>1, <2>3 DEF Inv, TypeOK, CallFits, Replace, Goto
    <2> QED
      BY <2>2, <2>4 DEF Inv
  <1>6. CASE NotReplaced(t)
    <2>1. TypeOK' /\ LockHeld'
      BY <1>6 DEF Inv, TypeOK, LockHeld, NotReplaced, Unlinked, Goto, Idle
    <2>2. CallFits'
      BY <1>6 DEF Inv, TypeOK, CallFits, NotReplaced, Unlinked, Goto
    <2> QED
      BY <2>1, <2>2 DEF Inv
  <1>7. CASE Return(t)
    <2>1. TypeOK'
      BY <1>7 DEF Inv, TypeOK, CallFits, Return, Released, Goto
    <2>2. LockHeld'
      BY <1>7 DEF Inv, TypeOK, LockHeld, Return, Released, Goto, Idle
    <2>3. CallFits'
      BY <1>7 DEF Inv, TypeOK, CallFits, Return, Goto
    <2> QED
      BY <2>1, <2>2, <2>3 DEF Inv
  <1> QED
    BY <1>1, <1>2, <1>3, <1>4, <1>5, <1>6, <1>7 DEF Step

(* At a start nobody is in a call.                                         *)
LEMMA StartInv ==
    ASSUME Inv, Start
    PROVE  Inv'
  <1>1. Defaults \subseteq Files
    BY ConfigIsFile, DefaultsAssumption DEF Files
  <1>2. TypeOK' /\ LockHeld'
    BY <1>1 DEF Inv, TypeOK, LockHeld, Start, Files
  <1>3. CallFits'
    BY DEF Inv, LockHeld, CallFits, Start, Idle
  <1> QED
    BY <1>2, <1>3 DEF Inv

LEMMA StoppedInv ==
    ASSUME Inv, Stopped, left' \in BOOLEAN, file' \in Files, disk' \subseteq Files, file' \in disk'
    PROVE  Inv'
  BY DEF Inv, TypeOK, LockHeld, CallFits, Stopped, Idle, Nothing

LEMMA NextInv ==
    ASSUME Inv, [Next]_vars
    PROVE  Inv'
  <1>1. CASE Kill \/ PowerCut
    BY <1>1, StoppedInv DEF Kill, PowerCut, Inv, TypeOK, LockHeld
  <1>2. CASE Flush \/ UNCHANGED vars
    <2>1. UNCHANGED <<file, temp, left, lock, call, pc, data, returned, up>> /\ disk' \in {disk, {file}}
      BY <1>2 DEF Flush, vars
    <2>2. TypeOK' /\ LockHeld'
      BY <2>1 DEF Inv, TypeOK, LockHeld
    <2>3. CallFits'
      BY <2>1 DEF Inv, CallFits, Merged, Contents
    <2> QED
      BY <2>2, <2>3 DEF Inv
  <1> QED
    BY <1>1, <1>2, CallInv, StepInv, StartInv DEF Next

-----------------------------------------------------------------------------
(* The refinement.                                                         *)

Pending  == [t \in Callers |-> IF Effective(t) THEN None ELSE call[t]]
Results  == [t \in Callers |-> IF pc[t] = "done" THEN data[t] ELSE returned[t]]
Survivors == {Contents(f) : f \in disk}

Unseen == UNCHANGED <<Contents(file), Survivors, Pending, Results>>

LEMMA InitAbstract == Init => Abstract!Init
  <1> SUFFICES ASSUME Init PROVE Abstract!Init
    OBVIOUS
  <1>1. Contents(file) \in Abstract!Partial
    BY ContentsTyped DEF Init, Files, OldFiles, Abstract!Partial
  <1>2. Survivors = {Contents(file)}
    BY DEF Init, Survivors
  <1>3. Pending = Nothing /\ Results = Nothing
    BY DEF Init, Pending, Results, Effective, Idle, Nothing
  <1> QED
    BY <1>1, <1>2, <1>3 DEF Abstract!Init, Pending, Results, Survivors, Nothing

(* A step of a call that is still pending afterwards, or has taken effect  *)
(* before.                                                                 *)
LEMMA QuietStep ==
    ASSUME Inv, NEW t \in Callers, UNCHANGED <<file, disk>>,
           \A u \in Callers : Pending'[u] = Pending[u] /\ Results'[u] = Results[u]
    PROVE  Unseen
  <1>1. Pending' = Pending /\ Results' = Results
    BY DEF Pending, Results
  <1> QED
    BY <1>1 DEF Unseen, Survivors

(* A call that raises.                                                     *)
LEMMA RaisedStep ==
    ASSUME Inv, NEW t \in Callers, pc[t] \in {"locked", "mutated", "opened", "dumped"},
           call[t] \in Updates \cup {Raising},
           UNCHANGED <<file, disk, call, returned>>, pc' = [pc EXCEPT ![t] = "raised"],
           \A u \in Callers \ {t} : data'[u] = data[u]
    PROVE  Abstract!Fail(t)
  <1>1. Pending[t] \in Updates \cup {Raising}
    BY DEF Pending, Effective
  <1>2. Pending' = [Pending EXCEPT ![t] = None]
    BY DEF Pending, Effective, Inv, TypeOK
  <1>3. Results' = Results
    BY DEF Results, Inv, TypeOK
  <1> QED
    BY <1>1, <1>2, <1>3 DEF Abstract!Fail, Pending, Results

LEMMA CallAbstract ==
    ASSUME Inv, NEW t \in Callers, Call(t)
    PROVE  Abstract!Begin(t)
  <1>1. PICK op \in Updates \cup {Read, Raising} : call' = [call EXCEPT ![t] = op]
    BY DEF Call
  <1>2. Pending[t] = None /\ Pending' = [Pending EXCEPT ![t] = op]
    BY <1>1 DEF Pending, Effective, Call, Goto, Inv, TypeOK, CallFits
  <1>3. Results' = Results
    BY DEF Results, Call, Goto, Inv, TypeOK
  <1>4. UNCHANGED <<Contents(file), Survivors>>
    BY DEF Call, Survivors
  <1> QED
    BY <1>2, <1>3, <1>4 DEF Abstract!Begin, Pending, Results, Survivors

LEMMA LoadAbstract ==
    ASSUME Inv, NEW t \in Callers, Load(t)
    PROVE  Abstract!DoRead(t) \/ Abstract!Fail(t) \/ Unseen
  <1>0. pc[t] = "locked" /\ UNCHANGED <<file, disk, call, returned>>
    BY DEF Load
  <1>1. CASE call[t] = Read
    <2>1. PICK d \in Merged(file) : data' = [data EXCEPT ![t] = d]
      BY <1>1, NamesAssumption DEF Load
    <2>2. pc' = [pc EXCEPT ![t] = "done"]
      BY <1>1, NamesAssumption DEF Load, Goto
    <2>3. Pending[t] = Read /\ Pending' = [Pending EXCEPT ![t] = None]
      BY <1>0, <1>1, <2>2 DEF Pending, Effective, Inv, TypeOK
    <2>4. Results' = [Results EXCEPT ![t] = d]
      BY <1>0, <2>1, <2>2 DEF Results, Inv, TypeOK
    <2>5. d \in Abstract!Whole(Contents(file))
      BY DEF Merged, Abstract!Whole
    <2> QED
      BY <1>0, <2>3, <2>4, <2>5 DEF Abstract!DoRead, Pending, Results
  <1>2. CASE call[t] = Raising
    <2>1. pc' = [pc EXCEPT ![t] = "raised"] /\ \A u \in Callers \ {t} : data'[u] = data[u]
      BY <1>2, NamesAssumption DEF Load, Goto, Inv, TypeOK
    <2> QED
      BY <1>0, <1>2, <2>1, RaisedStep
  <1>3. CASE call[t] \in Updates
    <2>1. pc' = [pc EXCEPT ![t] = "mutated"] /\ \A u \in Callers \ {t} : data'[u] = data[u]
      BY <1>3, NamesAssumption DEF Load, Goto, Inv, TypeOK
    <2>2. \A u \in Callers : Pending'[u] = Pending[u] /\ Results'[u] = Results[u]
      BY <1>0, <2>1 DEF Pending, Results, Effective, Inv, TypeOK
    <2> QED
      BY <1>0, <2>2, QuietStep
  <1> QED
    BY <1>1, <1>2, <1>3 DEF Load

(* The rename is the moment at which an update takes effect.               *)
LEMMA ReplaceAbstract ==
    ASSUME Inv, NEW t \in Callers, Replace(t)
    PROVE  Abstract!DoUpdate(t)
  <1>1. call[t] \in Updates /\ temp[t] = data[t] /\ data[t] \in Config
    BY MutatedTyped DEF Replace, Inv, CallFits
  <1>2. PICK c \in Merged(file) : data[t] = [c EXCEPT ![call[t].field] = call[t].value]
    BY DEF Replace, Inv, CallFits
  <1>3. Contents(file') = data[t] /\ Contents(Broken) = Empty
    BY <1>1, ContentsTyped DEF Replace
  <1>4. Survivors' = Survivors \cup {data[t], Empty}
    BY <1>1, <1>3 DEF Replace, Survivors
  <1>5. Pending[t] = call[t] /\ Pending' = [Pending EXCEPT ![t] = None]
    BY DEF Pending, Effective, Replace, Goto, Inv, TypeOK
  <1>6. Results' = [Results EXCEPT ![t] = data[t]]
    BY DEF Results, Replace, Goto, Inv, TypeOK
  <1>7. c \in Abstract!Whole(Contents(file)) /\ data[t] = Abstract!Changed(call[t], c)
    BY <1>2 DEF Merged, Abstract!Whole, Abstract!Changed
  <1>8. Abstract!Empty = Empty
    BY DEF Empty, Abstract!Empty
  <1> QED
    BY <1>1, <1>3, <1>4, <1>5, <1>6, <1>7, <1>8
       DEF Abstract!DoUpdate, Pending, Results, Survivors

LEMMA WriteAbstract ==
    ASSUME Inv, NEW t \in Callers, Acquire(t) \/ MakeTemp(t) \/ Dump(t) \/ NotReplaced(t)
    PROVE  Abstract!Fail(t) \/ Unseen
  <1>1. UNCHANGED <<file, disk, call, data, returned>>
    BY DEF Acquire, MakeTemp, Dump, NotReplaced
  <1>2. CASE pc' = [pc EXCEPT ![t] = "raised"] /\ pc[t] \in {"mutated", "opened", "dumped"}
    BY <1>1, <1>2, RaisedStep DEF Inv, CallFits
  <1>3. CASE /\ pc[t] \in {"called", "mutated", "opened"}
             /\ \E label \in {"locked", "opened", "dumped"} : pc' = [pc EXCEPT ![t] = label]
    <2>1. \A u \in Callers : Pending'[u] = Pending[u] /\ Results'[u] = Results[u]
      BY <1>1, <1>3 DEF Pending, Results, Effective, Inv, TypeOK
    <2> QED
      BY <1>1, <2>1, QuietStep
  <1> QED
    BY <1>2, <1>3 DEF Acquire, MakeTemp, Dump, NotReplaced, Goto

LEMMA ReturnAbstract ==
    ASSUME Inv, NEW t \in Callers, Return(t)
    PROVE  Unseen
  <1>1. \A u \in Callers : Pending'[u] = Pending[u] /\ Results'[u] = Results[u]
    BY DEF Pending, Results, Effective, Return, Goto, Inv, TypeOK
  <1> QED
    BY <1>1, QuietStep DEF Return

LEMMA StartAbstract ==
    ASSUME Inv, Start
    PROVE  Abstract!Create \/ Unseen
  <1>1. CASE UNCHANGED <<file, disk>>
    BY <1>1 DEF Start, Unseen, Survivors, Pending, Results, Effective
  <1>2. CASE file = Missing /\ file' \in Defaults /\ disk' = disk \cup {file', Broken}
    <2>1. file' \in Config /\ Contents(file') = file' /\ Contents(file) = Empty /\ Contents(Broken) = Empty
      BY <1>2, ContentsTyped, DefaultsAssumption
    <2>2. Survivors' = Survivors \cup {file', Empty}
      BY <1>2, <2>1 DEF Survivors
    <2>3. Pending = Nothing
      BY DEF Start, Inv, LockHeld, CallFits, Idle, Pending, Nothing, Effective
    <2>4. Pending' = Pending /\ Results' = Results
      BY DEF Start, Pending, Results, Effective
    <2>5. Abstract!Empty = Empty
      BY DEF Empty, Abstract!Empty
    <2> QED
      BY <1>2, <2>1, <2>2, <2>3, <2>4, <2>5 DEF Abstract!Create, Pending, Results, Survivors, Nothing
  <1> QED
    BY <1>1, <1>2 DEF Start

LEMMA WorldAbstract ==
    ASSUME Inv, Flush \/ Kill \/ PowerCut
    PROVE  Abstract!Flush \/ Abstract!Kill \/ Abstract!PowerCut
  <1>1. CASE Flush
    BY <1>1 DEF Flush, Effective, Abstract!Flush
  <1>2. ASSUME Stopped
        PROVE  Pending' = Nothing /\ Results' = Nothing
    BY <1>2 DEF Stopped, Pending, Results, Effective, Idle, Nothing
  <1>3. CASE Kill
    BY <1>2, <1>3 DEF Kill, Pending, Results, Nothing, Abstract!Kill, Abstract!Forgotten
  <1>4. CASE PowerCut
    BY <1>2, <1>4 DEF PowerCut, Pending, Results, Nothing, Abstract!PowerCut, Abstract!Forgotten
  <1> QED
    BY <1>1, <1>3, <1>4

LEMMA NextAbstract ==
    ASSUME Inv, [Next]_vars
    PROVE  [Abstract!Next]_(Abstract!vars)
  <1>1. Unseen => UNCHANGED Abstract!vars
    BY DEF Unseen, Survivors, Pending, Results, Abstract!vars
  <1>2. ASSUME NEW t \in Callers, Step(t)
        PROVE  Abstract!DoRead(t) \/ Abstract!DoUpdate(t) \/ Abstract!Fail(t) \/ Unseen
    BY <1>2, LoadAbstract, ReplaceAbstract, WriteAbstract, ReturnAbstract DEF Step
  <1>3. CASE UNCHANGED vars
    BY <1>3 DEF vars, Unseen, Survivors, Pending, Results, Effective, Abstract!vars
  <1> QED
    BY <1>1, <1>2, <1>3, CallAbstract, StartAbstract, WorldAbstract DEF Next, Abstract!Next

(* The store implements DurableConfig, for any number of callers, keys and *)
(* values: every call is atomic and takes effect at its rename or not at   *)
(* all, and nothing but a power cut sets the configuration back            *)
(* (config_store.py:26-61).                                                *)
THEOREM StoreIsDurable == Spec => Durable
  <1>1. Inv /\ [Next]_vars => Inv'
    BY NextInv
  <1>2. Inv /\ [Next]_vars => [Abstract!Next]_(Abstract!vars)
    BY NextAbstract
  <1> QED
    BY <1>1, <1>2, InitInv, InitAbstract, PTL DEF Spec, Durable, Abstract!Spec

-----------------------------------------------------------------------------
(* Typing, and the temporary files.                                        *)

(* The state of the store is well typed: what is in the file, on the disk  *)
(* and in each temporary file is a file that some version has written, and *)
(* what a caller gets back is a whole configuration.                       *)
THEOREM StoreTyping == Spec => []TypeOK
  <1>1. Inv /\ [Next]_vars => Inv'
    BY NextInv
  <1>2. Inv => TypeOK
    BY DEF Inv
  <1> QED
    BY <1>1, <1>2, InitInv, PTL DEF Spec

(* A caller has a temporary file only between mkstemp and the rename: it   *)
(* has none when it starts to write, so that none can be left of a call    *)
(* before.                                                                 *)
TempsInUse == \A t \in Callers : temp[t] # None => pc[t] \in {"opened", "dumped"}

LEMMA StepTemps ==
    ASSUME Inv, TempsInUse, NEW t \in Callers, Call(t) \/ Step(t)
    PROVE  TempsInUse'
  <1>1. CASE Call(t) \/ Acquire(t) \/ Load(t) \/ Return(t)
    BY <1>1 DEF Inv, TypeOK, TempsInUse, Call, Acquire, Load, Return, Goto
  <1>2. CASE MakeTemp(t) \/ Dump(t) \/ Replace(t) \/ NotReplaced(t)
    BY <1>2 DEF Inv, TypeOK, TempsInUse, MakeTemp, Dump, Replace, NotReplaced, Unlinked, Goto
  <1> QED
    BY <1>1, <1>2 DEF Step

LEMMA WorldTemps ==
    ASSUME TempsInUse, Start \/ Flush \/ Kill \/ PowerCut \/ UNCHANGED vars
    PROVE  TempsInUse'
  BY DEF TempsInUse, Start, Flush, Kill, PowerCut, Stopped, Nothing, vars

(* A call that is over, whether it wrote, raised or found the disk full,   *)
(* leaves no temporary file behind (config_store.py:33-36).                *)
THEOREM TempsGone == Spec => []TempsAreGone
  <1>1. Init => TempsInUse
    BY DEF Init, TempsInUse, Nothing
  <1>2. Inv /\ [Next]_vars => Inv'
    BY NextInv
  <1>3. Inv /\ TempsInUse /\ [Next]_vars => TempsInUse'
    BY StepTemps, WorldTemps DEF Next
  <1>4. TempsInUse => TempsAreGone
    BY DEF TempsInUse, TempsAreGone
  <1> QED
    BY <1>1, <1>2, <1>3, <1>4, InitInv, PTL DEF Spec
=============================================================================

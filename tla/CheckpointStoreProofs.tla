----------------------- MODULE CheckpointStoreProofs -----------------------
(***************************************************************************)
(* For any number of managers, names, faults, stops and damaged files: a   *)
(* restart never resumes from a checkpoint that a returned save had seen.  *)
(*                                                                         *)
(* The argument.  A save takes a sequence number above every file it can   *)
(* see, and what it sees never comes back under another name, so the       *)
(* numbers alone keep the order (Ordered).  The name of a save that        *)
(* returned is on the disk and survives a power failure (Kept), perhaps    *)
(* with the contents of a save that raced it, and reads well unless it was *)
(* damaged (Undamaged): load_latest_valid stops there at the latest.       *)
(* And it does find a file: a directory holds finitely many, so the         *)
(* readable ones have a newest (NewestExists).                             *)
(***************************************************************************)
EXTENDS CheckpointStore, FiniteSetTheorems, WellFoundedInduction, TLAPS

Busy == {m \in Manager : pc[m] # "idle"}

(* Writes that are under way or have returned.                             *)
Known == acknowledged \cup {writing[m] : m \in Busy}

Present == disk \cup durable

UnderWay == \A m \in Busy : writing[m] \in Writes /\ writing[m].file.health = "good"

Numbered ==
    /\ \A f \in Present : f.save <= saves
    /\ \A m \in Busy : writing[m].file.save <= saves
    /\ \A w \in Known : \A s \in w.over : s <= saves

(* A save that was not renamed yet has been seen by nobody.                 *)
Unseen ==
    \A m \in Busy :
       /\ \A n \in Busy : writing[n].file.save = writing[m].file.save => n = m
       /\ pc[m] = "replace" => /\ \A f \in Present : f.save # writing[m].file.save
                               /\ \A w \in Known : writing[m].file.save \notin w.over

OneName == \A f, g \in Present : f.save = g.save => f.path = g.path

Ordered ==
    \A w \in Known : \A f \in Present :
       f.save \in w.over => f.path.seq < w.file.path.seq

Visible == \A f \in durable : \E g \in disk : g.path = f.path

InPlace == \A m \in Busy : pc[m] = "sync" => \E f \in disk : f.path = writing[m].file.path

Kept == \A w \in acknowledged :
           w.file.save \notin unsynced => \E f \in durable : f.path = w.file.path

Undamaged == \A f \in Present : f.health = "good" \/ f.path \in damaged

IInv ==
    /\ TypeOK
    /\ UnderWay
    /\ Numbered
    /\ Unseen
    /\ OneName
    /\ Ordered
    /\ Visible
    /\ InPlace
    /\ Kept
    /\ Undamaged

-----------------------------------------------------------------------------
LEMMA InitInv == Init => IInv
<1> SUFFICES ASSUME Init
             PROVE  IInv
    OBVIOUS
<1> USE DEF Init
<1>1. TypeOK
    BY DEF TypeOK
<1>2. Busy = {} /\ Known = {} /\ Present = {}
    BY DEF Busy, Known, Present
<1> QED
    BY <1>1, <1>2 DEF IInv, UnderWay, Numbered, Unseen, OneName, Ordered, Visible, InPlace,
                      Kept, Undamaged

(* Every step keeps every variable in its type.                            *)
LEMMA NextTypeOK == IInv /\ [Next]_vars => TypeOK'
<1> SUFFICES ASSUME IInv, [Next]_vars
             PROVE  TypeOK'
    OBVIOUS
<1> USE StoreAssumption DEF TypeOK, IInv, files, observed
<1>0. ASSUME NEW m \in Manager, EndSave(m)
      PROVE  /\ pc' \in [Manager -> {"idle", "replace", "sync"}]
             /\ writing' \in [Manager -> Writes \cup {NoWrite}]
    BY <1>0 DEF EndSave, GoTo
<1>1. ASSUME NEW m \in Manager, BeginSave(m) PROVE TypeOK'
    <2>1. PICK n \in NextSequences, name \in Names :
             writing' = [writing EXCEPT ![m] = [file |-> [path   |-> [seq |-> n, name |-> name],
                                                          save   |-> saves + 1,
                                                          health |-> "good"],
                                                over |-> {f.save : f \in disk}]]
        BY <1>1 DEF BeginSave
    <2>2. n \in Nat \ {0}
        BY DEF NextSequences, Files, Paths
    <2>3. {f.save : f \in disk} \subseteq Nat \ {0}
        BY DEF Files
    <2>4. [file |-> [path   |-> [seq |-> n, name |-> name],
                     save   |-> saves + 1,
                     health |-> "good"],
           over |-> {f.save : f \in disk}] \in Writes
        BY <2>2, <2>3 DEF Writes, Files, Paths, Health
    <2>5. writing' \in [Manager -> Writes \cup {NoWrite}]
        BY <2>1, <2>4
    <2> QED
        BY <1>1, <2>5 DEF BeginSave, GoTo
<1>2. ASSUME NEW m \in Manager, FailBeforeReplace(m) \/ FailSync(m) \/ Crash(m) PROVE TypeOK'
    <2>1. EndSave(m) /\ UNCHANGED <<disk, durable, acknowledged, unsynced, damaged, saves, damages>>
        BY <1>2 DEF FailBeforeReplace, FailSync, Crash
    <2>2. faults' \in Nat /\ stops' \in Nat
        BY <1>2 DEF FailBeforeReplace, FailSync, Crash, Fault
    <2> QED
        BY <1>0, <2>1, <2>2
<1>3. ASSUME NEW m \in Manager, Replace(m) PROVE TypeOK'
    <2>1. writing[m] \in Writes
        BY <1>3 DEF Replace, UnderWay, Busy
    <2>2. disk' \subseteq Files
        BY <1>3, <2>1 DEF Replace, Writes
    <2> QED
        BY <1>3, <2>2 DEF Replace, GoTo
<1>4. ASSUME NEW m \in Manager, SyncDirectory(m) \/ SkipSync(m) PROVE TypeOK'
    <2>1. writing[m] \in Writes
        BY <1>4 DEF SyncDirectory, SkipSync, UnderWay, Busy
    <2>2. writing[m].file.save \in Nat
        BY <2>1 DEF Writes, Files
    <2>3. Acknowledge(m)
        BY <1>4 DEF SyncDirectory, SkipSync
    <2>4. /\ durable' \subseteq Files
          /\ unsynced' \subseteq Nat
          /\ faults' \in Nat
        <3>1. CASE SyncDirectory(m)
            BY <3>1 DEF SyncDirectory
        <3>2. CASE SkipSync(m)
            <4>1. durable' = durable /\ unsynced' = unsynced \cup {writing[m].file.save}
                BY <3>2, Zenon DEF SkipSync
            <4>2. faults' = faults + 1
                BY <3>2 DEF SkipSync, Fault
            <4>3. durable' \subseteq Files
                BY <4>1
            <4>4. unsynced' \subseteq Nat
                BY <2>2, <4>1
            <4>5. faults' \in Nat
                BY <4>2
            <4> QED
                BY <4>3, <4>4, <4>5
        <3> QED
            BY <1>4, <3>1, <3>2
    <2>5. /\ EndSave(m) /\ acknowledged' \subseteq Writes
          /\ UNCHANGED <<disk, damaged, saves, stops, damages>>
        BY <2>1, <2>3 DEF Acknowledge
    <2> QED
        BY <1>0, <2>4, <2>5
<1>5. CASE PowerFailure
    BY <1>5 DEF PowerFailure
<1>6. ASSUME NEW f \in disk, NEW health \in Health \ {"good"}, Damage(f, health) PROVE TypeOK'
    <2>1. \A g \in Files : [g EXCEPT !.health = health] \in Files
        BY DEF Files
    <2>2. f.path \in Paths
        BY DEF Files
    <2> QED
        BY <1>6, <2>1, <2>2 DEF Damage
<1>7. CASE UNCHANGED vars
    BY <1>7 DEF vars
<1> QED
    BY <1>1, <1>2, <1>3, <1>4, <1>5, <1>6, <1>7 DEF Next, Save

-----------------------------------------------------------------------------
(* The order of the saves is safe in a step that begins and renames none.   *)
OrderInv == UnderWay /\ Numbered /\ Unseen /\ OneName /\ Ordered

LEMMA NothingNew ==
    ASSUME IInv,
           saves' = saves,
           Busy' \subseteq Busy,
           Known' \subseteq Known,
           \A m \in Busy' : /\ writing'[m] = writing[m]
                            /\ pc'[m] = "replace" => pc[m] = "replace",
           \A f \in Present' : \E g \in Present : g.path = f.path /\ g.save = f.save
    PROVE  OrderInv'
<1> USE DEF IInv
<1>1. UnderWay'
    BY DEF UnderWay
<1>2. Numbered'
    BY DEF Numbered
<1>3. Unseen'
    BY DEF Unseen
<1>4. OneName'
    BY DEF OneName
<1>5. Ordered'
    BY DEF Ordered
<1> QED
    BY <1>1, <1>2, <1>3, <1>4, <1>5 DEF OrderInv

(* What the end of a save leaves of the writes under way.                   *)
LEMMA EndSaveFacts ==
    ASSUME IInv, NEW m \in Manager, pc[m] # "idle", EndSave(m)
    PROVE  /\ Busy' = Busy \ {m}
           /\ \A n \in Busy' : writing'[n] = writing[n] /\ pc'[n] = pc[n]
           /\ \A n \in Busy' : writing'[n] \in Known
           /\ writing[m] \in Known
BY DEF IInv, TypeOK, EndSave, GoTo, Busy, Known

LEMMA BeginSaveInv == ASSUME IInv, TypeOK', NEW m \in Manager, BeginSave(m) PROVE IInv'
<1> USE DEF BeginSave, files, observed
<1>1. PICK n \in NextSequences, name \in Names :
         writing' = [writing EXCEPT ![m] = [file |-> [path   |-> [seq |-> n, name |-> name],
                                                      save   |-> saves + 1,
                                                      health |-> "good"],
                                            over |-> {f.save : f \in disk}]]
    OBVIOUS
<1> DEFINE new == writing'[m]
<1>2. /\ new.file.path.seq = n /\ new.file.save = saves + 1
      /\ new.file.health = "good" /\ new.over = {f.save : f \in disk}
    BY <1>1 DEF IInv, TypeOK
<1>3. /\ Busy' = Busy \cup {m} /\ m \notin Busy
      /\ \A k \in Busy : writing'[k] = writing[k] /\ pc'[k] = pc[k]
    BY <1>1 DEF IInv, TypeOK, GoTo, Busy
<1> HIDE DEF new
<1>4. Known' \subseteq Known \cup {new}
    BY <1>3 DEF Known, new
<1>5. Present' = Present /\ saves' = saves + 1 /\ saves \in Nat
    BY DEF Present, IInv, TypeOK
<1>6. \A f \in Present : f.save <= saves /\ f.save \in Nat
    BY DEF IInv, Numbered, TypeOK, Present, Files
<1>7. \A w \in Known : \A s \in w.over : s <= saves /\ s \in Nat
    BY DEF IInv, Numbered, TypeOK, UnderWay, Known, Writes
<1>8. UnderWay'
    <2>1. new \in Writes
        BY <1>2, <1>3 DEF TypeOK, NoWrite, Busy, new
    <2> QED
        BY <1>2, <1>3, <2>1 DEF IInv, UnderWay, new
<1>9. Numbered'
    <2>1. \A k \in Busy' : writing'[k].file.save <= saves'
        BY <1>2, <1>3, <1>5 DEF IInv, Numbered, UnderWay, Writes, Files, new
    <2>2. \A s \in new.over : s <= saves + 1
        BY <1>2, <1>5, <1>6 DEF Present
    <2> QED
        BY <1>4, <1>5, <1>6, <1>7, <2>1, <2>2 DEF Numbered
<1>10. Unseen'
    <2>1. \A k \in Busy : writing[k].file.save # saves + 1
        BY <1>5 DEF IInv, Numbered, UnderWay, Writes, Files
    <2>2. \A f \in Present : f.save # saves + 1
        BY <1>5, <1>6
    <2>3. \A w \in Known \cup {new} : saves + 1 \notin w.over
        BY <1>2, <1>5, <1>6, <1>7 DEF Present
    <2>4. \A k \in Busy : pc[k] = "replace" => writing[k].file.save \notin new.over
        BY <1>2 DEF IInv, Unseen, Present
    <2>5. \A k \in Busy', l \in Busy' :
             writing'[l].file.save = writing'[k].file.save => l = k
        BY <1>2, <1>3, <2>1 DEF IInv, Unseen, new
    <2>6. \A k \in Busy' : pc'[k] = "replace" =>
             /\ \A f \in Present : f.save # writing'[k].file.save
             /\ \A w \in Known \cup {new} : writing'[k].file.save \notin w.over
        <3>1. SUFFICES ASSUME NEW k \in Busy', pc'[k] = "replace"
                       PROVE  /\ \A f \in Present : f.save # writing'[k].file.save
                              /\ \A w \in Known \cup {new} : writing'[k].file.save \notin w.over
            OBVIOUS
        <3>2. CASE k = m
            BY <1>2, <2>2, <2>3, <3>2 DEF new
        <3>3. CASE k \in Busy
            BY <1>3, <2>4, <3>1, <3>3 DEF IInv, Unseen
        <3> QED
            BY <1>3, <3>2, <3>3
    <2> QED
        BY <1>4, <1>5, <2>5, <2>6 DEF Unseen
<1>11. Ordered'
    <2>1. \A f \in Present : f.save \in new.over => f.path.seq < n
        <3>1. SUFFICES ASSUME NEW f \in Present, NEW g \in disk, f.save = g.save
                       PROVE  f.path.seq < n
            BY <1>2
        <3>2. f.path = g.path
            BY <3>1 DEF IInv, OneName, Present
        <3> QED
            BY <3>2 DEF NextSequences
    <2> QED
        BY <1>2, <1>4, <1>5, <2>1 DEF IInv, Ordered
<1>12. OneName' /\ Visible' /\ Kept' /\ Undamaged'
    BY <1>5 DEF IInv, OneName, Visible, Kept, Undamaged
<1>13. InPlace'
    BY <1>3 DEF IInv, TypeOK, InPlace, GoTo, Busy
<1> QED
    BY <1>8, <1>9, <1>10, <1>11, <1>12, <1>13 DEF IInv

LEMMA ReplaceInv == ASSUME IInv, TypeOK', NEW m \in Manager, Replace(m) PROVE IInv'
<1> USE DEF Replace, observed
<1> DEFINE new == writing[m].file
<1>1. /\ Busy' = Busy /\ m \in Busy
      /\ \A k \in Busy : pc'[k] = "replace" => pc[k] = "replace" /\ k # m
      /\ \A k \in Busy : pc'[k] = "sync" => pc[k] = "sync" \/ k = m
    BY DEF IInv, TypeOK, GoTo, Busy
<1>2. Known' = Known /\ writing' = writing /\ saves' = saves
    BY <1>1 DEF Known
<1>3. /\ new.health = "good"
      /\ new.save <= saves
      /\ \A f \in Present : f.save # new.save
      /\ \A w \in Known : new.save \notin w.over
    BY <1>1 DEF IInv, UnderWay, Numbered, Unseen
<1>4. \A k \in Busy : k # m => writing[k].file.save # new.save
    BY <1>1 DEF IInv, Unseen
<1> HIDE DEF new
<1>5. Present' \subseteq Present \cup {new} /\ new \in disk'
    BY DEF Present, new
<1>6. UnderWay' /\ Kept'
    BY <1>1, <1>2 DEF IInv, UnderWay, Kept
<1>7. Numbered'
    BY <1>1, <1>2, <1>3, <1>5 DEF IInv, Numbered
<1>8. Unseen'
    BY <1>1, <1>2, <1>4, <1>5 DEF IInv, Unseen
<1>9. OneName'
    BY <1>3, <1>5 DEF IInv, OneName
<1>10. Ordered'
    BY <1>2, <1>3, <1>5 DEF IInv, Ordered
<1>11. \A f \in disk : \E g \in disk' : g.path = f.path
    BY <1>5 DEF new
<1>12. Visible'
    BY <1>11 DEF IInv, Visible
<1>13. InPlace'
    BY <1>1, <1>2, <1>5, <1>11 DEF IInv, InPlace, new
<1>14. Undamaged'
    BY <1>3, <1>5 DEF IInv, Undamaged
<1> QED
    BY <1>6, <1>7, <1>8, <1>9, <1>10, <1>12, <1>13, <1>14 DEF IInv

(* The ends of a save that tell nobody anything: it raised, or the process  *)
(* stopped.                                                                *)
LEMMA GiveUpInv ==
    ASSUME IInv, TypeOK', NEW m \in Manager, FailBeforeReplace(m) \/ FailSync(m) \/ Crash(m)
    PROVE  IInv'
<1>1. /\ EndSave(m) /\ pc[m] # "idle"
      /\ UNCHANGED <<disk, durable, acknowledged, unsynced, damaged, saves>>
    BY DEF FailBeforeReplace, FailSync, Crash, files, observed
<1>2. /\ Busy' = Busy \ {m}
      /\ \A n \in Busy' : writing'[n] = writing[n] /\ pc'[n] = pc[n]
      /\ \A n \in Busy' : writing'[n] \in Known
    BY <1>1, EndSaveFacts
<1>3. Known' \subseteq Known /\ Present' = Present
    BY <1>1, <1>2 DEF Known, Present
<1>4. OrderInv'
    BY <1>1, <1>2, <1>3, NothingNew
<1>5. Visible' /\ InPlace' /\ Kept' /\ Undamaged'
    BY <1>1, <1>2, <1>3 DEF IInv, Visible, InPlace, Kept, Undamaged
<1> QED
    BY <1>4, <1>5 DEF IInv, OrderInv

LEMMA ReturnInv ==
    ASSUME IInv, TypeOK', NEW m \in Manager, SyncDirectory(m) \/ SkipSync(m)
    PROVE  IInv'
<1>1. /\ EndSave(m) /\ pc[m] = "sync"
      /\ acknowledged' = acknowledged \cup {writing[m]}
      /\ UNCHANGED <<disk, damaged, saves>>
      /\ \/ durable' = disk /\ unsynced' = unsynced
         \/ durable' = durable /\ unsynced' = unsynced \cup {writing[m].file.save}
    BY DEF SyncDirectory, SkipSync, Acknowledge
<1>2. /\ Busy' = Busy \ {m} /\ m \in Busy
      /\ \A n \in Busy' : writing'[n] = writing[n] /\ pc'[n] = pc[n]
      /\ \A n \in Busy' : writing'[n] \in Known
      /\ writing[m] \in Known
    BY <1>1, EndSaveFacts DEF Busy
<1>3. Known' \subseteq Known
    BY <1>1, <1>2 DEF Known
<1>4. Present' \subseteq Present
    BY <1>1 DEF Present
<1>5. OrderInv'
    BY <1>1, <1>2, <1>3, <1>4, NothingNew
<1>6. Visible'
    BY <1>1 DEF IInv, Visible
<1>7. InPlace'
    BY <1>1, <1>2 DEF IInv, InPlace
<1>8. Kept'
    <2>1. \E f \in disk : f.path = writing[m].file.path
        BY <1>1, <1>2 DEF IInv, InPlace
    <2> QED
        BY <1>1, <2>1 DEF IInv, Kept, Visible
<1>9. Undamaged'
    BY <1>1, <1>4 DEF IInv, Undamaged
<1> QED
    BY <1>5, <1>6, <1>7, <1>8, <1>9 DEF IInv, OrderInv

LEMMA PowerFailureInv == ASSUME IInv, TypeOK', PowerFailure PROVE IInv'
<1>1. /\ Busy' = {}
      /\ UNCHANGED <<acknowledged, unsynced, damaged, saves>>
    BY DEF PowerFailure, Busy, observed
<1>2. PICK D \in SUBSET Present : Survivors(D) /\ disk' = D /\ durable' = D
    BY DEF PowerFailure, Present
<1>3. Known' \subseteq Known /\ Present' \subseteq Present
    BY <1>1, <1>2 DEF Known, Present
<1>4. OrderInv'
    BY <1>1, <1>3, NothingNew
<1>5. Visible' /\ InPlace'
    BY <1>1, <1>2 DEF Visible, InPlace
<1>6. Kept'
    BY <1>1, <1>2 DEF IInv, Kept, Survivors
<1>7. Undamaged'
    BY <1>1, <1>3 DEF IInv, Undamaged
<1> QED
    BY <1>4, <1>5, <1>6, <1>7 DEF IInv, OrderInv

LEMMA DamageInv ==
    ASSUME IInv, TypeOK', NEW f \in disk, NEW health \in Health \ {"good"}, Damage(f, health)
    PROVE  IInv'
<1> DEFINE spoilt(g) == IF g = f THEN [g EXCEPT !.health = health] ELSE g
<1>1. /\ disk' = {spoilt(g) : g \in disk}
      /\ durable' = {spoilt(g) : g \in durable}
      /\ damaged' = damaged \cup {f.path}
      /\ UNCHANGED <<pc, writing, acknowledged, unsynced, saves>>
    BY DEF Damage
<1>2. \A g \in Present : /\ spoilt(g).path = g.path /\ spoilt(g).save = g.save
                         /\ spoilt(g).health = g.health \/ g.path = f.path
    BY DEF IInv, TypeOK, Files, Present
<1> HIDE DEF spoilt
<1>3. Present' = {spoilt(g) : g \in Present}
    BY <1>1 DEF Present
<1>4. Known' = Known /\ Busy' = Busy
    BY <1>1 DEF Known, Busy
<1>5. \A g \in Present' : \E h \in Present : h.path = g.path /\ h.save = g.save
    BY <1>2, <1>3
<1>6. OrderInv'
    BY <1>1, <1>4, <1>5, NothingNew
<1>7. /\ \A g \in disk : \E h \in disk' : h.path = g.path
      /\ \A g \in durable : \E h \in durable' : h.path = g.path
      /\ \A g \in durable' : \E h \in durable : h.path = g.path
    BY <1>1, <1>2 DEF Present
<1>8. Visible'
    BY <1>7 DEF IInv, Visible
<1>9. InPlace' /\ Kept'
    <2>1. InPlace'
        <3>1. SUFFICES ASSUME NEW m \in Busy, pc[m] = "sync"
                       PROVE  \E h \in disk' : h.path = writing[m].file.path
            BY <1>1, <1>4 DEF InPlace
        <3>2. PICK g \in disk : g.path = writing[m].file.path
            BY <3>1 DEF IInv, InPlace
        <3> QED
            BY <1>7, <3>2
    <2>2. Kept'
        <3>1. SUFFICES ASSUME NEW w \in acknowledged, w.file.save \notin unsynced
                       PROVE  \E h \in durable' : h.path = w.file.path
            BY <1>1 DEF Kept
        <3>2. PICK g \in durable : g.path = w.file.path
            BY <3>1 DEF IInv, Kept
        <3> QED
            BY <1>7, <3>2
    <2> QED
        BY <2>1, <2>2
<1>10. Undamaged'
    BY <1>1, <1>2, <1>3 DEF IInv, Undamaged
<1> QED
    BY <1>6, <1>8, <1>9, <1>10 DEF IInv, OrderInv

LEMMA NextInv == IInv /\ [Next]_vars => IInv'
<1> SUFFICES ASSUME IInv, [Next]_vars
             PROVE  IInv'
    OBVIOUS
<1>1. TypeOK'
    BY NextTypeOK
<1>2. ASSUME NEW m \in Manager, Save(m) \/ Crash(m)
      PROVE  IInv'
    BY <1>1, <1>2, BeginSaveInv, ReplaceInv, GiveUpInv, ReturnInv DEF Save
<1>3. CASE PowerFailure
    BY <1>1, <1>3, PowerFailureInv
<1>4. ASSUME NEW f \in disk, NEW health \in Health \ {"good"}, Damage(f, health)
      PROVE  IInv'
    BY <1>1, <1>4, DamageInv
<1>5. CASE UNCHANGED vars
    BY <1>1, <1>5
    DEF vars, files, observed, IInv, UnderWay, Numbered, Unseen, OneName, Ordered, Visible,
        InPlace, Kept, Undamaged, Known, Present, Busy
<1> QED
    BY <1>2, <1>3, <1>4, <1>5 DEF Next

-----------------------------------------------------------------------------
(* Names, saves and files keep their types.                                *)
THEOREM TypeCorrect == Spec => []TypeOK
<1>1. IInv => TypeOK
    BY DEF IInv
<1> QED
    BY <1>1, InitInv, NextInv, PTL DEF Spec

(* What a restart loads was never already there when a save began that has  *)
(* since returned and whose file is neither unsynced nor damaged.          *)
THEOREM LatestAlwaysSupersedes == Spec => []LatestSupersedes
<1>1. IInv => LatestSupersedes
    <2> SUFFICES ASSUME IInv, NEW w \in Trusted, NEW f \in Latest, f.save \in w.over
                 PROVE  FALSE
        BY DEF LatestSupersedes
    <2>1. PICK g \in disk : g.path = w.file.path
        BY DEF IInv, Kept, Visible, Trusted
    <2>2. g.health = "good"
        BY <2>1 DEF IInv, Undamaged, Trusted, Present
    <2>3. f.path.seq < g.path.seq
        BY <2>1 DEF IInv, Ordered, Trusted, Known, Latest, Present
    <2> QED
        BY <2>2, <2>3 DEF Latest, Precedes
<1> QED
    BY <1>1, InitInv, NextInv, PTL DEF Spec

-----------------------------------------------------------------------------
(* A directory is a finite set of files with a name each, so the order of   *)
(* the names has a last one in every nonempty part of it.                  *)
Directory(D) == IsFiniteSet(D) /\ \A f, g \in D : f.path = g.path => f = g

DInv == Directory(disk) /\ Directory(durable)

LEMMA LeastNatural ==
    ASSUME NEW T \in SUBSET Nat, T # {}
    PROVE  \E x \in T : \A y \in T : x <= y
<1> DEFINE R == OpToRel(<, Nat)
<1>1. PICK x \in T : \A y \in T : ~(<<y, x>> \in R)
    <2>1. IsWellFoundedOn(R, Nat)
        BY NatLessThanWellFounded
    <2> HIDE DEF R
    <2> QED
        BY <2>1, WFMin
<1>2. \A y \in T : ~(y < x)
    <2> SUFFICES ASSUME NEW y \in T, y < x
                 PROVE  FALSE
        OBVIOUS
    <2>1. <<y, x>> \in R
        BY DEF OpToRel
    <2> QED
        BY <1>1, <2>1
<1> QED
    BY <1>2

(* Of finitely many files one has no newer name: the one with the fewest    *)
(* newer ones, for a newer one would have fewer.                           *)
LEMMA NewestExists ==
    ASSUME NEW G \in SUBSET Files, IsFiniteSet(G), G # {}
    PROVE  \E f \in G : \A g \in G : ~Precedes(f, g)
<1> DEFINE newer(f) == {g \in G : Precedes(f, g)}
           T == {Cardinality(newer(f)) : f \in G}
<1>1. \A f \in G : IsFiniteSet(newer(f)) /\ Cardinality(newer(f)) \in Nat
    BY FS_Subset, FS_CardinalityType
<1>2. T \in SUBSET Nat /\ T # {}
    BY <1>1
<1>3. PICK x \in T : \A y \in T : x <= y
    <2> HIDE DEF T
    <2> QED
        BY <1>2, LeastNatural
<1>4. PICK f \in G : x = Cardinality(newer(f))
    OBVIOUS
<1> SUFFICES ASSUME NEW g \in G, Precedes(f, g)
             PROVE  FALSE
    OBVIOUS
<1>5. newer(g) \subseteq newer(f) /\ g \in newer(f) /\ g \notin newer(g)
    <2>1. \A h \in G : h.path.seq \in Nat /\ h.path.name \in Nat
        BY StoreAssumption DEF Files, Paths
    <2>2. \A h \in G : Precedes(g, h) => Precedes(f, h)
        BY <2>1 DEF Precedes
    <2>3. ~Precedes(g, g)
        BY <2>1 DEF Precedes
    <2> QED
        BY <2>2, <2>3
<1>6. /\ Cardinality(newer(g)) <= Cardinality(newer(f))
      /\ Cardinality(newer(g)) # Cardinality(newer(f))
    <2> HIDE DEF newer
    <2> QED
        BY <1>1, <1>5, FS_Subset
<1>7. Cardinality(newer(f)) <= Cardinality(newer(g))
    BY <1>3, <1>4
<1> QED
    <2> HIDE DEF newer
    <2> QED
        BY <1>1, <1>6, <1>7

LEMMA DInvInit == Init => DInv
BY FS_EmptySet DEF Init, DInv, Directory

LEMMA DInvNext == IInv /\ DInv /\ [Next]_vars => DInv'
<1> SUFFICES ASSUME IInv, DInv, [Next]_vars
             PROVE  DInv'
    OBVIOUS
<1> USE DEF files, observed
<1>1. ASSUME NEW m \in Manager, Replace(m) PROVE DInv'
    <2> DEFINE D == {f \in disk : f.path # writing[m].file.path}
    <2>1. IsFiniteSet(D)
        BY FS_Subset DEF DInv, Directory
    <2>2. disk' = D \cup {writing[m].file} /\ durable' = durable
        BY <1>1 DEF Replace
    <2>3. IsFiniteSet(disk')
        <3> HIDE DEF D
        <3> QED
            BY <2>1, <2>2, FS_AddElement
    <2>4. \A f, g \in disk' : f.path = g.path => f = g
        BY <2>2 DEF DInv, Directory
    <2> QED
        BY <2>2, <2>3, <2>4 DEF DInv, Directory
<1>2. ASSUME NEW m \in Manager, Save(m) \/ Crash(m), ~Replace(m) PROVE DInv'
    <2>1. disk' = disk
        BY <1>2 DEF Save, BeginSave, FailBeforeReplace, SyncDirectory, SkipSync, FailSync, Crash,
           Acknowledge
    <2>2. durable' \in {durable, disk}
        BY <1>2 DEF Save, BeginSave, FailBeforeReplace, SyncDirectory, SkipSync, FailSync, Crash
    <2> QED
        BY <2>1, <2>2 DEF DInv, Directory
<1>3. CASE PowerFailure
    <2>1. PICK D \in SUBSET (disk \cup durable) : Survivors(D) /\ disk' = D /\ durable' = D
        BY <1>3 DEF PowerFailure
    <2>2. IsFiniteSet(disk \cup durable)
        BY FS_Union DEF DInv, Directory
    <2>3. IsFiniteSet(D)
        BY <2>2, FS_Subset
    <2> QED
        BY <2>1, <2>3 DEF DInv, Directory, Survivors
<1>4. ASSUME NEW f \in disk, NEW health \in Health \ {"good"}, Damage(f, health) PROVE DInv'
    <2> DEFINE bad == [f EXCEPT !.health = health]
               spoil(S) == {IF g = f THEN bad ELSE g : g \in S}
    <2>1. disk' = spoil(disk) /\ durable' = spoil(durable)
        BY <1>4 DEF Damage
    <2>2. bad.path = f.path
        BY DEF IInv, TypeOK, Files
    <2> HIDE DEF bad
    <2>3. ASSUME NEW D, Directory(D) PROVE Directory(spoil(D))
        <3>1. IsFiniteSet(D \cup {bad})
            BY <2>3, FS_AddElement DEF Directory
        <3>2. IsFiniteSet(spoil(D))
            <4>1. spoil(D) \in SUBSET (D \cup {bad})
                OBVIOUS
            <4> HIDE DEF spoil
            <4> QED
                BY <3>1, <4>1, FS_Subset
        <3>3. \A g, h \in spoil(D) : g.path = h.path => g = h
            BY <2>2, <2>3 DEF Directory
        <3> QED
            BY <3>2, <3>3 DEF Directory
    <2> QED
        BY <2>1, <2>3 DEF DInv
<1>5. CASE UNCHANGED vars
    BY <1>5 DEF vars, DInv, Directory
<1> QED
    BY <1>1, <1>2, <1>3, <1>4, <1>5 DEF Next

LEMMA DirectoryInvariant == Spec => [](IInv /\ DInv)
<1>1. Init => IInv /\ DInv
    BY InitInv, DInvInit
<1>2. (IInv /\ DInv) /\ [Next]_vars => (IInv /\ DInv)'
    BY NextInv, DInvNext
<1> QED
    BY <1>1, <1>2, PTL DEF Spec

OnlyOurVersion == \A f \in disk : f.health # "version"

(* Below the newest readable file lie files that it may pass over, and      *)
(* above it only files that fail their checksum.                           *)
LEMMA NewestReadableIsLatest == IInv /\ DInv /\ OnlyOurVersion => CorruptNewestIsSkipped
<1> SUFFICES ASSUME IInv, DInv, OnlyOurVersion, \E f \in disk : f.health = "good"
             PROVE  Latest # {}
    BY DEF CorruptNewestIsSkipped
<1> DEFINE G == {f \in disk : f.health = "good"}
<1>1. G # {} /\ G \in SUBSET Files /\ IsFiniteSet(G)
    BY FS_Subset DEF IInv, TypeOK, DInv, Directory
<1>2. PICK f \in G : \A g \in G : ~Precedes(f, g)
    <2> HIDE DEF G
    <2> QED
        BY <1>1, NewestExists
<1>3. \A g \in disk : g.health \in {"good", "corrupt"}
    BY DEF IInv, TypeOK, Files, Health, OnlyOurVersion
<1> QED
    BY <1>2, <1>3 DEF Latest

(* A damaged newest checkpoint is skipped and a readable one found, as      *)
(* system_overview.md says, unless a file claims another version: the run   *)
(* that refutes CorruptNewestIsSkipped needs one.                           *)
THEOREM CorruptNewestSkippedOfOurVersion ==
    Spec => [](OnlyOurVersion => CorruptNewestIsSkipped)
<1>1. IInv /\ DInv => (OnlyOurVersion => CorruptNewestIsSkipped)
    BY NewestReadableIsLatest
<1> QED
    BY <1>1, DirectoryInvariant, PTL

(* A save that returned left a file that reads well, and so one to load.    *)
THEOREM AcknowledgedAlwaysLoadable == Spec => []AcknowledgedIsLoadable
<1>1. IInv /\ DInv => AcknowledgedIsLoadable
    <2> SUFFICES ASSUME IInv, DInv, NEW w \in Trusted, OnlyOurVersion
                 PROVE  Latest # {}
        BY DEF AcknowledgedIsLoadable, OnlyOurVersion
    <2>1. PICK g \in disk : g.path = w.file.path
        BY DEF IInv, Kept, Visible, Trusted
    <2>2. g.health = "good"
        BY <2>1 DEF IInv, Undamaged, Trusted, Present
    <2> QED
        BY <2>2, NewestReadableIsLatest DEF CorruptNewestIsSkipped
<1> QED
    BY <1>1, DirectoryInvariant, PTL

(* load_latest_valid has at most one file to return, whatever saves raced   *)
(* and whatever a power failure brought back.                              *)
THEOREM AtMostOneLatest == Spec => [](\A f, g \in Latest : f = g)
<1>1. IInv /\ DInv => \A f, g \in Latest : f = g
    <2> SUFFICES ASSUME IInv, DInv, NEW f \in Latest, NEW g \in Latest
                 PROVE  f = g
        OBVIOUS
    <2>1. f \in disk /\ g \in disk /\ f \in Files /\ g \in Files
        BY DEF Latest, IInv, TypeOK
    <2>2. ~Precedes(f, g) /\ ~Precedes(g, f)
        BY DEF Latest
    <2>3. f.path.seq = g.path.seq /\ f.path.name = g.path.name
        <3>1. /\ f.path.seq \in Nat /\ f.path.name \in Nat
              /\ g.path.seq \in Nat /\ g.path.name \in Nat
            BY <2>1, StoreAssumption DEF Files, Paths
        <3> QED
            BY <2>2, <3>1 DEF Precedes
    <2>4. f.path = g.path
        BY <2>1, <2>3 DEF Files, Paths
    <2> QED
        BY <2>1, <2>4 DEF DInv, Directory
<1> QED
    BY <1>1, DirectoryInvariant, PTL

(* next_sequence always has an answer and only one, so a save is never held *)
(* up by the names it finds.                                               *)
THEOREM OneNextSequence == Spec => [](\E n \in Nat \ {0} : NextSequences = {n})
<1>1. IInv /\ DInv => \E n \in Nat \ {0} : NextSequences = {n}
    <2> SUFFICES ASSUME IInv, DInv
                 PROVE  \E n \in Nat \ {0} : NextSequences = {n}
        OBVIOUS
    <2>0. \A f \in disk : f \in Files /\ f.path.seq \in Nat \ {0}
        BY DEF IInv, TypeOK, Files, Paths
    <2>1. CASE disk = {}
        BY <2>1 DEF NextSequences
    <2>2. CASE disk # {}
        <3>1. PICK f \in disk : \A g \in disk : ~Precedes(f, g)
            BY <2>2, NewestExists DEF IInv, TypeOK, DInv, Directory
        <3>2. \A g \in disk : g.path.seq <= f.path.seq
            BY <2>0, <3>1 DEF Precedes
        <3>3. NextSequences = {f.path.seq + 1}
            BY <2>0, <3>2 DEF NextSequences
        <3> QED
            BY <2>0, <3>3
    <2> QED
        BY <2>1, <2>2
<1> QED
    BY <1>1, DirectoryInvariant, PTL
=============================================================================

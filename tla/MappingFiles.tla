------------------------------ MODULE MappingFiles ------------------------------
(***************************************************************************)
(* app/normalization/mapping_store.py, at the granularity of the file      *)
(* system: save writes a temporary file, forces it to disk and renames it  *)
(* over {case_id}.json; initialize saves the predefined mappings one by    *)
(* one and then loads, one by one, the files it listed.  Processes run     *)
(* side by side on one directory, any of them may be killed between two    *)
(* calls, and the machine may lose power.                                  *)
(*                                                                         *)
(* A temporary file is seen by the process that writes it only (the name   *)
(* is random and *.json does not match it), so it is part of the task of   *)
(* that process.  A file that was opened keeps its content when another is *)
(* renamed over it, so a task that reads carries the content from open on. *)
(***************************************************************************)
EXTENDS Deployment, Naturals

CONSTANTS
    Mappings,      \* values a RuntimeMapping can have
    Predefined,    \* mappings shipped in config/mappings/predefined, by case id
    InitialDisks,  \* contents the generated directory may have at first
    Torn,          \* a file that does not hold a whole mapping
    MaxKills,      \* bound on processes that are killed or fail to save
    MaxOutages     \* bound on power failures

Contents == Mappings \cup {Torn}
Entries == Contents \cup {Null}

ASSUME FilesAssumption ==
    /\ DOMAIN Predefined \subseteq Cases
    /\ \A c \in DOMAIN Predefined : Predefined[c] \in Mappings
    /\ Null \notin Contents
    /\ Torn \notin Mappings
    /\ Null \notin Cases
    /\ InitialDisks \subseteq [Cases -> Mappings \cup {Null}]
    /\ MaxKills \in Nat
    /\ MaxOutages \in Nat

VARIABLES
    file,     \* what generated/{case_id}.json holds, Null when there is none
    durable,  \* what it may hold after a power failure
    cache,    \* _mappings_by_case_id of each process
    phase,    \* how far each process is in initialize
    left,     \* the cases initialize has still to save, then to load
    task,     \* the save or load each process is in the middle of
    kills, outages

processVars == <<cache, phase, left, task>>
vars == <<file, durable, processVars, kills, outages>>

Steps == {"created", "written", "synced", "replaced", "opened"}
Idle == [step |-> "none", case |-> Null, data |-> Null]
Tasks == {Idle} \cup [step : Steps, case : Cases, data : Contents]

NoMappings == [c \in Cases |-> Null]

TypeOK ==
    /\ file \in [Cases -> Entries]
    /\ durable \in [Cases -> SUBSET Entries]
    /\ cache \in [Workers -> [Cases -> Mappings \cup {Null}]]
    /\ phase \in [Workers -> {"down", "saving", "loading", "ready"}]
    /\ left \in [Workers -> SUBSET Cases]
    /\ task \in [Workers -> Tasks]
    /\ kills \in 0..MaxKills
    /\ outages \in 0..MaxOutages

Init ==
    /\ file \in InitialDisks
    /\ durable = [c \in Cases |-> {file[c]}]
    /\ cache = [w \in Workers |-> NoMappings]
    /\ phase = [w \in Workers |-> "down"]
    /\ left = [w \in Workers |-> {}]
    /\ task = [w \in Workers |-> Idle]
    /\ kills = 0
    /\ outages = 0

IsIdle(w) == task[w] = Idle

At(w, step) == task[w].step = step

Take(w, step, c, m) == task' = [task EXCEPT ![w] = [step |-> step, case |-> c, data |-> m]]

Advance(w, step) == task' = [task EXCEPT ![w].step = step]

Finish(w) == task' = [task EXCEPT ![w] = Idle]

\* The mapping of w's task enters its memory.
CacheTask(w) == cache' = [cache EXCEPT ![w][task[w].case] = task[w].data]

filesUnchanged == UNCHANGED <<file, durable, kills, outages>>

--------------------------------------------------------------------------------
(***************************************************************************)
(* save, called by initialize and by the drift consumer.                   *)
(***************************************************************************)
WriteTemporary(w) ==
    /\ At(w, "created")
    /\ Advance(w, "written")
    /\ UNCHANGED <<cache, phase, left>>
    /\ filesUnchanged

\* Mutant: the memory is updated before the file is renamed.
SyncAndRemember(w) ==
    /\ At(w, "written")
    /\ CacheTask(w)
    /\ Advance(w, "synced")
    /\ UNCHANGED <<phase, left>>
    /\ filesUnchanged

SyncTemporary(w) ==
    /\ At(w, "written")
    /\ Advance(w, "synced")
    /\ UNCHANGED <<cache, phase, left>>
    /\ filesUnchanged

\* What the file may hold after a power failure, once it has its final name.
Surviving(t) == IF t.step = "synced" THEN {t.data} ELSE {t.data, Torn}

\* Mutant: the file is renamed without the fsync.
ReplaceUnsynced(w) ==
    /\ At(w, "written") \/ At(w, "synced")
    /\ file' = [file EXCEPT ![task[w].case] = task[w].data]
    /\ durable' = [durable EXCEPT ![task[w].case] = @ \cup Surviving(task[w])]
    /\ Advance(w, "replaced")
    /\ UNCHANGED <<cache, phase, left, kills, outages>>

\* os.replace: in one step for every reader; after a power failure the old
\* entry may be back.
Replace(w) ==
    /\ At(w, "synced")
    /\ file' = [file EXCEPT ![task[w].case] = task[w].data]
    /\ durable' = [durable EXCEPT ![task[w].case] = @ \cup Surviving(task[w])]
    /\ Advance(w, "replaced")
    /\ UNCHANGED <<cache, phase, left, kills, outages>>

Remember(w) ==
    /\ At(w, "replaced")
    /\ CacheTask(w)
    /\ Finish(w)
    /\ UNCHANGED <<phase, left>>
    /\ filesUnchanged

--------------------------------------------------------------------------------
(***************************************************************************)
(* initialize.                                                             *)
(***************************************************************************)
Begin(w) ==
    /\ phase[w] = "down"
    /\ phase' = [phase EXCEPT ![w] = "saving"]
    /\ left' = [left EXCEPT ![w] = DOMAIN Predefined]
    /\ cache' = [cache EXCEPT ![w] = NoMappings]
    /\ UNCHANGED task
    /\ filesUnchanged

SavePredefined(w) == \E c \in left[w] :
    /\ phase[w] = "saving"
    /\ IsIdle(w)
    /\ Take(w, "created", c, Predefined[c])
    /\ left' = [left EXCEPT ![w] = @ \ {c}]
    /\ UNCHANGED <<cache, phase>>
    /\ filesUnchanged

\* Mutant: the files are listed before the predefined mappings are saved.
ListFilesEarly(w) ==
    /\ phase[w] = "saving"
    /\ IsIdle(w)
    /\ phase' = [phase EXCEPT ![w] = "loading"]
    /\ left' = [left EXCEPT ![w] = {c \in Cases : file[c] # Null}]
    /\ UNCHANGED <<cache, task>>
    /\ filesUnchanged

\* generated_directory.glob
ListFiles(w) ==
    /\ phase[w] = "saving"
    /\ IsIdle(w)
    /\ left[w] = {}
    /\ phase' = [phase EXCEPT ![w] = "loading"]
    /\ left' = [left EXCEPT ![w] = {c \in Cases : file[c] # Null}]
    /\ UNCHANGED <<cache, task>>
    /\ filesUnchanged

\* _load_generated_file opens the next file of the list.  No code deletes a
\* file, so the one listed is there.
OpenListed(w) == \E c \in left[w] :
    /\ phase[w] = "loading"
    /\ IsIdle(w)
    /\ Take(w, "opened", c, file[c])
    /\ left' = [left EXCEPT ![w] = @ \ {c}]
    /\ UNCHANGED <<cache, phase>>
    /\ filesUnchanged

Started(w) ==
    /\ phase[w] = "loading"
    /\ IsIdle(w)
    /\ left[w] = {}
    /\ phase' = [phase EXCEPT ![w] = "ready"]
    /\ UNCHANGED <<cache, left, task>>
    /\ filesUnchanged

--------------------------------------------------------------------------------
(***************************************************************************)
(* get and save in a running consumer.  A get that finds the mapping in    *)
(* memory, or no file, changes nothing.                                    *)
(***************************************************************************)
OpenMissing(w) == \E c \in Cases :
    /\ phase[w] = "ready"
    /\ IsIdle(w)
    /\ cache[w][c] = Null
    /\ file[c] # Null
    /\ Take(w, "opened", c, file[c])
    /\ UNCHANGED <<cache, phase, left>>
    /\ filesUnchanged

\* The file is parsed and cached.
Load(w) ==
    /\ At(w, "opened")
    /\ task[w].data # Torn
    /\ CacheTask(w)
    /\ Finish(w)
    /\ UNCHANGED <<phase, left>>
    /\ filesUnchanged

\* The drift consumer saves what the AI proposed; its get found no mapping, and
\* since then another consumer may have saved one.
SaveGenerated(w) == \E c \in Cases \ DOMAIN Predefined, m \in Mappings :
    /\ w \in DriftWorkers
    /\ phase[w] = "ready"
    /\ IsIdle(w)
    /\ cache[w][c] = Null
    /\ Take(w, "created", c, m)
    /\ UNCHANGED <<cache, phase, left>>
    /\ filesUnchanged

--------------------------------------------------------------------------------
(***************************************************************************)
(* What goes wrong.                                                        *)
(***************************************************************************)
\* Killed, or ended by MappingStoreError: the temporary file is left behind or
\* removed, which no process can tell.
Stop(w) ==
    /\ phase[w] # "down"
    /\ kills < MaxKills
    /\ kills' = kills + 1
    /\ phase' = [phase EXCEPT ![w] = "down"]
    /\ left' = [left EXCEPT ![w] = {}]
    /\ task' = [task EXCEPT ![w] = Idle]
    /\ cache' = [cache EXCEPT ![w] = NoMappings]
    /\ UNCHANGED <<file, durable, outages>>

\* The operating system writes a directory entry back.
WriteBack(c) ==
    /\ durable' = [durable EXCEPT ![c] = {file[c]}]
    /\ UNCHANGED <<file, processVars, kills, outages>>

\* Every process ends; each name holds one of the contents it may have.
PowerFailure ==
    /\ outages < MaxOutages
    /\ outages' = outages + 1
    /\ file' \in [Cases -> UNION {durable[c] : c \in Cases}]
    /\ \A c \in Cases : file'[c] \in durable[c]
    /\ durable' = [c \in Cases |-> {file'[c]}]
    /\ cache' = [w \in Workers |-> NoMappings]
    /\ phase' = [w \in Workers |-> "down"]
    /\ left' = [w \in Workers |-> {}]
    /\ task' = [w \in Workers |-> Idle]
    /\ UNCHANGED kills

--------------------------------------------------------------------------------
Initializing(w) ==
    Begin(w) \/ SavePredefined(w) \/ ListFiles(w) \/ OpenListed(w) \/ Started(w)

Saving(w) ==
    WriteTemporary(w) \/ SyncTemporary(w) \/ Replace(w) \/ Remember(w)

Using(w) == OpenMissing(w) \/ Load(w) \/ SaveGenerated(w)

Next ==
    \/ \E w \in Workers : Initializing(w) \/ Saving(w) \/ Using(w) \/ Stop(w)
    \/ \E c \in Cases : WriteBack(c)
    \/ PowerFailure

Spec == Init /\ [][Next]_vars

--------------------------------------------------------------------------------
\* No file is ever found torn, also after a power failure at any point of a
\* save: a torn file would end every later start in MappingStoreError.
FilesAreWhole == \A c \in Cases : file[c] # Torn

\* A process that finished initialize works with the predefined mapping of each
\* case that has one, although other processes save and load at the same time
\* and the directory held other files before.
PredefinedLoaded ==
    \A w \in Workers, c \in DOMAIN Predefined :
        phase[w] = "ready" => cache[w][c] = Predefined[c]

\* Nothing torn has a name, or is on its way to one or into a memory.
NothingTorn ==
    /\ \A c \in Cases : file[c] \in durable[c] /\ Torn \notin durable[c]
    /\ \A w \in Workers : task[w].data # Torn

\* A process that is down does nothing and remembers nothing.
DownIsEmpty ==
    \A w \in Workers : phase[w] = "down" => IsIdle(w) /\ cache[w] = NoMappings

\* Only the predefined mapping of a case is ever saved, or read back, for it.
PredefinedTasks ==
    \A w \in Workers : task[w].case \in DOMAIN Predefined =>
        task[w].data = Predefined[task[w].case]

\* w has saved the predefined mapping of c: no later save of anyone undoes it.
InPlace(w, c) == cache[w][c] = Predefined[c] /\ file[c] = Predefined[c]

PredefinedProgress ==
    \A w \in Workers, c \in DOMAIN Predefined :
        /\ phase[w] = "saving" => c \in left[w] \/ task[w].case = c \/ InPlace(w, c)
        /\ At(w, "replaced") /\ task[w].case = c => file[c] = Predefined[c]
        /\ phase[w] \in {"loading", "ready"} => InPlace(w, c)

\* initialize loads only after it has saved, each case once; what it finds in
\* memory by then are the predefined mappings.
LoadsAreNew ==
    \A w \in Workers :
        /\ phase[w] = "saving" => ~ At(w, "opened")
        /\ \A c \in Cases \ DOMAIN Predefined :
               /\ phase[w] = "saving" => task[w].case # c /\ cache[w][c] = Null
               /\ phase[w] = "loading" /\ c \in left[w] =>
                      task[w].case # c /\ cache[w][c] = Null

\* What initialize has left to save is predefined, what it has left to load is
\* there: no code deletes a file.
LeftIsThere ==
    \A w \in Workers :
        /\ phase[w] = "saving" => left[w] \subseteq DOMAIN Predefined
        /\ phase[w] = "loading" => \A c \in left[w] : file[c] # Null

\* The inductive invariant behind the properties above and StoreSpec: what is
\* renamed is whole, and what is predefined stays in place once it is.
FilesInv ==
    /\ TypeOK
    /\ NothingTorn
    /\ DownIsEmpty
    /\ PredefinedTasks
    /\ PredefinedProgress
    /\ LoadsAreNew
    /\ LeftIsThere

\* What each process answers from: a save counts from its rename on, a load from
\* when the file was opened.
remembered ==
    [w \in Workers |-> [c \in Cases |->
        IF (At(w, "replaced") \/ At(w, "opened")) /\ task[w].case = c
        THEN task[w].data
        ELSE cache[w][c]]]

Store == INSTANCE MappingStore WITH disk <- file, cache <- remembered

\* A power failure leaves nothing in any memory.
PowerCut == remembered' = [w \in Workers |-> NoMappings]

StoreStep ==
    \/ \E w \in Workers, c \in Cases : Store!Get(w, c)
    \/ \E w \in Workers, c \in Cases, m \in Mappings : Store!Save(w, c, m)
    \/ \E w \in Workers : Store!Forget(w)
    \/ PowerCut

\* However the steps of several processes mix, each save, load and restart is
\* one step of MappingStore: Save, Get or Forget.
StoreSpec == Store!StoreInit /\ [][StoreStep]_<<file, remembered>>

================================================================================

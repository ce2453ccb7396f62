------------------------------ MODULE FilesProofs ------------------------------
(***************************************************************************)
(* The inductive invariant of MappingFiles, and that its steps are those   *)
(* of MappingStore.                                                        *)
(***************************************************************************)
EXTENDS MappingFiles, TLAPS

(***************************************************************************)
(* Tasks: what the steps that start, advance and end one leave behind.     *)
(***************************************************************************)
\* A task is idle, or has its step, case and data.
LEMMA TaskFacts ==
    ASSUME TypeOK, NEW w \in Workers
    PROVE  \/ /\ task[w] = Idle
              /\ task[w].step = "none" /\ task[w].case = Null /\ task[w].data = Null
           \/ /\ task[w].step \in Steps
              /\ task[w].case \in Cases /\ task[w].data \in Contents
BY DEF TypeOK, Tasks, Idle

\* A new task, and no other changes.
LEMMA TakeFacts ==
    ASSUME TypeOK, NEW w \in Workers, NEW s \in Steps, NEW c \in Cases, NEW m \in Contents,
           Take(w, s, c, m)
    PROVE  /\ task' \in [Workers -> Tasks]
           /\ task'[w].step = s /\ task'[w].case = c /\ task'[w].data = m
           /\ \A v \in Workers \ {w} : task'[v] = task[v]
<1>1. [step |-> s, case |-> c, data |-> m] \in Tasks
  BY DEF Tasks
<1>2. QED
  BY <1>1 DEF Take, TypeOK

\* The next step of a save has the same case and mapping.
LEMMA AdvanceFacts ==
    ASSUME TypeOK, NEW w \in Workers, ~ IsIdle(w), NEW s \in Steps, Advance(w, s)
    PROVE  /\ task' \in [Workers -> Tasks]
           /\ task'[w].step = s
           /\ task'[w].case = task[w].case
           /\ task'[w].data = task[w].data
           /\ \A v \in Workers \ {w} : task'[v] = task[v]
<1>1. task[w] \in [step : Steps, case : Cases, data : Contents]
  BY DEF TypeOK, Tasks, IsIdle
<1>2. [task[w] EXCEPT !.step = s] \in [step : Steps, case : Cases, data : Contents]
  BY <1>1
<1>3. task' = [task EXCEPT ![w] = [task[w] EXCEPT !.step = s]]
  BY DEF Advance
<1>4. task'[w] = [task[w] EXCEPT !.step = s]
  BY <1>3 DEF TypeOK
<1>5. task' \in [Workers -> Tasks] /\ \A v \in Workers \ {w} : task'[v] = task[v]
  BY <1>2, <1>3 DEF TypeOK, Tasks
<1>6. QED
  BY <1>1, <1>4, <1>5

\* A task that ends leaves the process idle.
LEMMA FinishFacts ==
    ASSUME TypeOK, NEW w \in Workers, Finish(w)
    PROVE  /\ task' \in [Workers -> Tasks]
           /\ task'[w] = Idle
           /\ \A v \in Workers \ {w} : task'[v] = task[v]
BY DEF Finish, TypeOK, Tasks

--------------------------------------------------------------------------------
(***************************************************************************)
(* Each step preserves FilesInv: one step below per conjunct.              *)
(***************************************************************************)
\* The steps before the rename touch nothing that another process sees.
LEMMA WriteTemporaryKeeps ==
    ASSUME FilesInv, NEW w \in Workers, WriteTemporary(w)
    PROVE  FilesInv'
<1> USE FilesAssumption DEF FilesInv, WriteTemporary, filesUnchanged
<1>1. /\ task[w].step = "created"
      /\ task[w].case \in Cases /\ task[w].data \in Mappings /\ ~ IsIdle(w)
  BY TaskFacts DEF At, IsIdle, Idle, Steps, NothingTorn, Contents
<1>2. /\ task' \in [Workers -> Tasks]
      /\ \A v \in Workers \ {w} : task'[v] = task[v]
      /\ task'[w].step = "written"
      /\ task'[w].case = task[w].case /\ task'[w].data = task[w].data
  BY <1>1, AdvanceFacts DEF Steps
<1>3. TypeOK'
  BY <1>1, <1>2 DEF TypeOK, Entries, Contents, NoMappings
<1>4. NothingTorn'
  BY <1>1, <1>2 DEF NothingTorn, TypeOK, Contents
<1>5. DownIsEmpty'
  BY <1>1, <1>2 DEF DownIsEmpty, TypeOK, IsIdle, NoMappings
<1>6. PredefinedTasks'
  <2>1. \A v \in Workers : task'[v].case = task[v].case /\ task'[v].data = task[v].data
    BY <1>2
  <2>2. QED
    BY <2>1 DEF PredefinedTasks
<1>7. PredefinedProgress'
  BY <1>1, <1>2 DEF PredefinedTasks, PredefinedProgress, LoadsAreNew,
         DownIsEmpty, InPlace, TypeOK, At
<1>8. LoadsAreNew'
  <2>1. \A v \in Workers : task'[v].case = task[v].case /\ (At(v, "opened")' => At(v, "opened"))
    BY <1>2 DEF At
  <2>2. QED
    BY <2>1 DEF LoadsAreNew
<1>9. LeftIsThere'
  BY <1>1, <1>2 DEF LeftIsThere, TypeOK
<1>10. QED
  BY <1>3, <1>4, <1>5, <1>6, <1>7, <1>8, <1>9

\* The same, for the fsync: from here on the content survives.
LEMMA SyncTemporaryKeeps ==
    ASSUME FilesInv, NEW w \in Workers, SyncTemporary(w)
    PROVE  FilesInv'
<1> USE FilesAssumption DEF FilesInv, SyncTemporary, filesUnchanged
<1>1. /\ task[w].step = "written"
      /\ task[w].case \in Cases /\ task[w].data \in Mappings /\ ~ IsIdle(w)
  BY TaskFacts DEF At, IsIdle, Idle, Steps, NothingTorn, Contents
<1>2. /\ task' \in [Workers -> Tasks]
      /\ \A v \in Workers \ {w} : task'[v] = task[v]
      /\ task'[w].step = "synced"
      /\ task'[w].case = task[w].case /\ task'[w].data = task[w].data
  BY <1>1, AdvanceFacts DEF Steps
<1>3. TypeOK'
  BY <1>1, <1>2 DEF TypeOK, Entries, Contents, NoMappings
<1>4. NothingTorn'
  BY <1>1, <1>2 DEF NothingTorn, TypeOK, Contents
<1>5. DownIsEmpty'
  BY <1>1, <1>2 DEF DownIsEmpty, TypeOK, IsIdle, NoMappings
<1>6. PredefinedTasks'
  <2>1. \A v \in Workers : task'[v].case = task[v].case /\ task'[v].data = task[v].data
    BY <1>2
  <2>2. QED
    BY <2>1 DEF PredefinedTasks
<1>7. PredefinedProgress'
  BY <1>1, <1>2 DEF PredefinedTasks, PredefinedProgress, LoadsAreNew,
         DownIsEmpty, InPlace, TypeOK, At
<1>8. LoadsAreNew'
  <2>1. \A v \in Workers : task'[v].case = task[v].case /\ (At(v, "opened")' => At(v, "opened"))
    BY <1>2 DEF At
  <2>2. QED
    BY <2>1 DEF LoadsAreNew
<1>9. LeftIsThere'
  BY <1>1, <1>2 DEF LeftIsThere, TypeOK
<1>10. QED
  BY <1>3, <1>4, <1>5, <1>6, <1>7, <1>8, <1>9

\* The rename gives a name to a whole file; for a predefined case, to its mapping.
LEMMA ReplaceKeeps ==
    ASSUME FilesInv, NEW w \in Workers, Replace(w)
    PROVE  FilesInv'
<1> USE FilesAssumption DEF FilesInv, Replace, Surviving, filesUnchanged
<1>1. /\ task[w].step = "synced"
      /\ task[w].case \in Cases /\ task[w].data \in Mappings /\ ~ IsIdle(w)
  BY TaskFacts DEF At, IsIdle, Idle, Steps, NothingTorn, Contents
<1>2. /\ task' \in [Workers -> Tasks]
      /\ \A v \in Workers \ {w} : task'[v] = task[v]
      /\ task'[w].step = "replaced"
      /\ task'[w].case = task[w].case /\ task'[w].data = task[w].data
  BY <1>1, AdvanceFacts DEF Steps
<1>3. TypeOK'
  BY <1>1, <1>2 DEF TypeOK, Entries, Contents, NoMappings
<1>4. NothingTorn'
  BY <1>1, <1>2 DEF NothingTorn, TypeOK, Contents
<1>5. DownIsEmpty'
  BY <1>1, <1>2 DEF DownIsEmpty, TypeOK, IsIdle, NoMappings
<1>6. PredefinedTasks'
  <2>1. \A v \in Workers : task'[v].case = task[v].case /\ task'[v].data = task[v].data
    BY <1>2
  <2>2. QED
    BY <2>1 DEF PredefinedTasks
<1>7. PredefinedProgress'
  <2> SUFFICES ASSUME NEW v \in Workers, NEW c \in DOMAIN Predefined
               PROVE  /\ phase'[v] = "saving" =>
                             c \in left'[v] \/ task'[v].case = c \/ InPlace(v, c)'
                      /\ At(v, "replaced")' /\ task'[v].case = c => file'[c] = Predefined[c]
                      /\ phase'[v] \in {"loading", "ready"} => InPlace(v, c)'
    BY DEF PredefinedProgress
  <2>1. c \in Cases /\ (task[w].case = c => task[w].data = Predefined[c])
    BY DEF PredefinedTasks
  <2>2. file'[c] = IF task[w].case = c THEN Predefined[c] ELSE file[c]
    BY <1>1, <2>1 DEF TypeOK
  <2>3. InPlace(v, c) => InPlace(v, c)'
    BY <2>2 DEF InPlace
  <2>4. task'[v].case = task[v].case
    BY <1>2
  <2>5. CASE v = w
    BY <1>2, <2>2, <2>3, <2>4, <2>5 DEF PredefinedProgress, At
  <2>6. CASE v # w
    BY <1>2, <2>2, <2>3, <2>4, <2>6 DEF PredefinedProgress, At
  <2>7. QED
    BY <2>5, <2>6
<1>8. LoadsAreNew'
  <2>1. \A v \in Workers : task'[v].case = task[v].case /\ (At(v, "opened")' => At(v, "opened"))
    BY <1>2 DEF At
  <2>2. QED
    BY <2>1 DEF LoadsAreNew
<1>9. LeftIsThere'
  BY <1>1, <1>2 DEF LeftIsThere, TypeOK, Contents
<1>10. QED
  BY <1>3, <1>4, <1>5, <1>6, <1>7, <1>8, <1>9

\* The mapping saved enters the memory of its process.
LEMMA RememberKeeps ==
    ASSUME FilesInv, NEW w \in Workers, Remember(w)
    PROVE  FilesInv'
<1> USE FilesAssumption DEF FilesInv, Remember, CacheTask, filesUnchanged
<1>1. /\ task[w].step = "replaced"
      /\ task[w].case \in Cases /\ task[w].data \in Mappings /\ ~ IsIdle(w)
  BY TaskFacts DEF At, IsIdle, Idle, Steps, NothingTorn, Contents
<1>2. /\ task' \in [Workers -> Tasks]
      /\ \A v \in Workers \ {w} : task'[v] = task[v]
      /\ task'[w] = Idle
      /\ task'[w].step = "none" /\ task'[w].case = Null /\ task'[w].data = Null
  BY <1>1, FinishFacts DEF Idle
<1>3. TypeOK'
  BY <1>1, <1>2 DEF TypeOK, Entries, Contents, NoMappings
<1>4. NothingTorn'
  BY <1>1, <1>2 DEF NothingTorn, TypeOK, Contents
<1>5. DownIsEmpty'
  BY <1>1, <1>2 DEF DownIsEmpty, TypeOK, IsIdle, NoMappings
<1>6. PredefinedTasks'
  BY <1>1, <1>2 DEF PredefinedTasks, PredefinedProgress, InPlace, TypeOK
<1>7. PredefinedProgress'
  BY <1>1, <1>2 DEF PredefinedTasks, PredefinedProgress, LoadsAreNew,
         DownIsEmpty, InPlace, TypeOK, At
<1>8. LoadsAreNew'
  BY <1>1, <1>2 DEF LoadsAreNew, DownIsEmpty, TypeOK, NoMappings, At
<1>9. LeftIsThere'
  BY <1>1, <1>2 DEF LeftIsThere, TypeOK
<1>10. QED
  BY <1>3, <1>4, <1>5, <1>6, <1>7, <1>8, <1>9

\* A process that starts has nothing in place yet.
LEMMA BeginKeeps ==
    ASSUME FilesInv, NEW w \in Workers, Begin(w)
    PROVE  FilesInv'
<1> USE FilesAssumption DEF FilesInv, Begin, filesUnchanged, Take,
            IsIdle, Tasks, Idle, Steps, Contents
<1>1. TypeOK'
  BY DEF TypeOK, Entries, Contents, NoMappings
<1>2. NothingTorn'
  BY DEF NothingTorn, TypeOK, Contents
<1>3. DownIsEmpty'
  BY DEF DownIsEmpty, TypeOK, IsIdle, NoMappings
<1>4. PredefinedTasks'
  BY DEF PredefinedTasks, PredefinedProgress, InPlace, TypeOK
<1>5. PredefinedProgress'
  BY DEF PredefinedTasks, PredefinedProgress, LoadsAreNew,
         DownIsEmpty, InPlace, TypeOK, At
<1>6. LoadsAreNew'
  BY DEF LoadsAreNew, DownIsEmpty, TypeOK, NoMappings, At
<1>7. LeftIsThere'
  BY DEF LeftIsThere, TypeOK
<1>8. QED
  BY <1>1, <1>2, <1>3, <1>4, <1>5, <1>6, <1>7

\* The next predefined mapping is on its way to its file.
LEMMA SavePredefinedKeeps ==
    ASSUME FilesInv, NEW w \in Workers, SavePredefined(w)
    PROVE  FilesInv'
<1> USE FilesAssumption DEF FilesInv, filesUnchanged
<1>1. PICK c \in left[w] :
         /\ phase[w] = "saving" /\ IsIdle(w)
         /\ Take(w, "created", c, Predefined[c])
         /\ left' = [left EXCEPT ![w] = @ \ {c}]
         /\ UNCHANGED <<cache, phase, file, durable, kills, outages>>
  BY DEF SavePredefined
<1>2. /\ task[w] = Idle /\ task[w].step = "none" /\ task[w].case = Null
      /\ c \in Cases /\ c \in DOMAIN Predefined /\ Predefined[c] \in Mappings
  BY <1>1 DEF IsIdle, Idle, LeftIsThere
<1>3. /\ task' \in [Workers -> Tasks]
      /\ task'[w].step = "created" /\ task'[w].case = c /\ task'[w].data = Predefined[c]
      /\ \A v \in Workers \ {w} : task'[v] = task[v]
  BY <1>1, <1>2, TakeFacts DEF Steps, Contents
<1>4. TypeOK'
  BY <1>1, <1>3 DEF TypeOK, Entries, Contents
<1>5. NothingTorn'
  BY <1>1, <1>2, <1>3 DEF NothingTorn, TypeOK
<1>6. DownIsEmpty'
  BY <1>1, <1>3 DEF DownIsEmpty, TypeOK, IsIdle
<1>7. PredefinedTasks'
  BY <1>2, <1>3 DEF PredefinedTasks
<1>8. PredefinedProgress'
  BY <1>1, <1>2, <1>3 DEF PredefinedProgress, InPlace, TypeOK, At
<1>9. LoadsAreNew'
  BY <1>1, <1>2, <1>3 DEF LoadsAreNew, TypeOK, At
<1>10. LeftIsThere'
  BY <1>1 DEF LeftIsThere, TypeOK
<1>11. QED
  BY <1>4, <1>5, <1>6, <1>7, <1>8, <1>9, <1>10

\* When nothing is left to save, every predefined mapping is in place.
LEMMA ListFilesKeeps ==
    ASSUME FilesInv, NEW w \in Workers, ListFiles(w)
    PROVE  FilesInv'
<1> USE FilesAssumption DEF FilesInv, ListFiles, filesUnchanged, Take,
            IsIdle, Tasks, Idle, Steps, Contents
<1>1. TypeOK'
  BY DEF TypeOK, Entries, Contents, NoMappings
<1>2. NothingTorn'
  BY DEF NothingTorn, TypeOK, Contents
<1>3. DownIsEmpty'
  BY DEF DownIsEmpty, TypeOK, IsIdle, NoMappings
<1>4. PredefinedTasks'
  BY DEF PredefinedTasks, PredefinedProgress, InPlace, TypeOK
<1>5. PredefinedProgress'
  BY DEF PredefinedTasks, PredefinedProgress, LoadsAreNew,
         DownIsEmpty, InPlace, TypeOK, At
<1>6. LoadsAreNew'
  BY DEF LoadsAreNew, DownIsEmpty, TypeOK, NoMappings, At
<1>7. LeftIsThere'
  BY DEF LeftIsThere, TypeOK
<1>8. QED
  BY <1>1, <1>2, <1>3, <1>4, <1>5, <1>6, <1>7

\* What is opened is whole; for a predefined case, it is its mapping.
LEMMA OpenListedKeeps ==
    ASSUME FilesInv, NEW w \in Workers, OpenListed(w)
    PROVE  FilesInv'
<1> USE FilesAssumption DEF FilesInv, filesUnchanged
<1>1. PICK c \in left[w] :
         /\ phase[w] = "loading" /\ IsIdle(w)
         /\ Take(w, "opened", c, file[c])
         /\ left' = [left EXCEPT ![w] = @ \ {c}]
         /\ UNCHANGED <<cache, phase, file, durable, kills, outages>>
  BY DEF OpenListed
<1>2. /\ task[w] = Idle /\ task[w].step = "none" /\ task[w].case = Null
      /\ c \in Cases /\ file[c] \in Mappings
  BY <1>1 DEF IsIdle, Idle, TypeOK, NothingTorn, LeftIsThere, Entries, Contents
<1>3. /\ task' \in [Workers -> Tasks]
      /\ task'[w].step = "opened" /\ task'[w].case = c /\ task'[w].data = file[c]
      /\ \A v \in Workers \ {w} : task'[v] = task[v]
  BY <1>1, <1>2, TakeFacts DEF Steps, Contents
<1>4. TypeOK'
  BY <1>1, <1>3 DEF TypeOK, Entries, Contents
<1>5. NothingTorn'
  BY <1>1, <1>2, <1>3 DEF NothingTorn, TypeOK
<1>6. DownIsEmpty'
  BY <1>1, <1>3 DEF DownIsEmpty, TypeOK, IsIdle
<1>7. PredefinedTasks'
  <2>1. c \in DOMAIN Predefined => file[c] = Predefined[c]
    BY <1>1 DEF PredefinedProgress, InPlace
  <2>2. QED
    BY <1>3, <2>1 DEF PredefinedTasks
<1>8. PredefinedProgress'
  BY <1>1, <1>2, <1>3 DEF PredefinedProgress, InPlace, TypeOK, At
<1>9. LoadsAreNew'
  BY <1>1, <1>2, <1>3 DEF LoadsAreNew, TypeOK, At
<1>10. LeftIsThere'
  BY <1>1 DEF LeftIsThere, TypeOK
<1>11. QED
  BY <1>4, <1>5, <1>6, <1>7, <1>8, <1>9, <1>10

\* Nothing changes but the phase.
LEMMA StartedKeeps ==
    ASSUME FilesInv, NEW w \in Workers, Started(w)
    PROVE  FilesInv'
<1> USE FilesAssumption DEF FilesInv, Started, filesUnchanged, Take,
            IsIdle, Tasks, Idle, Steps, Contents
<1>1. TypeOK'
  BY DEF TypeOK, Entries, Contents, NoMappings
<1>2. NothingTorn'
  BY DEF NothingTorn, TypeOK, Contents
<1>3. DownIsEmpty'
  BY DEF DownIsEmpty, TypeOK, IsIdle, NoMappings
<1>4. PredefinedTasks'
  BY DEF PredefinedTasks, PredefinedProgress, InPlace, TypeOK
<1>5. PredefinedProgress'
  BY DEF PredefinedTasks, PredefinedProgress, LoadsAreNew,
         DownIsEmpty, InPlace, TypeOK, At
<1>6. LoadsAreNew'
  BY DEF LoadsAreNew, DownIsEmpty, TypeOK, NoMappings, At
<1>7. LeftIsThere'
  BY DEF LeftIsThere, TypeOK
<1>8. QED
  BY <1>1, <1>2, <1>3, <1>4, <1>5, <1>6, <1>7

\* A case that is not in memory is not predefined.
LEMMA OpenMissingKeeps ==
    ASSUME FilesInv, NEW w \in Workers, OpenMissing(w)
    PROVE  FilesInv'
<1> USE FilesAssumption DEF FilesInv, OpenMissing, filesUnchanged, Take,
            IsIdle, Tasks, Idle, Steps, Contents
<1>1. TypeOK'
  BY DEF TypeOK, Entries, Contents, NoMappings
<1>2. NothingTorn'
  BY DEF NothingTorn, TypeOK, Contents
<1>3. DownIsEmpty'
  BY DEF DownIsEmpty, TypeOK, IsIdle, NoMappings
<1>4. PredefinedTasks'
  BY DEF PredefinedTasks, PredefinedProgress, InPlace, TypeOK
<1>5. PredefinedProgress'
  BY DEF PredefinedTasks, PredefinedProgress, LoadsAreNew,
         DownIsEmpty, InPlace, TypeOK, At
<1>6. LoadsAreNew'
  BY DEF LoadsAreNew, DownIsEmpty, TypeOK, NoMappings, At
<1>7. LeftIsThere'
  BY DEF LeftIsThere, TypeOK
<1>8. QED
  BY <1>1, <1>2, <1>3, <1>4, <1>5, <1>6, <1>7

\* What was opened enters the memory of the process.
LEMMA LoadKeeps ==
    ASSUME FilesInv, NEW w \in Workers, Load(w)
    PROVE  FilesInv'
<1> USE FilesAssumption DEF FilesInv, Load, CacheTask, filesUnchanged
<1>1. /\ task[w].step = "opened"
      /\ task[w].case \in Cases /\ task[w].data \in Mappings /\ ~ IsIdle(w)
  BY TaskFacts DEF At, IsIdle, Idle, Steps, NothingTorn, Contents
<1>2. /\ task' \in [Workers -> Tasks]
      /\ \A v \in Workers \ {w} : task'[v] = task[v]
      /\ task'[w] = Idle
      /\ task'[w].step = "none" /\ task'[w].case = Null /\ task'[w].data = Null
  BY <1>1, FinishFacts DEF Idle
<1>3. TypeOK'
  BY <1>1, <1>2 DEF TypeOK, Entries, Contents, NoMappings
<1>4. NothingTorn'
  BY <1>1, <1>2 DEF NothingTorn, TypeOK, Contents
<1>5. DownIsEmpty'
  BY <1>1, <1>2 DEF DownIsEmpty, TypeOK, IsIdle, NoMappings
<1>6. PredefinedTasks'
  BY <1>1, <1>2 DEF PredefinedTasks, PredefinedProgress, InPlace, TypeOK
<1>7. PredefinedProgress'
  BY <1>1, <1>2 DEF PredefinedTasks, PredefinedProgress, LoadsAreNew,
         DownIsEmpty, InPlace, TypeOK, At
<1>8. LoadsAreNew'
  BY <1>1, <1>2 DEF LoadsAreNew, DownIsEmpty, TypeOK, NoMappings, At
<1>9. LeftIsThere'
  BY <1>1, <1>2 DEF LeftIsThere, TypeOK
<1>10. QED
  BY <1>3, <1>4, <1>5, <1>6, <1>7, <1>8, <1>9

\* A generated mapping is of a case that is not predefined.
LEMMA SaveGeneratedKeeps ==
    ASSUME FilesInv, NEW w \in Workers, SaveGenerated(w)
    PROVE  FilesInv'
<1> USE FilesAssumption DEF FilesInv, SaveGenerated, filesUnchanged, Take,
            IsIdle, Tasks, Idle, Steps, Contents
<1>1. TypeOK'
  BY DEF TypeOK, Entries, Contents, NoMappings
<1>2. NothingTorn'
  BY DEF NothingTorn, TypeOK, Contents
<1>3. DownIsEmpty'
  BY DEF DownIsEmpty, TypeOK, IsIdle, NoMappings
<1>4. PredefinedTasks'
  BY DEF PredefinedTasks, PredefinedProgress, InPlace, TypeOK
<1>5. PredefinedProgress'
  BY DEF PredefinedTasks, PredefinedProgress, LoadsAreNew,
         DownIsEmpty, InPlace, TypeOK, At
<1>6. LoadsAreNew'
  BY DEF LoadsAreNew, DownIsEmpty, TypeOK, NoMappings, At
<1>7. LeftIsThere'
  BY DEF LeftIsThere, TypeOK
<1>8. QED
  BY <1>1, <1>2, <1>3, <1>4, <1>5, <1>6, <1>7

\* A process that ends leaves the files as they are.
LEMMA StopKeeps ==
    ASSUME FilesInv, NEW w \in Workers, Stop(w)
    PROVE  FilesInv'
<1> USE FilesAssumption DEF FilesInv, Stop, filesUnchanged, Take,
            IsIdle, Tasks, Idle, Steps, Contents
<1>1. TypeOK'
  BY DEF TypeOK, Entries, Contents, NoMappings
<1>2. NothingTorn'
  BY DEF NothingTorn, TypeOK, Contents
<1>3. DownIsEmpty'
  BY DEF DownIsEmpty, TypeOK, IsIdle, NoMappings
<1>4. PredefinedTasks'
  BY DEF PredefinedTasks, PredefinedProgress, InPlace, TypeOK
<1>5. PredefinedProgress'
  BY DEF PredefinedTasks, PredefinedProgress, LoadsAreNew,
         DownIsEmpty, InPlace, TypeOK, At
<1>6. LoadsAreNew'
  BY DEF LoadsAreNew, DownIsEmpty, TypeOK, NoMappings, At
<1>7. LeftIsThere'
  BY DEF LeftIsThere, TypeOK
<1>8. QED
  BY <1>1, <1>2, <1>3, <1>4, <1>5, <1>6, <1>7

\* A directory entry written back is the one every process sees.
LEMMA WriteBackKeeps ==
    ASSUME FilesInv, NEW c \in Cases, WriteBack(c)
    PROVE  FilesInv'
<1> USE DEF FilesInv, WriteBack, processVars
<1>1. TypeOK'
  BY DEF TypeOK
<1>2. NothingTorn'
  BY DEF NothingTorn, TypeOK
<1>3. DownIsEmpty' /\ PredefinedTasks' /\ PredefinedProgress' /\ LoadsAreNew' /\ LeftIsThere'
  BY DEF DownIsEmpty, IsIdle, PredefinedTasks, PredefinedProgress, InPlace,
         LoadsAreNew, LeftIsThere, At
<1>4. QED
  BY <1>1, <1>2, <1>3

\* After a power failure every name holds something whole, every process is down.
LEMMA PowerFailureKeeps ==
    ASSUME FilesInv, PowerFailure
    PROVE  FilesInv'
<1> USE FilesAssumption DEF FilesInv, PowerFailure
<1>1. \A c \in Cases : file'[c] \in durable[c]
  OBVIOUS
<1>2. TypeOK'
  BY <1>1 DEF TypeOK, NoMappings, Tasks
<1>3. NothingTorn'
  BY <1>1 DEF NothingTorn, TypeOK, Idle, Contents
<1>4. DownIsEmpty' /\ PredefinedTasks' /\ PredefinedProgress' /\ LoadsAreNew' /\ LeftIsThere'
  BY DEF DownIsEmpty, IsIdle, PredefinedTasks, PredefinedProgress, InPlace,
         LoadsAreNew, LeftIsThere, At, Idle
<1>5. QED
  BY <1>2, <1>3, <1>4

\* Before anything runs the files are whole and nothing is remembered.
LEMMA FilesInit == Init => FilesInv
<1> SUFFICES ASSUME Init PROVE FilesInv
  OBVIOUS
<1> USE FilesAssumption DEF Init
<1>1. file \in [Cases -> Mappings \cup {Null}]
  OBVIOUS
<1>2. TypeOK
  BY <1>1 DEF TypeOK, NoMappings, Tasks, Entries, Contents
<1>3. NothingTorn
  BY <1>1 DEF NothingTorn, Idle, Contents
<1>4. DownIsEmpty /\ PredefinedTasks /\ PredefinedProgress /\ LoadsAreNew /\ LeftIsThere
  BY DEF DownIsEmpty, IsIdle, PredefinedTasks, PredefinedProgress, InPlace,
         LoadsAreNew, LeftIsThere, At, Idle
<1>5. QED
  BY <1>2, <1>3, <1>4 DEF FilesInv

\* Every step preserves the invariant.
LEMMA FilesStep == FilesInv /\ [Next]_vars => FilesInv'
<1> SUFFICES ASSUME FilesInv, [Next]_vars PROVE FilesInv'
  OBVIOUS
<1>1. ASSUME NEW w \in Workers, Initializing(w) PROVE FilesInv'
  BY <1>1, BeginKeeps, SavePredefinedKeeps, ListFilesKeeps, OpenListedKeeps, StartedKeeps
  DEF Initializing
<1>2. ASSUME NEW w \in Workers, Saving(w) PROVE FilesInv'
  BY <1>2, WriteTemporaryKeeps, SyncTemporaryKeeps, ReplaceKeeps, RememberKeeps DEF Saving
<1>3. ASSUME NEW w \in Workers, Using(w) PROVE FilesInv'
  BY <1>3, OpenMissingKeeps, LoadKeeps, SaveGeneratedKeeps DEF Using
<1>4. CASE UNCHANGED vars
  BY <1>4 DEF vars, processVars, FilesInv, TypeOK, NothingTorn, DownIsEmpty, IsIdle,
     PredefinedTasks, PredefinedProgress, InPlace,
         LoadsAreNew, LeftIsThere, At
<1>5. QED
  BY <1>1, <1>2, <1>3, <1>4, StopKeeps, WriteBackKeeps, PowerFailureKeeps DEF Next

--------------------------------------------------------------------------------
\* The inductive invariant: what is renamed is whole, and what is predefined
\* stays in place once it is (save and initialize of mapping_store.py).
THEOREM FilesAreInvariant == Spec => []FilesInv
<1>1. QED
  BY FilesInit, FilesStep, PTL DEF Spec

\* No file is ever found torn, whatever is killed and when the power fails.
THEOREM FilesStayWhole == Spec => []FilesAreWhole
<1>1. FilesInv => FilesAreWhole
  BY DEF FilesInv, NothingTorn, FilesAreWhole
<1>2. QED
  BY <1>1, FilesAreInvariant, PTL

\* A process that has started works with the predefined mappings.
THEOREM PredefinedStayLoaded == Spec => []PredefinedLoaded
<1>1. FilesInv => PredefinedLoaded
  BY DEF FilesInv, PredefinedProgress, InPlace, PredefinedLoaded
<1>2. QED
  BY <1>1, FilesAreInvariant, PTL

--------------------------------------------------------------------------------
(***************************************************************************)
(* MappingFiles implements the operations of MappingStore.                 *)
(***************************************************************************)
\* remembered, by process and case.
LEMMA RememberedIs ==
    ASSUME NEW v \in Workers, NEW d \in Cases
    PROVE  /\ remembered[v][d] =
                  IF task[v].step \in {"replaced", "opened"} /\ task[v].case = d
                  THEN task[v].data ELSE cache[v][d]
           /\ remembered'[v][d] =
                  IF task'[v].step \in {"replaced", "opened"} /\ task'[v].case = d
                  THEN task'[v].data ELSE cache'[v][d]
BY DEF remembered, At

\* A step that changes no entry of it changes nothing of it.
LEMMA RememberedStays ==
    ASSUME \A v \in Workers, d \in Cases : remembered'[v][d] = remembered[v][d]
    PROVE  remembered' = remembered
BY DEF remembered

\* A step that changes one entry is that EXCEPT.
LEMMA RememberedChanges ==
    ASSUME NEW w \in Workers, NEW c \in Cases, NEW m,
           \A v \in Workers, d \in Cases :
               remembered'[v][d] = IF v = w /\ d = c THEN m ELSE remembered[v][d]
    PROVE  remembered' = [remembered EXCEPT ![w][c] = m]
<1>1. /\ DOMAIN remembered = Workers /\ DOMAIN remembered' = Workers
      /\ remembered = [v \in Workers |-> remembered[v]]
      /\ remembered' = [v \in Workers |-> remembered'[v]]
  BY DEF remembered
<1>2. \A v \in Workers : /\ remembered[v] = [d \in Cases |-> remembered[v][d]]
                          /\ remembered'[v] = [d \in Cases |-> remembered'[v][d]]
  BY DEF remembered
<1>3. remembered'[w] = [remembered[w] EXCEPT ![c] = m]
  BY <1>2
<1>4. \A v \in Workers \ {w} : remembered'[v] = remembered[v]
  BY <1>2
<1>5. QED
  BY <1>1, <1>3, <1>4

\* The steps between two renames or loads are stutters.
LEMMA QuietFiles ==
    ASSUME FilesInv, NEW w \in Workers,
           \/ WriteTemporary(w) \/ SyncTemporary(w) \/ Remember(w) \/ Load(w)
           \/ Begin(w) \/ SavePredefined(w) \/ ListFiles(w) \/ Started(w)
           \/ SaveGenerated(w)
    PROVE  UNCHANGED <<file, remembered>>
<1> USE FilesAssumption DEF FilesInv
<1>1. file' = file
  BY DEF WriteTemporary, SyncTemporary, Remember, Load, Begin, SavePredefined, ListFiles,
         Started, SaveGenerated, filesUnchanged
<1>2. ASSUME NEW v \in Workers, NEW d \in Cases
      PROVE  remembered'[v][d] = remembered[v][d]
  <2>1. CASE WriteTemporary(w) \/ SyncTemporary(w)
    <3>1. task[w].step \in {"created", "written"} /\ ~ IsIdle(w) /\ cache' = cache
      BY <2>1 DEF WriteTemporary, SyncTemporary, At, IsIdle, Idle
    <3>2. /\ task'[w].step \in {"written", "synced"}
          /\ \A u \in Workers \ {w} : task'[u] = task[u]
      BY <2>1, <3>1, AdvanceFacts DEF WriteTemporary, SyncTemporary, Steps
    <3>3. QED
      BY <3>1, <3>2, RememberedIs
  <2>2. CASE Remember(w) \/ Load(w)
    <3>1. /\ task[w].step \in {"replaced", "opened"} /\ task[w].case \in Cases
          /\ CacheTask(w) /\ Finish(w)
      BY <2>2, TaskFacts DEF Remember, Load, At
    <3>2. /\ task'[w].step = "none"
          /\ \A u \in Workers \ {w} : task'[u] = task[u]
      BY <3>1, FinishFacts DEF Idle
    <3>3. cache'[v][d] = IF v = w /\ task[w].case = d THEN task[w].data ELSE cache[v][d]
      BY <3>1 DEF CacheTask, TypeOK
    <3>4. QED
      BY <3>1, <3>2, <3>3, RememberedIs
  <2>3. CASE Begin(w) \/ ListFiles(w) \/ Started(w)
    <3>1. task' = task /\ cache' = cache
      BY <2>3 DEF Begin, ListFiles, Started, DownIsEmpty, TypeOK
    <3>2. QED
      BY <3>1, RememberedIs
  <2>4. CASE SavePredefined(w) \/ SaveGenerated(w)
    <3>1. /\ task[w].step = "none" /\ cache' = cache
          /\ \E c \in Cases, m \in Contents : Take(w, "created", c, m)
      BY <2>4 DEF SavePredefined, SaveGenerated, IsIdle, Idle, TypeOK, LeftIsThere, Contents
    <3>2. /\ task'[w].step = "created"
          /\ \A u \in Workers \ {w} : task'[u] = task[u]
      BY <3>1, TakeFacts DEF Steps
    <3>3. QED
      BY <3>1, <3>2, RememberedIs
  <2>5. QED
    BY <2>1, <2>2, <2>3, <2>4
<1>3. QED
  BY <1>1, <1>2, RememberedStays

\* The rename is the save.
LEMMA ReplaceIsSave ==
    ASSUME FilesInv, NEW w \in Workers, Replace(w)
    PROVE  \E c \in Cases, m \in Mappings : Store!Save(w, c, m)
<1> USE FilesAssumption DEF FilesInv
<1>1. /\ task[w].step = "synced" /\ ~ IsIdle(w)
      /\ task[w].case \in Cases /\ task[w].data \in Mappings
  BY TaskFacts DEF Replace, At, IsIdle, Idle, Steps, NothingTorn, Contents
<1>2. PICK c \in Cases, m \in Mappings : task[w].case = c /\ task[w].data = m
  BY <1>1
<1>3. /\ task'[w].step = "replaced" /\ task'[w].case = c /\ task'[w].data = m
      /\ \A v \in Workers \ {w} : task'[v] = task[v]
  BY <1>1, <1>2, AdvanceFacts DEF Replace, Steps
<1>4. ASSUME NEW v \in Workers, NEW d \in Cases
      PROVE  remembered'[v][d] = IF v = w /\ d = c THEN m ELSE remembered[v][d]
  BY <1>1, <1>2, <1>3, RememberedIs DEF Replace
<1>5. remembered' = [remembered EXCEPT ![w][c] = m]
  BY <1>4, RememberedChanges
<1>6. QED
  BY <1>2, <1>5 DEF Replace, Store!Save

\* Opening the file is the load: of a case not in memory, or there as in the file.
LEMMA OpenIsGet ==
    ASSUME FilesInv, NEW w \in Workers, OpenListed(w) \/ OpenMissing(w)
    PROVE  \E c \in Cases : Store!Get(w, c)
<1> USE FilesAssumption DEF FilesInv
<1>1. PICK c \in Cases :
         /\ \/ phase[w] = "loading" /\ c \in left[w]
            \/ phase[w] = "ready" /\ cache[w][c] = Null
         /\ IsIdle(w) /\ file[c] # Null
         /\ Take(w, "opened", c, file[c])
         /\ UNCHANGED <<cache, file>>
  <2>1. CASE OpenListed(w)
    <3>1. PICK c \in left[w] :
             /\ phase[w] = "loading" /\ IsIdle(w)
             /\ Take(w, "opened", c, file[c])
             /\ UNCHANGED <<cache, file>>
      BY <2>1 DEF OpenListed, filesUnchanged
    <3>2. c \in Cases /\ file[c] # Null
      BY <3>1 DEF TypeOK, LeftIsThere
    <3>3. QED
      BY <3>1, <3>2
  <2>2. CASE OpenMissing(w)
    BY <2>2 DEF OpenMissing, filesUnchanged
  <2>3. QED
    BY <2>1, <2>2
<1>2. task[w].step = "none" /\ file[c] \in Contents
  BY <1>1 DEF IsIdle, Idle, TypeOK, Entries
<1>3. /\ task'[w].step = "opened" /\ task'[w].case = c /\ task'[w].data = file[c]
      /\ \A v \in Workers \ {w} : task'[v] = task[v]
  BY <1>1, <1>2, TakeFacts DEF Steps
<1>4. cache[w][c] = Null \/ cache[w][c] = file[c]
  BY <1>1 DEF LoadsAreNew, PredefinedProgress, InPlace
<1>5. remembered[w][c] = cache[w][c]
  BY <1>2, RememberedIs
<1>6. Store!Lookup(w, c) = file[c]
  BY <1>4, <1>5 DEF Store!Lookup
<1>7. ASSUME NEW v \in Workers, NEW d \in Cases
      PROVE  remembered'[v][d] = IF v = w /\ d = c THEN file[c] ELSE remembered[v][d]
  BY <1>1, <1>2, <1>3, RememberedIs
<1>8. remembered' = [remembered EXCEPT ![w][c] = file[c]]
  BY <1>7, RememberedChanges
<1>9. QED
  BY <1>1, <1>6, <1>8 DEF Store!Get

\* A process that ends forgets what it had, and what it was loading or saving.
LEMMA StopIsForget ==
    ASSUME FilesInv, NEW w \in Workers, Stop(w)
    PROVE  Store!Forget(w)
<1> USE DEF FilesInv
<1>1. ASSUME NEW v \in Workers, NEW d \in Cases
      PROVE  remembered'[v][d] = IF v = w THEN Null ELSE remembered[v][d]
  BY RememberedIs DEF Stop, TypeOK, Idle, NoMappings
<1>2. remembered' = [remembered EXCEPT ![w] = NoMappings]
  <2>1. /\ remembered = [v \in Workers |-> remembered[v]]
        /\ remembered' = [v \in Workers |-> remembered'[v]]
    BY DEF remembered
  <2>2. \A v \in Workers : /\ remembered[v] = [d \in Cases |-> remembered[v][d]]
                            /\ remembered'[v] = [d \in Cases |-> remembered'[v][d]]
    BY DEF remembered
  <2>3. remembered'[w] = NoMappings
    BY <1>1, <2>2 DEF NoMappings
  <2>4. \A v \in Workers \ {w} : remembered'[v] = remembered[v]
    BY <1>1, <2>2
  <2>5. QED
    BY <2>1, <2>3, <2>4
<1>3. QED
  BY <1>2 DEF Stop, Store!Forget, NoMappings

\* Every step is a step of the store or a stutter.
LEMMA StoreRefinement ==
    FilesInv /\ [Next]_vars => [StoreStep]_<<file, remembered>>
<1> SUFFICES ASSUME FilesInv, [Next]_vars PROVE [StoreStep]_<<file, remembered>>
  OBVIOUS
<1>1. ASSUME NEW w \in Workers, Initializing(w) \/ Saving(w) \/ Using(w) \/ Stop(w)
      PROVE  [StoreStep]_<<file, remembered>>
  BY <1>1, QuietFiles, ReplaceIsSave, OpenIsGet, StopIsForget
  DEF Initializing, Saving, Using, StoreStep
<1>2. CASE PowerFailure
  BY <1>2 DEF PowerFailure, StoreStep, PowerCut, remembered, At, Idle, NoMappings
<1>3. CASE UNCHANGED vars
  BY <1>3 DEF vars, processVars, remembered, At
<1>4. ASSUME NEW c \in Cases, WriteBack(c) PROVE UNCHANGED <<file, remembered>>
  BY <1>4 DEF WriteBack, processVars, remembered, At
<1>5. QED
  BY <1>1, <1>2, <1>3, <1>4 DEF Next

\* The file system steps of mapping_store.py, in any interleaving, are the
\* atomic Save, Get and Forget the pipeline is specified with.
THEOREM ImplementsStore == Spec => StoreSpec
<1>1. Init => Store!StoreInit
  BY DEF Init, Store!StoreInit, Store!Workers, Workers, remembered, At, Idle, NoMappings
<1>2. QED
  BY <1>1, StoreRefinement, FilesAreInvariant, PTL DEF Spec, StoreSpec

================================================================================

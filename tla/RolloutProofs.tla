----------------------------- MODULE RolloutProofs -----------------------------
(***************************************************************************)
(* Theorems about Rollout: with quiet releases, predefined mappings have   *)
(* priority in every process and a finished rollout leaves all processes   *)
(* with the same mappings; with any releases, a process keeps its answers. *)
(***************************************************************************)
EXTENDS Rollout, TLAPS

LEMMA ShippedType ==
  \A n \in DOMAIN Releases : Releases[n] \in [Cases -> Mappings \cup {Null}]
  BY ReleasesAssumption

LEMMA InitInv == Init => RolloutInv
<1> SUFFICES ASSUME Init PROVE RolloutInv
  OBVIOUS
<1>1. TypeOK
  BY StoreAssumption, ReleasesAssumption DEF Init, TypeOK, StoreInit, StoreTypeOK
<1>2. QED
  BY <1>1 DEF Init, RolloutInv, GeneratesUnmapped, WritersAreCurrent, Starting, DiskIsCurrent,
     CurrentIsCoherent, Current, PredefinedStays

\* initialize reads the predefined mappings.
LEMMA ReadInv ==
  ASSUME RolloutInv, NEW w \in Workers, ReadPredefined(w)
  PROVE  RolloutInv'
<1> USE DEF RolloutInv, ReadPredefined, Goto, storeVars, Shipped
<1>1. TypeOK'
  BY DEF TypeOK, StoreTypeOK
<1>2. \A v \in Workers : loaded'[v] <= release'
  BY ReleasesAssumption DEF TypeOK
<1>3. GeneratesUnmapped' /\ WritersAreCurrent'
  BY DEF GeneratesUnmapped, WritersAreCurrent, Starting, TypeOK
<1>4. DiskIsCurrent' /\ CurrentIsCoherent' /\ PredefinedStays'
  BY DEF DiskIsCurrent, CurrentIsCoherent, Current, PredefinedStays, TypeOK
<1>5. QED
  BY <1>1, <1>2, <1>3, <1>4

\* initialize saves them: processes of the release have the same already.
LEMMA SavePredefinedInv ==
  ASSUME RolloutInv, NEW w \in Workers, SavePredefined(w)
  PROVE  RolloutInv'
<1> USE DEF RolloutInv, Goto, Shipped
<1>1. TypeOK'
  BY ShippedType DEF TypeOK, StoreTypeOK, SavePredefined
<1>2. loaded[w] = release
  BY DEF WritersAreCurrent, Starting, SavePredefined
<1>3. \A c \in Cases : disk'[c] = IF Shipped(release, c) # Null THEN Shipped(release, c) ELSE disk[c]
  BY <1>2 DEF SavePredefined
<1>4. GeneratesUnmapped'
  BY <1>3 DEF SavePredefined, GeneratesUnmapped, WritersAreCurrent, DiskIsCurrent, TypeOK
<1>5. WritersAreCurrent'
  BY DEF SavePredefined, WritersAreCurrent, Starting, TypeOK
<1>6. DiskIsCurrent'
  BY <1>3 DEF SavePredefined, DiskIsCurrent
<1>7. CurrentIsCoherent'
  BY <1>3 DEF SavePredefined, CurrentIsCoherent, DiskIsCurrent, Current, TypeOK, StoreTypeOK
<1>8. PredefinedStays'
  BY DEF SavePredefined, PredefinedStays, TypeOK, StoreTypeOK
<1>9. QED
  BY <1>1, <1>4, <1>5, <1>6, <1>7, <1>8 DEF SavePredefined

\* initialize loads the files: its own predefined mappings are among them.
LEMMA LoadInv ==
  ASSUME RolloutInv, NEW w \in Workers, LoadFiles(w)
  PROVE  RolloutInv'
<1> USE DEF RolloutInv, Goto, Shipped, LoadFiles, TypeOK, StoreTypeOK
<1>1. TypeOK'
  OBVIOUS
<1>2. loaded[w] = release
  BY DEF WritersAreCurrent, Starting
<1>3. \A c \in Cases : /\ cache'[w][c] = disk[c]
                       /\ Shipped(release, c) # Null => disk[c] = Shipped(release, c)
  BY <1>2 DEF DiskIsCurrent, CurrentIsCoherent
<1>4. GeneratesUnmapped' /\ WritersAreCurrent' /\ DiskIsCurrent'
  BY <1>2 DEF GeneratesUnmapped, WritersAreCurrent, Starting, DiskIsCurrent
<1>5. CurrentIsCoherent'
  BY <1>3 DEF CurrentIsCoherent, Current
<1>6. PredefinedStays'
  BY <1>2, <1>3 DEF PredefinedStays
<1>7. QED
  BY <1>1, <1>4, <1>5, <1>6

\* get caches what is on disk.
LEMMA ResolveInv ==
  ASSUME RolloutInv, NEW w \in Workers, NEW c \in Cases, Resolve(w, c)
  PROVE  RolloutInv'
<1> USE DEF RolloutInv, Resolve, Get, Lookup, Shipped
<1>1. TypeOK'
  BY DEF TypeOK, StoreTypeOK
<1>2. GeneratesUnmapped' /\ WritersAreCurrent' /\ DiskIsCurrent'
  BY DEF GeneratesUnmapped, WritersAreCurrent, Starting, DiskIsCurrent
<1>3. CurrentIsCoherent'
  BY DEF CurrentIsCoherent, Current, TypeOK, StoreTypeOK
<1>4. PredefinedStays'
  BY DEF PredefinedStays, TypeOK, StoreTypeOK
<1>5. QED
  BY <1>1, <1>2, <1>3, <1>4

\* A drift consumer begins, or gives up.
LEMMA GenerateInv ==
  ASSUME RolloutInv, NEW w \in Workers,
         (\E c \in Cases : BeginGenerate(w, c)) \/ GenerateFails(w)
  PROVE  RolloutInv'
<1> USE DEF RolloutInv, storeVars, Shipped
<1>1. CASE GenerateFails(w)
  BY <1>1 DEF GenerateFails, TypeOK, StoreTypeOK, GeneratesUnmapped, WritersAreCurrent, Starting,
     DiskIsCurrent, CurrentIsCoherent, Current, PredefinedStays
<1>2. ASSUME NEW c \in Cases, BeginGenerate(w, c)
      PROVE  RolloutInv'
  <2>1. disk[c] = Null
    BY <1>2 DEF BeginGenerate, Lookup
  <2>2. TypeOK'
    BY <1>2 DEF BeginGenerate, TypeOK, StoreTypeOK
  <2>3. GeneratesUnmapped'
    BY <1>2, <2>1 DEF BeginGenerate, GeneratesUnmapped, TypeOK
  <2>4. QED
    BY <1>2, <2>2, <2>3 DEF BeginGenerate, WritersAreCurrent, Starting, DiskIsCurrent,
       CurrentIsCoherent, Current, PredefinedStays
<1>3. QED
  BY <1>1, <1>2

\* A generated mapping is saved for a case nobody of the release has one for.
LEMMA SaveGeneratedInv ==
  ASSUME RolloutInv, NEW w \in Workers, SaveGenerated(w)
  PROVE  RolloutInv'
<1> USE DEF RolloutInv, Shipped
<1> DEFINE c == generating[w]
<1>1. PICK m \in Mappings : Save(w, c, m)
  BY DEF SaveGenerated
<1>2. /\ c \in Cases /\ disk[c] = Null
      /\ w \in DriftWorkers /\ pc[w] = "up" /\ loaded[w] = release
      /\ Shipped(release, c) = Null
  BY DEF SaveGenerated, GeneratesUnmapped, WritersAreCurrent, DiskIsCurrent, TypeOK
<1>3. /\ \A x \in Cases : x # c => disk'[x] = disk[x]
      /\ \A v \in Workers, x \in Cases : v # w \/ x # c => cache'[v][x] = cache[v][x]
      /\ disk'[c] = m /\ cache'[w][c] = m
  BY <1>1, <1>2 DEF Save, TypeOK, StoreTypeOK
<1>4. TypeOK'
  BY <1>1, <1>2 DEF SaveGenerated, Save, TypeOK, StoreTypeOK
<1>5. GeneratesUnmapped'
  BY <1>2, <1>3 DEF SaveGenerated, GeneratesUnmapped, TypeOK
<1>6. WritersAreCurrent'
  BY DEF SaveGenerated, WritersAreCurrent, Starting
<1>7. DiskIsCurrent'
  BY <1>2, <1>3 DEF SaveGenerated, DiskIsCurrent
<1>8. CurrentIsCoherent'
  BY <1>2, <1>3 DEF SaveGenerated, CurrentIsCoherent, Current
<1>9. PredefinedStays'
  BY <1>2, <1>3 DEF SaveGenerated, PredefinedStays
<1>10. QED
  BY <1>4, <1>5, <1>6, <1>7, <1>8, <1>9 DEF SaveGenerated

LEMMA StopInv ==
  ASSUME RolloutInv, NEW w \in Workers, Stop(w)
  PROVE  RolloutInv'
<1> USE DEF RolloutInv, Stop, Forget, Goto, Shipped
<1>1. TypeOK'
  BY DEF TypeOK, StoreTypeOK
<1>2. GeneratesUnmapped' /\ WritersAreCurrent' /\ DiskIsCurrent'
  BY DEF GeneratesUnmapped, WritersAreCurrent, Starting, DiskIsCurrent, TypeOK
<1>3. CurrentIsCoherent' /\ PredefinedStays'
  BY DEF CurrentIsCoherent, Current, PredefinedStays, TypeOK, StoreTypeOK
<1>4. QED
  BY <1>1, <1>2, <1>3

\* A quiet release: no process has taken it over, and none writes for an old one.
LEMMA ReleaseInv ==
  ASSUME QuietReleases, RolloutInv, Release
  PROVE  RolloutInv'
<1> USE DEF RolloutInv, Release, storeVars, Shipped
<1>1. TypeOK'
  BY ReleasesAssumption DEF TypeOK, StoreTypeOK
<1>2. release \in Nat /\ release' = release + 1 /\ \A w \in Workers : loaded[w] \in Nat
  BY ReleasesAssumption DEF TypeOK
<1>3. \A w \in Workers : loaded'[w] # release' /\ loaded'[w] <= release'
  BY <1>2
<1>4. QED
  BY <1>1, <1>3 DEF GeneratesUnmapped, WritersAreCurrent, Starting, DiskIsCurrent,
     CurrentIsCoherent, Current, PredefinedStays

\* With quiet releases RolloutInv is inductive.
THEOREM RolloutIsInvariant ==
  ASSUME QuietReleases
  PROVE  Spec => []RolloutInv
<1>1. RolloutInv /\ [Next]_vars => RolloutInv'
  <2> SUFFICES ASSUME RolloutInv, [Next]_vars PROVE RolloutInv'
    OBVIOUS
  <2>1. CASE UNCHANGED vars
    BY <2>1 DEF vars, storeVars, RolloutInv, TypeOK, StoreTypeOK, GeneratesUnmapped,
       WritersAreCurrent, Starting, DiskIsCurrent, CurrentIsCoherent, Current, PredefinedStays,
       Shipped
  <2>2. QED
    BY <2>1, ReadInv, SavePredefinedInv, LoadInv, ResolveInv, GenerateInv, SaveGeneratedInv,
       StopInv, ReleaseInv DEF Next
<1>2. QED
  BY InitInv, <1>1, PTL DEF Spec

\* A process that started on a release gives its predefined mappings for as long
\* as it runs.
THEOREM PredefinedHavePriority ==
  ASSUME QuietReleases
  PROVE  Spec => []StartupPriority
<1>1. RolloutInv => StartupPriority
  BY DEF RolloutInv, PredefinedStays, StartupPriority, Lookup
<1>2. QED
  BY <1>1, RolloutIsInvariant, PTL

\* A finished rollout leaves all processes with the mappings on disk.
THEOREM RolloutsConverge ==
  ASSUME QuietReleases
  PROVE  Spec => []RolloutConverges
<1>1. RolloutInv => RolloutConverges
  BY DEF RolloutInv, CurrentIsCoherent, RolloutConverges, Lookup
<1>2. QED
  BY <1>1, RolloutIsInvariant, PTL

--------------------------------------------------------------------------------
\* A drift consumer that generates has nothing cached for the case.
Uncached ==
    \A w \in Workers : generating[w] # Null =>
        pc[w] = "up" /\ generating[w] \in Cases /\ cache[w][generating[w]] = Null

StableInv == TypeOK /\ Uncached

\* Whatever the releases, and however they overlap.
LEMMA StableStep == StableInv /\ [Next]_vars => StableInv'
<1> SUFFICES ASSUME StableInv, [Next]_vars PROVE StableInv'
  OBVIOUS
<1> USE DEF StableInv, TypeOK, StoreTypeOK, Uncached, storeVars, Goto
<1>1. ASSUME NEW w \in Workers, ReadPredefined(w) PROVE StableInv'
  BY <1>1 DEF ReadPredefined
<1>2. ASSUME NEW w \in Workers, SavePredefined(w) PROVE StableInv'
  BY <1>2, ShippedType DEF SavePredefined, Shipped
<1>3. ASSUME NEW w \in Workers, LoadFiles(w) PROVE StableInv'
  BY <1>3 DEF LoadFiles
<1>4. ASSUME NEW w \in Workers, NEW c \in Cases, Resolve(w, c) PROVE StableInv'
  BY <1>4 DEF Resolve, Get, Lookup
<1>5. ASSUME NEW w \in Workers, NEW c \in Cases, BeginGenerate(w, c) PROVE StableInv'
  BY <1>5 DEF BeginGenerate, Lookup
<1>6. ASSUME NEW w \in Workers, SaveGenerated(w) PROVE StableInv'
  BY <1>6 DEF SaveGenerated, Save
<1>7. ASSUME NEW w \in Workers, GenerateFails(w) PROVE StableInv'
  BY <1>7 DEF GenerateFails
<1>8. ASSUME NEW w \in Workers, Stop(w) PROVE StableInv'
  BY <1>8 DEF Stop, Forget
<1>9. ASSUME Release PROVE StableInv'
  BY <1>9, ReleasesAssumption DEF Release
<1>10. CASE UNCHANGED vars
  BY <1>10 DEF vars
<1>11. QED
  BY <1>1, <1>2, <1>3, <1>4, <1>5, <1>6, <1>7, <1>8, <1>9, <1>10 DEF Next

\* What a running process has cached does not change.
LEMMA CacheStays ==
  ASSUME StableInv, [Next]_vars, NEW w \in Workers, NEW c \in Cases,
         pc[w] = "up", pc'[w] = "up", cache[w][c] # Null
  PROVE  cache'[w][c] = cache[w][c]
<1> USE DEF StableInv, TypeOK, StoreTypeOK, Uncached, storeVars, Goto
<1>1. ASSUME NEW v \in Workers, SavePredefined(v) \/ LoadFiles(v) \/ Stop(v)
      PROVE  v # w /\ cache'[w] = cache[w]
  BY <1>1 DEF SavePredefined, LoadFiles, Stop, Forget
<1>2. ASSUME NEW v \in Workers, NEW x \in Cases, Resolve(v, x)
      PROVE  cache'[w][c] = cache[w][c]
  BY <1>2 DEF Resolve, Get, Lookup
<1>3. ASSUME NEW v \in Workers, SaveGenerated(v)
      PROVE  cache'[w][c] = cache[w][c]
  <2>1. v # w \/ generating[v] # c
    BY <1>3 DEF SaveGenerated
  <2>2. QED
    BY <1>3, <2>1 DEF SaveGenerated, Save
<1>4. ASSUME UNCHANGED cache
      PROVE  cache'[w][c] = cache[w][c]
  BY <1>4
<1>5. QED
  BY <1>1, <1>2, <1>3, <1>4
  DEF Next, vars, ReadPredefined, BeginGenerate, GenerateFails, Release

\* With any releases, a process keeps the mapping it once gave for a case.
THEOREM ResolvesAreStable == Spec => ResolveIsStable
<1>1. Init => StableInv
  BY StoreAssumption, ReleasesAssumption
  DEF Init, StableInv, TypeOK, StoreInit, StoreTypeOK, Uncached
<1>2. StableInv /\ [Next]_vars =>
        [\A w \in Workers, c \in Cases :
            pc[w] = "up" /\ pc'[w] = "up" /\ cache[w][c] # Null =>
                cache'[w][c] = cache[w][c]]_vars
  BY CacheStays
<1>3. QED
  BY <1>1, <1>2, StableStep, PTL DEF Spec, ResolveIsStable

================================================================================

-------------------------------- MODULE Rollout --------------------------------
(***************************************************************************)
(* Releases: a new version of the program ships other predefined mappings, *)
(* while processes of the old one still run on the same directory.  Each   *)
(* process takes over the release when it starts (MappingStore.initialize, *)
(* from app/main.py or a consumer's run) and keeps its cache until it      *)
(* ends.  initialize reads the predefined mappings, saves them, and loads  *)
(* the generated directory; other processes come between the three.        *)
(*                                                                         *)
(* RawWorkers are the processes that only look mappings up: the raw-event  *)
(* consumers, and the API that answers POST /mappings/resolve.             *)
(***************************************************************************)
EXTENDS MappingStore, Naturals, Sequences

CONSTANTS
    Releases,      \* the predefined mappings of each release, by case id
    QuietReleases  \* drift consumers are stopped, and nothing starts, at a release

ASSUME ReleasesAssumption ==
    /\ Releases \in Seq([Cases -> Mappings \cup {Null}])
    /\ Len(Releases) > 0
    /\ QuietReleases \in BOOLEAN

VARIABLES
    release,    \* the release in the program's directory
    pc,         \* of each process: down, starting (read, saved), up
    loaded,     \* the release each process read when it started
    generating  \* the case a drift consumer asks the AI about, or Null

vars == <<storeVars, release, pc, loaded, generating>>

TypeOK ==
    /\ StoreTypeOK
    /\ release \in DOMAIN Releases
    /\ pc \in [Workers -> {"down", "read", "saved", "up"}]
    /\ loaded \in [Workers -> DOMAIN Releases]
    /\ generating \in [Workers -> Cases \cup {Null}]

Init ==
    /\ StoreInit
    /\ release = 1
    /\ pc = [w \in Workers |-> "down"]
    /\ loaded = [w \in Workers |-> 1]
    /\ generating = [w \in Workers |-> Null]

Goto(w, label) == pc' = [pc EXCEPT ![w] = label]

Starting(w) == pc[w] \in {"read", "saved"}

\* The mapping release n ships for c, or Null.
Shipped(n, c) == Releases[n][c]

--------------------------------------------------------------------------------
(***************************************************************************)
(* initialize.                                                             *)
(***************************************************************************)
ReadPredefined(w) ==
    /\ pc[w] = "down"
    /\ Goto(w, "read")
    /\ loaded' = [loaded EXCEPT ![w] = release]
    /\ UNCHANGED <<storeVars, release, generating>>

\* Mutant: a mapping that is there is not replaced.
SavePredefinedMissing(w) ==
    /\ pc[w] = "read"
    /\ Goto(w, "saved")
    /\ disk' = [c \in Cases |-> IF disk[c] = Null THEN Shipped(loaded[w], c) ELSE disk[c]]
    /\ cache' = [cache EXCEPT ![w] = Releases[loaded[w]]]
    /\ UNCHANGED <<release, loaded, generating>>

SavePredefined(w) ==
    /\ pc[w] = "read"
    /\ Goto(w, "saved")
    /\ disk' = [c \in Cases |->
           IF Shipped(loaded[w], c) # Null THEN Shipped(loaded[w], c) ELSE disk[c]]
    /\ cache' = [cache EXCEPT ![w] = Releases[loaded[w]]]
    /\ UNCHANGED <<release, loaded, generating>>

LoadFiles(w) ==
    /\ pc[w] = "saved"
    /\ Goto(w, "up")
    /\ cache' = [cache EXCEPT ![w] =
           [c \in Cases |-> IF disk[c] # Null THEN disk[c] ELSE @[c]]]
    /\ UNCHANGED <<disk, release, loaded, generating>>

--------------------------------------------------------------------------------
(***************************************************************************)
(* A process at work.                                                      *)
(***************************************************************************)
\* resolve_mapping, or the lookup of a consumer: get.
Resolve(w, c) ==
    /\ pc[w] = "up"
    /\ generating[w] = Null
    /\ Get(w, c)
    /\ UNCHANGED <<release, pc, loaded, generating>>

\* Mutant: the event goes to the AI without a lookup.
BeginGenerateUnchecked(w, c) ==
    /\ w \in DriftWorkers
    /\ pc[w] = "up"
    /\ generating[w] = Null
    /\ \A v \in DriftWorkers : generating[v] # c
    /\ generating' = [generating EXCEPT ![w] = c]
    /\ UNCHANGED <<storeVars, release, pc, loaded>>

\* A drift consumer finds no mapping.  No other is busy with the case: all its
\* records are on one partition (EventPipeline, OneGeneratorPerCase).
BeginGenerate(w, c) ==
    /\ w \in DriftWorkers
    /\ pc[w] = "up"
    /\ generating[w] = Null
    /\ Lookup(w, c) = Null
    /\ \A v \in DriftWorkers : generating[v] # c
    /\ generating' = [generating EXCEPT ![w] = c]
    /\ UNCHANGED <<storeVars, release, pc, loaded>>

\* The AI's mapping passed every check, minutes later: save.
SaveGenerated(w) ==
    /\ generating[w] # Null
    /\ \E m \in Mappings : Save(w, generating[w], m)
    /\ generating' = [generating EXCEPT ![w] = Null]
    /\ UNCHANGED <<release, pc, loaded>>

\* No mapping: the event goes to failed-events.
GenerateFails(w) ==
    /\ generating[w] # Null
    /\ generating' = [generating EXCEPT ![w] = Null]
    /\ UNCHANGED <<storeVars, release, pc, loaded>>

--------------------------------------------------------------------------------
(***************************************************************************)
(* Operation.                                                              *)
(***************************************************************************)
\* A process is stopped, or dies, at any point.
Stop(w) ==
    /\ pc[w] # "down"
    /\ Goto(w, "down")
    /\ Forget(w)
    /\ generating' = [generating EXCEPT ![w] = Null]
    /\ UNCHANGED <<release, loaded>>

\* The new release is in place; processes take it over as they are restarted.
Release ==
    /\ release < Len(Releases)
    /\ QuietReleases =>
        /\ \A w \in DriftWorkers : pc[w] = "down"
        /\ \A w \in Workers : ~ Starting(w)
    /\ release' = release + 1
    /\ UNCHANGED <<storeVars, pc, loaded, generating>>

Next ==
    \/ \E w \in Workers :
        \/ ReadPredefined(w) \/ SavePredefined(w) \/ LoadFiles(w)
        \/ \E c \in Cases : Resolve(w, c) \/ BeginGenerate(w, c)
        \/ SaveGenerated(w) \/ GenerateFails(w)
        \/ Stop(w)
    \/ Release

Spec == Init /\ [][Next]_vars

--------------------------------------------------------------------------------
Current(w) == pc[w] = "up" /\ loaded[w] = release

\* test_mapping_store.py:173, "predefined mapping has startup priority": a process
\* that has started gives the predefined mapping of the release it read, and not
\* one that was generated before (mapping_store.py:53-58).
StartupPriority ==
    \A w \in Workers, c \in Cases :
        pc[w] = "up" /\ Shipped(loaded[w], c) # Null => Lookup(w, c) = Shipped(loaded[w], c)

\* Once every running process has been restarted on a release, all of them have
\* the same mapping of every case, the one on disk: what POST /mappings/resolve
\* answers is what the consumers do (routes.py:144, raw_event_consumer.py:40).
RolloutConverges ==
    (\A w \in Workers : pc[w] = "up" => Current(w)) =>
        \A w \in Workers, c \in Cases : pc[w] = "up" => Lookup(w, c) = disk[c]

\* A process never changes its mind while it runs, whatever other processes and
\* releases do to the files: clients of resolve_mapping and events of a case see
\* one mapping from each process (mapping_store.py:65-67).
ResolveIsStable ==
    [][\A w \in Workers, c \in Cases :
        pc[w] = "up" /\ pc'[w] = "up" /\ cache[w][c] # Null => cache'[w][c] = cache[w][c]]_vars

\* A drift consumer is up when it generates, and for a case that has no file.
GeneratesUnmapped ==
    \A w \in Workers : generating[w] # Null =>
        /\ w \in DriftWorkers /\ pc[w] = "up"
        /\ disk[generating[w]] = Null
        /\ \A v \in Workers \ {w} : generating[v] # generating[w]

\* Drift consumers at work, and processes that start, are of the current release.
WritersAreCurrent ==
    \A w \in Workers : (w \in DriftWorkers /\ pc[w] # "down") \/ Starting(w) => loaded[w] = release

\* A process of the current release has put its predefined mappings on disk.
DiskIsCurrent ==
    \A w \in Workers, c \in Cases :
        /\ pc[w] \in {"saved", "up"} /\ loaded[w] = release /\ Shipped(release, c) # Null
        => disk[c] = Shipped(release, c)

\* And it has in its memory what is on disk.
CurrentIsCoherent ==
    \A w \in Workers, c \in Cases :
        /\ pc[w] = "saved" => cache[w][c] = Shipped(loaded[w], c)
        /\ Current(w) => cache[w][c] \in {Null, disk[c]}

\* What it loaded stays.
PredefinedStays ==
    \A w \in Workers, c \in Cases :
        pc[w] = "up" /\ Shipped(loaded[w], c) # Null => cache[w][c] = Shipped(loaded[w], c)

\* The inductive invariant behind StartupPriority and RolloutConverges, for quiet
\* releases.
RolloutInv ==
    /\ TypeOK
    /\ \A w \in Workers : loaded[w] <= release
    /\ GeneratesUnmapped
    /\ WritersAreCurrent
    /\ DiskIsCurrent
    /\ CurrentIsCoherent
    /\ PredefinedStays

================================================================================

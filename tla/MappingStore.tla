----------------------------- MODULE MappingStore ------------------------------
(***************************************************************************)
(* app/normalization/mapping_store.py, at the granularity of its methods:  *)
(* one directory of generated mapping files shared by every process, and   *)
(* in each process a MappingStore object with a memory cache in front of   *)
(* it.  A mapping is the value of its static_fields and fields; a file is  *)
(* replaced in one step (os.replace), so a reader sees a whole mapping.    *)
(***************************************************************************)
EXTENDS Deployment

CONSTANTS
    Mappings,      \* values a RuntimeMapping can have
    Predefined,    \* mappings shipped in config/mappings/predefined, by case id
    InitialDisks   \* contents the generated directory may have at first

ASSUME StoreAssumption ==
    /\ DOMAIN Predefined \subseteq Cases
    /\ \A c \in DOMAIN Predefined : Predefined[c] \in Mappings
    /\ Null \notin Mappings
    /\ InitialDisks \subseteq [Cases -> Mappings \cup {Null}]

VARIABLES
    disk,   \* generated/{case_id}.json, Null when there is no such file
    cache   \* _mappings_by_case_id of each process

storeVars == <<disk, cache>>

StoreTypeOK ==
    /\ disk \in [Cases -> Mappings \cup {Null}]
    /\ cache \in [Workers -> [Cases -> Mappings \cup {Null}]]

StoreInit ==
    /\ disk \in InitialDisks
    /\ cache = [w \in Workers |-> [c \in Cases |-> Null]]

--------------------------------------------------------------------------------
\* Mutant: a generated file is kept in preference to the predefined mapping.
WithPredefinedLast(d) ==
    [c \in Cases |-> IF d[c] = Null /\ c \in DOMAIN Predefined THEN Predefined[c] ELSE d[c]]

\* The directory after every predefined mapping was saved over it.
WithPredefined(d) ==
    [c \in Cases |-> IF c \in DOMAIN Predefined THEN Predefined[c] ELSE d[c]]

\* initialize: save the predefined mappings, then load every file.
Initialize(w) ==
    /\ disk' = WithPredefined(disk)
    /\ cache' = [cache EXCEPT ![w] = WithPredefined(disk)]

\* Mutant: only the memory is consulted.
LookupMemory(w, c) == cache[w][c]

\* Mutant: the file is read again at every call.
LookupFileFirst(w, c) == IF disk[c] # Null THEN disk[c] ELSE cache[w][c]

\* What get returns: the cached mapping, else the file's, else None.
Lookup(w, c) == IF cache[w][c] # Null THEN cache[w][c] ELSE disk[c]

\* What get leaves behind: a mapping it found is cached, a miss is not.
Get(w, c) ==
    /\ cache' = [cache EXCEPT ![w][c] = Lookup(w, c)]
    /\ UNCHANGED disk

\* save: the file is replaced, then the process's own cache is updated.
Save(w, c, m) ==
    /\ disk' = [disk EXCEPT ![c] = m]
    /\ cache' = [cache EXCEPT ![w][c] = m]

\* The process ends and its memory with it.
Forget(w) ==
    /\ cache' = [cache EXCEPT ![w] = [c \in Cases |-> Null]]
    /\ UNCHANGED disk

================================================================================

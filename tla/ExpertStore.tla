---------------------------- MODULE ExpertStore ----------------------------
(***************************************************************************)
(* Where the weights of an expert come from.                               *)
(* benchmarks/expert_store_bootstrap.py copies the files of some layers    *)
(* from the read-only source stores to a local store and keeps the experts *)
(* of the other layers in RAM; bench_real_inference.py then runs an engine *)
(* whose ModelLoader is given the RAM experts and the local store only.    *)
(* The process may die at any step: files stay, all else is lost.  A file  *)
(* whose copying was cut off is shorter than its source.                   *)
(***************************************************************************)
EXTENDS FiniteSets, Naturals

CONSTANTS
    RamExpert,      \* the keys of RAM_LAYERS
    DiskExpert,     \* the keys of DISK_LAYERS
    NoExpert,
    MaxCrashes      \* bound on how often the process dies

Expert == RamExpert \cup DiskExpert

\* Each expert has exactly one source file, so find_source_file returns it.
ASSUME StoreAssumption ==
    /\ RamExpert \cap DiskExpert = {}
    /\ IsFiniteSet(Expert)
    /\ NoExpert \notin Expert
    /\ MaxCrashes \in Nat

VARIABLES
    local,      \* the file of each disk key in LOCAL_STORE
    phase,      \* what the process is doing
    todo,       \* the keys its loop has still to visit
    opened,     \* the key whose file is being written
    ram,        \* keys of ram_experts
    preloaded,  \* keys of _preloaded_cpu_experts
    crashes     \* how often the process died

memory == <<phase, todo, opened, ram, preloaded>>
storeVars == <<local, memory, crashes>>

StoreTypeOK ==
    /\ local \in [DiskExpert -> {"absent", "partial", "full"}]
    /\ phase \in {"down", "copy", "ram", "ready", "serve"}
    /\ todo \subseteq Expert
    /\ opened \in DiskExpert \cup {NoExpert}
    /\ opened # NoExpert => phase = "copy" /\ opened \in todo /\ local[opened] = "partial"
    /\ ram \subseteq RamExpert
    /\ preloaded \subseteq ram
    /\ crashes \in 0 .. MaxCrashes

-----------------------------------------------------------------------------
StoreInit ==
    /\ phase = "down" /\ todo = {} /\ opened = NoExpert /\ ram = {} /\ preloaded = {}
    /\ local = [k \in DiskExpert |-> "absent"]
    /\ crashes = 0

Ends ==
    /\ phase' = "down" /\ todo' = {} /\ opened' = NoExpert
    /\ ram' = {} /\ preloaded' = {}

\* The process dies: it is killed, or something it calls raises.
Crash ==
    /\ phase # "down"
    /\ crashes < MaxCrashes
    /\ crashes' = crashes + 1
    /\ Ends
    /\ UNCHANGED local

Loops(p, keys) == phase' = p /\ todo' = keys

\* prepare_expert_store is called.
Prepare ==
    /\ phase = "down"
    /\ Loops("copy", DiskExpert)
    /\ UNCHANGED <<local, opened, ram, preloaded, crashes>>

\* Mutants: a file is complete when it exists; no file is ever complete.
IsCompleteIfThere(k) == local[k] # "absent"
IsCompleteNever(k) == local[k] = "larger than its source"

\* dst is a file as long as its source.
IsComplete(k) == local[k] = "full"

\* The loop of copy_disk_experts comes to a key: a file that is complete is
\* skipped, any other is opened for writing, which cuts it down.
Skip(k) ==
    /\ IsComplete(k)
    /\ Loops("copy", todo \ {k})
    /\ UNCHANGED <<local, opened>>

\* Mutant: the file is opened for appending.
OpenToAppend(k) ==
    /\ ~ IsComplete(k)
    /\ opened' = k
    /\ UNCHANGED <<local, phase, todo>>

Open(k) ==
    /\ ~ IsComplete(k)
    /\ local' = [local EXCEPT ![k] = "partial"]
    /\ opened' = k
    /\ UNCHANGED <<phase, todo>>

Visit(k) ==
    /\ phase = "copy" /\ k \in todo /\ opened = NoExpert
    /\ Skip(k) \/ Open(k)
    /\ UNCHANGED <<ram, preloaded, crashes>>

\* copy2 has copied the file that is open.
Copied ==
    /\ opened # NoExpert
    /\ local' = [local EXCEPT ![opened] = "full"]
    /\ opened' = NoExpert
    /\ Loops("copy", todo \ {opened})
    /\ UNCHANGED <<ram, preloaded, crashes>>

Present == {k \in DiskExpert : local[k] # "absent"}

\* Every local file is read, whatever is in it; only their number counts.
WarmLocalDiskStore ==
    /\ phase = "copy" /\ todo = {}
    /\ Cardinality(Present) = Cardinality(DiskExpert)
    /\ Loops("ram", RamExpert)
    /\ UNCHANGED <<local, opened, ram, preloaded, crashes>>

\* Mutant: the loop does not advance.
LoadRamExpertAgain(k) ==
    /\ phase = "ram" /\ k \in todo
    /\ ram' = ram \cup {k}
    /\ UNCHANGED <<local, phase, todo, opened, preloaded, crashes>>

LoadRamExpert(k) ==
    /\ phase = "ram" /\ k \in todo
    /\ ram' = ram \cup {k}
    /\ Loops("ram", todo \ {k})
    /\ UNCHANGED <<local, opened, preloaded, crashes>>

\* verify_store compares names, not sizes.
VerifyStore ==
    /\ phase = "ram" /\ todo = {}
    /\ ram = RamExpert
    /\ Present = DiskExpert
    /\ Loops("ready", {})
    /\ UNCHANGED <<local, opened, ram, preloaded, crashes>>

\* Mutant: the engine is started without its preloaded experts.
SetNothingPreloaded ==
    /\ phase = "ready"
    /\ preloaded' = {}
    /\ Loops("serve", {})
    /\ UNCHANGED <<local, opened, ram, crashes>>

SetPreloaded ==
    /\ phase = "ready"
    /\ preloaded' = ram
    /\ Loops("serve", {})
    /\ UNCHANGED <<local, opened, ram, crashes>>

\* _resolve_expert_path: the local store has a file of that name.
Resolves(k) == k \in Present

\* The expert load_expert returns, NoExpert when it raises: the preloaded
\* tier is asked before any file; the tensors of a file that was cut off
\* cannot be read.
LoadExpert(k) ==
    IF k \in preloaded \/ (Resolves(k) /\ local[k] = "full") THEN k ELSE NoExpert

\* A pass asks for an expert; an exception ends the process.
Ask(k) ==
    /\ phase = "serve"
    /\ IF LoadExpert(k) = NoExpert
       THEN Ends /\ UNCHANGED <<local, crashes>>
       ELSE UNCHANGED storeVars

\* The run is over; the local store outlives it.
Finish ==
    /\ phase = "serve"
    /\ Ends
    /\ UNCHANGED <<local, crashes>>

Bootstrap ==
    \/ Prepare
    \/ \E k \in DiskExpert : Visit(k)
    \/ Copied
    \/ WarmLocalDiskStore
    \/ \E k \in RamExpert : LoadRamExpert(k)
    \/ VerifyStore
    \/ SetPreloaded

StoreNext ==
    \/ Bootstrap
    \/ \E k \in Expert : Ask(k)
    \/ Finish
    \/ Crash

\* The process goes on until it dies, and is started again.
StoreSpec == StoreInit /\ [][StoreNext]_storeVars /\ WF_storeVars(Bootstrap)

-----------------------------------------------------------------------------
(***************************************************************************)
(* Properties                                                              *)
(***************************************************************************)

\* An engine that was started on a prepared store finds every expert: none is
\* missing from both tiers, and no file that an earlier process left half
\* written is taken for a whole one, although the checks before it count and
\* compare names only (expert_store_bootstrap.py:88-94 and 170-214).
ServesEveryExpert ==
    phase \in {"ready", "serve"} =>
        /\ \A k \in DiskExpert : LoadExpert(k) = k
        /\ ram = RamExpert
        /\ phase = "serve" => \A k \in RamExpert : LoadExpert(k) = k

\* "Existing files with the same size are skipped, making this resumable"
\* (expert_store_bootstrap.py:52): what one process has copied, no later one
\* copies again.
KeepsCopied ==
    [][\A k \in DiskExpert : local[k] = "full" => local'[k] = "full"]_storeVars

\* The preparation comes to its end, however often it was cut off before.
Resumes == phase = "down" ~> phase = "serve"
=============================================================================

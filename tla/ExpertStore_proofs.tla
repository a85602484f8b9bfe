------------------------- MODULE ExpertStore_proofs -------------------------
(***************************************************************************)
(* Proofs about ExpertStore, for any sets of experts and any number of     *)
(* processes that die.                                                     *)
(***************************************************************************)
EXTENDS ExpertStore, TLAPS

\* What the loop of copy_disk_experts has passed is whole, whichever process
\* wrote it; everything after the loop relies on that, since the checks that
\* follow look at names only.
CopiedSoFar ==
    /\ phase = "copy" => todo \subseteq DiskExpert
    /\ phase = "copy" => \A k \in DiskExpert \ todo : local[k] = "full"
    /\ phase \in {"ram", "ready", "serve"} => \A k \in DiskExpert : local[k] = "full"

\* What of the experts kept in RAM has been loaded and handed to the loader.
LoadedSoFar ==
    /\ phase \in {"down", "copy"} => ram = {}
    /\ phase \in {"down", "copy", "ram", "ready"} => preloaded = {}
    /\ phase \in {"ready", "serve"} => ram = RamExpert
    /\ phase = "serve" => preloaded = RamExpert

StoreInv == StoreTypeOK /\ CopiedSoFar /\ LoadedSoFar

LEMMA StoreStart == StoreInit => StoreInv
  BY StoreAssumption DEF StoreInit, StoreInv, StoreTypeOK, CopiedSoFar, LoadedSoFar, Expert

LEMMA StoreStep == StoreInv /\ [StoreNext]_storeVars => StoreInv'
<1>. SUFFICES ASSUME StoreInv, [StoreNext]_storeVars PROVE StoreInv'
  OBVIOUS
<1>. USE StoreAssumption
     DEF StoreInv, StoreTypeOK, CopiedSoFar, LoadedSoFar, Expert, Loops
<1>1. CASE Prepare
  BY <1>1 DEF Prepare
<1>2. ASSUME NEW k \in DiskExpert, Visit(k) PROVE StoreInv'
  <2>1. CASE Skip(k)  BY <1>2, <2>1 DEF Visit, Skip, IsComplete
  <2>2. CASE Open(k)  BY <1>2, <2>2 DEF Visit, Open, IsComplete
  <2>. QED  BY <1>2, <2>1, <2>2 DEF Visit
<1>3. CASE Copied
  BY <1>3 DEF Copied
<1>4. CASE WarmLocalDiskStore
  BY <1>4 DEF WarmLocalDiskStore
<1>5. ASSUME NEW k \in RamExpert, LoadRamExpert(k) PROVE StoreInv'
  BY <1>5 DEF LoadRamExpert
<1>6. CASE VerifyStore
  BY <1>6 DEF VerifyStore
<1>7. CASE SetPreloaded
  BY <1>7 DEF SetPreloaded
<1>8. ASSUME NEW k \in Expert, Ask(k) PROVE StoreInv'
  BY <1>8 DEF Ask, Ends, storeVars, memory
<1>9. CASE Finish
  BY <1>9 DEF Finish, Ends
<1>10. CASE Crash
  BY <1>10 DEF Crash, Ends
<1>11. CASE UNCHANGED storeVars
  BY <1>11 DEF storeVars, memory
<1>. QED
  BY <1>1, <1>2, <1>3, <1>4, <1>5, <1>6, <1>7, <1>8, <1>9, <1>10, <1>11
     DEF StoreNext, Bootstrap, Expert

LEMMA StoreAlways == StoreSpec => []StoreInv
  BY StoreStart, StoreStep, PTL DEF StoreSpec

\* The preparation keeps its bookkeeping typed, wherever processes died.
THEOREM StoreTypes == StoreSpec => []StoreTypeOK
<1>1. StoreInv => StoreTypeOK
  BY DEF StoreInv
<1>. QED  BY <1>1, StoreAlways, PTL

\* Whenever an engine runs on the store, every expert can be loaded whole.
THEOREM EveryExpertServed == StoreSpec => []ServesEveryExpert
<1>1. StoreInv => ServesEveryExpert
  BY DEF StoreInv, CopiedSoFar, LoadedSoFar, StoreTypeOK, ServesEveryExpert, LoadExpert,
         Resolves, Present
<1>. QED  BY <1>1, StoreAlways, PTL

\* No process opens a file again that has once been copied whole.
THEOREM NothingCopiedTwice == StoreSpec => KeepsCopied
<1>1. StoreInv /\ [StoreNext]_storeVars =>
        [\A k \in DiskExpert : local[k] = "full" => local'[k] = "full"]_storeVars
  <2>. SUFFICES ASSUME StoreInv, [StoreNext]_storeVars,
                       NEW k \in DiskExpert, local[k] = "full"
                PROVE  local'[k] = "full"
    OBVIOUS
  <2>. USE DEF StoreInv, StoreTypeOK
  <2>1. ASSUME NEW j \in DiskExpert, Visit(j) PROVE local'[k] = "full"
    BY <2>1 DEF Visit, Skip, Open, IsComplete
  <2>2. CASE Copied
    BY <2>2 DEF Copied
  <2>3. CASE UNCHANGED local
    BY <2>3
  <2>. QED
    BY <2>1, <2>2, <2>3 DEF StoreNext, Bootstrap, Prepare, WarmLocalDiskStore, LoadRamExpert,
       VerifyStore, SetPreloaded, Ask, Finish, Crash, storeVars
<1>. QED  BY <1>1, StoreAlways, PTL DEF StoreSpec, KeepsCopied
=============================================================================

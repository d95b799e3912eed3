-------------------------- MODULE TLSReloadProofs ---------------------------
(* Proofs about the hot reload of TLS material, module TLSReload. *)
EXTENDS TLSReload, TLAPS

\* What Load knows of what it has read, at each place: past the key the pair
\* matches, past the CA bundle everything parses.  Other goroutines change the
\* disk and the live pointers meanwhile, but not this.
LoadInv ==
    \A l \in Loaders :
        /\ pc[l] \in {"read_ca", "store_cert", "store_ca"} =>
               loaded[l]["cert"] = loaded[l]["key"] /\ loaded[l]["cert"] # Broken
        /\ pc[l] \in {"store_cert", "store_ca"} => loaded[l]["ca"] # Broken

Inv == TypeOK /\ LoadInv /\ LiveUsable

LEMMA InvInit == Init => Inv
  BY ReloadAssumption
  DEF Init, Inv, TypeOK, LoadInv, LiveUsable, Files, Generations, Broken, PCs, Changes

LEMMA TypeOKNext == Inv /\ [Next]_vars => TypeOK'
<1> SUFFICES ASSUME Inv, [Next]_vars PROVE TypeOK'
  OBVIOUS
<1> USE ReloadAssumption DEF Inv, TypeOK, Files, PCs, Goto, Read, Changes
<1>1. ASSUME NEW f \in Files, Rotate(f) PROVE TypeOK'
  <2>1. DirOf[f] \in Dirs
    BY DEF Dirs
  <2> QED
    BY <1>1, <2>1 DEF Rotate, Generations, Running
<1>2. ASSUME NEW d \in Dirs, handleEvent(d) PROVE TypeOK'
  BY <1>2 DEF handleEvent
<1>3. ASSUME NEW d \in Dirs, NEW l \in Loaders, Fire(d, l) PROVE TypeOK'
  BY <1>3 DEF Fire
<1>4. ASSUME NEW l \in Loaders, ReadCert(l) PROVE TypeOK'
  BY <1>4 DEF ReadCert
<1>5. ASSUME NEW l \in Loaders, ReadKey(l) PROVE TypeOK'
  BY <1>5 DEF ReadKey
<1>6. ASSUME NEW l \in Loaders, ReadCA(l) PROVE TypeOK'
  BY <1>6 DEF ReadCA
<1>7. ASSUME NEW l \in Loaders, StoreCert(l) PROVE TypeOK'
  BY <1>7 DEF StoreCert, LoadInv
<1>8. ASSUME NEW l \in Loaders, StoreCA(l) PROVE TypeOK'
  BY <1>8 DEF StoreCA, LoadInv
<1>9. CASE UNCHANGED vars
  BY <1>9 DEF vars
<1>10. ASSUME NEW d \in Dirs, Watch(d) \/ Overflow(d) PROVE TypeOK'
  BY <1>10 DEF Watch, Overflow
<1> QED
  BY <1>1, <1>2, <1>3, <1>4, <1>5, <1>6, <1>7, <1>8, <1>9, <1>10 DEF Next, Load

LEMMA InvNext == Inv /\ [Next]_vars => LoadInv' /\ LiveUsable'
<1> SUFFICES ASSUME Inv, [Next]_vars PROVE LoadInv' /\ LiveUsable'
  OBVIOUS
<1> USE DEF Inv, TypeOK, LoadInv, LiveUsable, Files, PCs, Goto, Read
<1>1. ASSUME NEW f \in Files, Rotate(f) PROVE LoadInv' /\ LiveUsable'
  BY <1>1 DEF Rotate
<1>2. ASSUME NEW d \in Dirs, handleEvent(d) PROVE LoadInv' /\ LiveUsable'
  BY <1>2 DEF handleEvent
<1>3. ASSUME NEW d \in Dirs, NEW l \in Loaders, Fire(d, l) PROVE LoadInv' /\ LiveUsable'
  BY <1>3 DEF Fire
<1>4. ASSUME NEW l \in Loaders, ReadCert(l) PROVE LoadInv' /\ LiveUsable'
  BY <1>4 DEF ReadCert
<1>5. ASSUME NEW l \in Loaders, ReadKey(l) PROVE LoadInv' /\ LiveUsable'
  BY <1>5 DEF ReadKey
<1>6. ASSUME NEW l \in Loaders, ReadCA(l) PROVE LoadInv' /\ LiveUsable'
  BY <1>6 DEF ReadCA
<1>7. ASSUME NEW l \in Loaders, StoreCert(l) PROVE LoadInv' /\ LiveUsable'
  BY <1>7 DEF StoreCert
<1>8. ASSUME NEW l \in Loaders, StoreCA(l) PROVE LoadInv' /\ LiveUsable'
  BY <1>8 DEF StoreCA
<1>9. CASE UNCHANGED vars
  BY <1>9 DEF vars
<1>10. ASSUME NEW d \in Dirs, Watch(d) \/ Overflow(d) PROVE LoadInv' /\ LiveUsable'
  BY <1>10 DEF Watch, Overflow
<1> QED
  BY <1>1, <1>2, <1>3, <1>4, <1>5, <1>6, <1>7, <1>8, <1>9, <1>10 DEF Next, Load

\* For any number of overlapping Loads and any sequence of rotations the live
\* certificate has its own key and the live CA bundle parses.
THEOREM LiveUsableTheorem == Spec => []LiveUsable
<1>1. Inv /\ [Next]_vars => Inv'
  BY TypeOKNext, InvNext DEF Inv
<1>2. Inv => LiveUsable
  BY DEF Inv
<1> QED
  BY <1>1, <1>2, InvInit, PTL DEF Spec

\* Only Load's two stores change the live material, each to what a valid Load
\* has read.
THEOREM ValidatedTheorem == Spec => ValidatedBeforeApplied
<1>1. Inv /\ [Next]_vars => Inv'
  BY TypeOKNext, InvNext DEF Inv
<1> DEFINE Applied ==
      live' # live =>
         \E l \in Loaders :
            /\ pc[l] \in {"store_cert", "store_ca"}
            /\ \A f \in Files : live'[f] # live[f] => live'[f] = loaded[l][f]
<1>2. Inv /\ Next => Applied
  <2> SUFFICES ASSUME Inv, Next, live' # live PROVE Applied
    OBVIOUS
  <2>1. PICK l \in Loaders : StoreCert(l) \/ StoreCA(l)
    BY DEF Next, Load, Watch, Rotate, Overflow, handleEvent, Fire, ReadCert, ReadKey, ReadCA
  <2>2. pc[l] \in {"store_cert", "store_ca"}
    BY <2>1 DEF StoreCert, StoreCA, Goto
  <2>3. \A f \in Files : live'[f] # live[f] => live'[f] = loaded[l][f]
    BY <2>1 DEF StoreCert, StoreCA, Inv, TypeOK, Files
  <2> QED
    BY <2>2, <2>3
<1>3. Inv /\ [Next]_vars => [Applied]_vars
  BY <1>2
<1> QED
  BY <1>1, <1>3, InvInit, PTL DEF Spec, ValidatedBeforeApplied
=============================================================================

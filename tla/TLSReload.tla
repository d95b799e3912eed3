----------------------------- MODULE TLSReload ------------------------------
(***************************************************************************)
(* Hot reload of TLS material: the watcher of internal/certwatcher, and    *)
(* Registry.ReloadDir and Reloader.Load of internal/tlsutil.               *)
(*                                                                         *)
(* One Reloader with a certificate, its key and a CA bundle.  A file's     *)
(* content is the generation that was written to it, or Broken.  The       *)
(* certificate manager (external) replaces one file after the other, in    *)
(* any order, from before the directories are watched on.  fsnotify        *)
(* (external) delivers one event per directory, late and merged, or loses  *)
(* it when its queue overflows.  Every expiry of a directory's timer runs  *)
(* reload in a goroutine of its own, so that Loads can overlap: those of   *)
(* two directories, or of one whose timer was Reset while its last reload  *)
(* was still running.                                                      *)
(***************************************************************************)
EXTENDS Naturals, FiniteSets

CONSTANTS
    DirOf,      \* the directory of each file
    Loaders,    \* goroutines running reload at the same time, at most
    MaxWrites   \* bound: writes of the certificate manager

Files == {"cert", "key", "ca"}
Dirs == {DirOf[f] : f \in Files}

ASSUME ReloadAssumption ==
    /\ DOMAIN DirOf = Files
    /\ IsFiniteSet(Loaders)
    /\ MaxWrites \in Nat

VARIABLES
    disk,     \* the content of the files
    writes,   \* how many writes there have been
    watched,  \* the directories added to fsnotify's watcher
    event,    \* fsnotify has an event of the directory to deliver
    timer,    \* Watcher.timers: the directory's timer is armed
    pc,       \* where each reload goroutine is
    loaded,   \* what it has read so far
    live,     \* the Reloader's atomic pointers: cert (with its key) and caPool
    behind,   \* history: the Loads under way since before the last write
    change    \* history: what became of the last write

vars == <<disk, writes, watched, event, timer, pc, loaded, live, behind, change>>

\* What no parser accepts; generations start at 1.
Broken == 0
Generations == 0 .. MaxWrites + 1

PCs == {"idle", "read_cert", "read_key", "read_ca", "store_cert", "store_ca"}

\* No event of a watched directory was handled after the last write; one was;
\* one was, but the Load that started last ran beside one from before the write.
Changes == {"unheard", "heard", "raced"}

\* server.New has loaded the first generation; nothing is watched yet.
Init ==
    /\ disk = [f \in Files |-> 1]
    /\ writes = 0
    /\ watched = {}
    /\ event = [d \in Dirs |-> FALSE]
    /\ timer = [d \in Dirs |-> FALSE]
    /\ pc = [l \in Loaders |-> "idle"]
    /\ loaded = [l \in Loaders |-> [f \in Files |-> 1]]
    /\ live = [f \in Files |-> 1]
    /\ behind = {}
    /\ change = "heard"

\* watcher.Add; if it fails the process ends.
Watch(d) ==
    /\ d \notin watched
    /\ watched' = watched \union {d}
    /\ UNCHANGED <<disk, writes, event, timer, pc, loaded, live, behind, change>>

Running == {l \in Loaders : pc[l] # "idle"}

\* The certificate manager replaces a file by another generation of it, or by
\* a bad one.
Rotate(f) ==
    /\ writes < MaxWrites
    /\ writes' = writes + 1
    /\ \E g \in Generations \ {disk[f]} : disk' = [disk EXCEPT ![f] = g]
    /\ event' = [event EXCEPT ![DirOf[f]] = @ \/ DirOf[f] \in watched]
    /\ behind' = Running /\ change' = "unheard"
    /\ UNCHANGED <<watched, timer, pc, loaded, live>>

\* fsnotify reports an overflow instead of the event; Run logs the error.
Overflow(d) ==
    /\ event[d]
    /\ event' = [event EXCEPT ![d] = FALSE]
    /\ UNCHANGED <<disk, writes, watched, timer, pc, loaded, live, behind, change>>

\* Mutant of handleEvent: an event during a reload is dropped.
handleEventMutDrop(d) ==
    /\ watched = Dirs /\ event[d]
    /\ event' = [event EXCEPT ![d] = FALSE]
    /\ timer' = IF Running = {} THEN [timer EXCEPT ![d] = TRUE] ELSE timer
    /\ change' = "heard"
    /\ UNCHANGED <<disk, writes, watched, pc, loaded, live, behind>>

\* Run, which starts when all directories are watched, takes an event;
\* handleEvent creates the directory's timer or resets it.
handleEvent(d) ==
    /\ watched = Dirs /\ event[d]
    /\ event' = [event EXCEPT ![d] = FALSE]
    /\ timer' = [timer EXCEPT ![d] = TRUE]
    /\ change' = "heard"
    /\ UNCHANGED <<disk, writes, watched, pc, loaded, live, behind>>

\* The timer expires: reload starts in a goroutine and calls Load.
Fire(d, l) ==
    /\ timer[d] /\ pc[l] = "idle"
    /\ timer' = [timer EXCEPT ![d] = FALSE]
    /\ pc' = [pc EXCEPT ![l] = "read_cert"]
    /\ change' = IF change = "unheard" THEN change
                 ELSE IF behind = {} THEN "heard" ELSE "raced"
    /\ UNCHANGED <<disk, writes, watched, event, loaded, live, behind>>

-----------------------------------------------------------------------------
(* Load *)

Read(l, f) == loaded' = [loaded EXCEPT ![l][f] = disk[f]]

\* Load goes on, or returns (nil or an error that is only logged).
Goto(l, from, to) ==
    /\ pc[l] = from /\ pc' = [pc EXCEPT ![l] = to]
    /\ behind' = IF to = "idle" THEN behind \ {l} ELSE behind

ReadCert(l) ==
    /\ Goto(l, "read_cert", "read_key")
    /\ Read(l, "cert")
    /\ UNCHANGED <<disk, writes, watched, event, timer, live, change>>

\* Mutant of ReadKey: certificate and key are not compared.
ReadKeyMutPair(l) ==
    /\ Read(l, "key")
    /\ IF disk["key"] # Broken /\ loaded[l]["cert"] # Broken
       THEN Goto(l, "read_key", "read_ca")
       ELSE Goto(l, "read_key", "idle")
    /\ UNCHANGED <<disk, writes, watched, event, timer, live, change>>

\* The second half of LoadX509KeyPair: it fails unless the key is that of the
\* certificate read before.
ReadKey(l) ==
    /\ Read(l, "key")
    /\ IF disk["key"] # Broken /\ disk["key"] = loaded[l]["cert"]
       THEN Goto(l, "read_key", "read_ca")
       ELSE Goto(l, "read_key", "idle")
    /\ UNCHANGED <<disk, writes, watched, event, timer, live, change>>

\* Mutant of ReadCA: the certificate is stored before the CA bundle is parsed.
ReadCAMutEarly(l) ==
    /\ Read(l, "ca")
    /\ live' = [live EXCEPT !["cert"] = loaded[l]["cert"], !["key"] = loaded[l]["key"]]
    /\ IF disk["ca"] # Broken
       THEN Goto(l, "read_ca", "store_ca")
       ELSE Goto(l, "read_ca", "idle")
    /\ UNCHANGED <<disk, writes, watched, event, timer, change>>

\* LoadCAPool.
ReadCA(l) ==
    /\ Read(l, "ca")
    /\ IF disk["ca"] # Broken
       THEN Goto(l, "read_ca", "store_cert")
       ELSE Goto(l, "read_ca", "idle")
    /\ UNCHANGED <<disk, writes, watched, event, timer, live, change>>

\* r.cert.Store
StoreCert(l) ==
    /\ Goto(l, "store_cert", "store_ca")
    /\ live' = [live EXCEPT !["cert"] = loaded[l]["cert"], !["key"] = loaded[l]["key"]]
    /\ UNCHANGED <<disk, writes, watched, event, timer, loaded, change>>

\* r.caPool.Store
StoreCA(l) ==
    /\ Goto(l, "store_ca", "idle")
    /\ live' = [live EXCEPT !["ca"] = loaded[l]["ca"]]
    /\ UNCHANGED <<disk, writes, watched, event, timer, loaded, change>>

Load(l) ==
    \/ ReadCert(l) \/ ReadKey(l) \/ ReadCA(l) \/ StoreCert(l) \/ StoreCA(l)

Next ==
    \/ \E f \in Files : Rotate(f)
    \/ \E d \in Dirs :
          Watch(d) \/ Overflow(d) \/ handleEvent(d) \/ \E l \in Loaders : Fire(d, l)
    \/ \E l \in Loaders : Load(l)

Spec == Init /\ [][Next]_vars

\* The watches are added, events that are not lost are taken, timers expire and
\* goroutines are scheduled.
FairSpec ==
    /\ Spec
    /\ \A d \in Dirs : /\ WF_vars(Watch(d)) /\ WF_vars(handleEvent(d))
                       /\ WF_vars(\E l \in Loaders : Fire(d, l))
    /\ \A l \in Loaders : WF_vars(Load(l))

-----------------------------------------------------------------------------
TypeOK ==
    /\ disk \in [Files -> Generations]
    /\ writes \in 0 .. MaxWrites
    /\ watched \subseteq Dirs
    /\ event \in [Dirs -> BOOLEAN] /\ timer \in [Dirs -> BOOLEAN]
    /\ pc \in [Loaders -> PCs]
    /\ loaded \in [Loaders -> [Files -> Generations]]
    /\ live \in [Files -> Generations \ {Broken}]
    /\ behind \subseteq Loaders /\ change \in Changes

(***************************************************************************)
(* "A bad rotation cannot take the listener down" (README.md:223): the     *)
(* live certificate always has its own key and the live CA bundle parses,  *)
(* with files replaced one at a time under the reader's feet and Loads     *)
(* that overlap.                                                           *)
(***************************************************************************)
LiveUsable ==
    live["cert"] = live["key"] /\ live["cert"] # Broken /\ live["ca"] # Broken

(***************************************************************************)
(* "Reloads are validated before they are applied" (CHANGELOG.md:191):     *)
(* nothing is stored by a Load that goes on to fail, so a rotation with a  *)
(* bad CA bundle leaves the certificate alone, and every pointer that is   *)
(* stored gets what a complete and valid Load has read.                    *)
(***************************************************************************)
ValidatedBeforeApplied ==
    [][live' # live =>
         \E l \in Loaders :
            /\ pc[l] \in {"store_cert", "store_ca"}
            /\ \A f \in Files : live'[f] # live[f] => live'[f] = loaded[l][f]]_vars

\* What is on disk can be loaded.
DiskValid == disk["cert"] = disk["key"] /\ \A f \in Files : disk[f] # Broken

(***************************************************************************)
(* "Rotate this file -> picked up automatically" (README.md:232), as far   *)
(* as the code goes: once the files are left alone and valid, they become  *)
(* the live material and stay it, provided that an event of a watched      *)
(* directory was handled after the last write and that no Load from before *)
(* the write was still running beside the one that started last.  Without  *)
(* the event (a write between server.New and watcher.Add, or an overflow)  *)
(* the old material stays until the next write; without the other proviso  *)
(* the older Load may store last what it read first.                       *)
(***************************************************************************)
EventuallyCurrent == <>[](DiskValid /\ change = "heard" => live = disk)
=============================================================================

----------------------------- MODULE AccountDir -----------------------------
(***************************************************************************)
(* One account directory shared by the server processes of a machine.      *)
(*                                                                         *)
(* bootEngine (engine.go) creates the directory, takes its instance lock   *)
(* (pidlock.go), checks the network pin (networkpin.go), opens or mints    *)
(* the keys (devicekey.go, wallet.go), opens the SDK, pins the network and *)
(* brings the rest of the engine up.  A failed boot closes what it opened  *)
(* and, when this very boot created the directory and minted the keys,     *)
(* removes the directory.  Processes may crash at every step, and CLI      *)
(* commands (running.go) probe the lock meanwhile.                         *)
(*                                                                         *)
(* Directories are abstracted to what the properties read: whether it      *)
(* exists, which inode server.lock names, the keys and the pin.  The inode *)
(* matters: flock is held on an inode, not on a name.                      *)
(***************************************************************************)
EXTENDS Naturals, FiniteSets, TLAPS

CONSTANTS
    Procs,      \* the server processes that boot this account
    Probes,     \* the CLI invocations probing the lock (FindRunning)
    Networks,   \* the any-sync networks a process may be configured for
    Faults,     \* the boot steps that may fail: a subset of BootSteps
    None,       \* no holder, no pin
    Retries,    \* acquireProbeRetries
    MaxInodes,  \* bound: lock files ever created
    MaxKeys     \* bound: keys ever minted

BootSteps == {"keys", "provider", "sdk", "pin", "rest"}

ASSUME ConstantsAssumption ==
    /\ Procs \cap Probes = {}
    /\ None \notin Procs \cup Probes \cup Networks
    /\ Faults \subseteq BootSteps
    /\ Retries \in Nat /\ MaxInodes \in Nat /\ MaxKeys \in Nat

VARIABLES
    dir,      \* the directory exists
    lockFile, \* the inode <dir>/server.lock names, 0 when there is none
    key,      \* the minted keys on disk (device.key or wallet.key), 0 when none
    pin,      \* network.json
    flock,    \* flock[i]: who holds the OS lock on inode i
    inodes,   \* inodes created so far
    keys,     \* keys minted so far
    booted,   \* a boot with the present keys completed (history)
    crashed,  \* some process crashed (history)
    pc, net, fd, tries, existed, created, pinned, myKey, failing,
    probe,    \* probe[q]: where a CLI probe is
    probeFd   \* the inode it opened

disk == <<dir, lockFile, key, pin>>
locals == <<net, fd, tries, existed, created, pinned, myKey, failing>>
probes == <<probe, probeFd>>
vars == <<disk, flock, inodes, keys, booted, crashed, pc, locals, probes>>

Inodes == 1..MaxInodes
PCs == {"idle", "stat", "mkdir", "openlock", "flock", "recheck", "keys", "mint",
        "provider", "sdk", "pin", "rest", "running", "close", "unlock", "remove"}

TypeOK ==
    /\ dir \in BOOLEAN /\ lockFile \in 0..MaxInodes /\ key \in 0..MaxKeys
    /\ pin \in Networks \cup {None}
    /\ flock \in [Inodes -> Procs \cup Probes \cup {None}]
    /\ inodes \in 0..MaxInodes /\ keys \in 0..MaxKeys
    /\ booted \in BOOLEAN /\ crashed \in BOOLEAN
    /\ pc \in [Procs -> PCs]
    /\ net \in [Procs -> Networks \cup {None}]
    /\ fd \in [Procs -> 0..MaxInodes] /\ tries \in [Procs -> 0..Retries]
    /\ existed \in [Procs -> BOOLEAN] /\ created \in [Procs -> BOOLEAN]
    /\ pinned \in [Procs -> BOOLEAN] /\ failing \in [Procs -> BOOLEAN]
    /\ myKey \in [Procs -> 0..MaxKeys]
    /\ probe \in [Probes -> {"idle", "open", "held"}]
    /\ probeFd \in [Probes -> 0..MaxInodes]

Init ==
    /\ dir = FALSE /\ lockFile = 0 /\ key = 0 /\ pin = None
    /\ flock = [i \in Inodes |-> None] /\ inodes = 0 /\ keys = 0
    /\ booted = FALSE /\ crashed = FALSE
    /\ pc = [p \in Procs |-> "idle"] /\ net = [p \in Procs |-> None]
    /\ fd = [p \in Procs |-> 0] /\ tries = [p \in Procs |-> 0]
    /\ existed = [p \in Procs |-> FALSE] /\ created = [p \in Procs |-> FALSE]
    /\ pinned = [p \in Procs |-> FALSE] /\ failing = [p \in Procs |-> FALSE]
    /\ myKey = [p \in Procs |-> 0]
    /\ probe = [q \in Probes |-> "idle"] /\ probeFd = [q \in Probes |-> 0]

-----------------------------------------------------------------------------
(* Building blocks.                                                         *)

Goto(p, l) == pc' = [pc EXCEPT ![p] = l]

(* A boot that ends forgets its locals.                                     *)
Ended(p) ==
    /\ Goto(p, "idle")
    /\ net' = [net EXCEPT ![p] = None]
    /\ fd' = [fd EXCEPT ![p] = 0]
    /\ tries' = [tries EXCEPT ![p] = 0]
    /\ existed' = [existed EXCEPT ![p] = FALSE]
    /\ created' = [created EXCEPT ![p] = FALSE]
    /\ pinned' = [pinned EXCEPT ![p] = FALSE]
    /\ myKey' = [myKey EXCEPT ![p] = 0]
    /\ failing' = [failing EXCEPT ![p] = FALSE]

(* Lock.Release drops the OS lock; the file stays.                          *)
Release(p) == flock' = [i \in Inodes |-> IF flock[i] = p THEN None ELSE flock[i]]

(* checkNetworkPin: an unpinned directory passes.                           *)
PinAdmits(n) == pin \in {None, n}

(* The orphan rule: this call created the directory and its keys.           *)
Removes(p) == created[p] /\ ~existed[p]

-----------------------------------------------------------------------------
(* bootEngine.                                                              *)

(* The first pin check, before anything is touched; a refusal changes       *)
(* nothing.                                                                 *)
Boot(p, n) ==
    /\ pc[p] = "idle"
    /\ PinAdmits(n)
    /\ net' = [net EXCEPT ![p] = n]
    /\ Goto(p, "stat")
    /\ UNCHANGED <<disk, flock, inodes, keys, booted, crashed, fd, tries,
                   existed, created, pinned, myKey, failing, probes>>

Stat(p) ==
    /\ pc[p] = "stat"
    /\ existed' = [existed EXCEPT ![p] = dir]
    /\ Goto(p, "mkdir")
    /\ UNCHANGED <<disk, flock, inodes, keys, booted, crashed, net, fd, tries,
                   created, pinned, myKey, failing, probes>>

MkdirAll(p) ==
    /\ pc[p] = "mkdir"
    /\ dir' = TRUE
    /\ Goto(p, "openlock")
    /\ UNCHANGED <<lockFile, key, pin, flock, inodes, keys, booted,
                   crashed, locals, probes>>

(* TryLock opens the file, creating it when absent, then locks the inode.   *)
OpenLock(p) ==
    /\ pc[p] = "openlock"
    /\ IF ~dir
       THEN Ended(p) /\ UNCHANGED <<lockFile, inodes>>
       ELSE /\ \/ lockFile # 0 /\ UNCHANGED <<lockFile, inodes>>
               \/ /\ lockFile = 0 /\ inodes < MaxInodes
                  /\ inodes' = inodes + 1 /\ lockFile' = inodes + 1
            /\ fd' = [fd EXCEPT ![p] = lockFile']
            /\ Goto(p, "flock")
            /\ UNCHANGED <<net, tries, existed, created, pinned, myKey, failing>>
    /\ UNCHANGED <<dir, key, pin, flock, keys, booted, crashed, probes>>

(* A free inode is locked.                                                  *)
FlockTaken(p) ==
    /\ pc[p] = "flock" /\ flock[fd[p]] = None
    /\ flock' = [flock EXCEPT ![fd[p]] = p]
    /\ Goto(p, "recheck")
    /\ UNCHANGED <<disk, inodes, keys, booted, crashed, locals, probes>>

(* Mutant of FlockRefused: the attempts are counted without a limit.        *)
FlockRefusedForever(p) ==
    /\ pc[p] = "flock" /\ flock[fd[p]] # None
    /\ tries' = [tries EXCEPT ![p] = @ + 1]
    /\ Goto(p, "openlock")
    /\ UNCHANGED <<disk, flock, inodes, keys, booted, crashed, net, fd, existed,
                   created, pinned, myKey, failing, probes>>

(* A refused lock is retried a few times, for probes, then reported.        *)
FlockRefused(p) ==
    /\ pc[p] = "flock" /\ flock[fd[p]] # None
    /\ IF tries[p] = Retries
       THEN Ended(p)
       ELSE /\ tries' = [tries EXCEPT ![p] = @ + 1]
            /\ Goto(p, "openlock")
            /\ UNCHANGED <<net, fd, existed, created, pinned, myKey, failing>>
    /\ UNCHANGED <<disk, flock, inodes, keys, booted, crashed, probes>>

(* The authoritative pin check, under the lock.                             *)
RecheckPin(p) ==
    /\ pc[p] = "recheck"
    /\ IF PinAdmits(net[p])
       THEN /\ pinned' = [pinned EXCEPT ![p] = pin # None]
            /\ Goto(p, "keys")
            /\ UNCHANGED <<flock, net, fd, tries, existed, created, myKey, failing>>
       ELSE Release(p) /\ Ended(p)
    /\ UNCHANGED <<disk, inodes, keys, booted, crashed, probes>>

(* The credential reads the keys on disk.                                   *)
LoadKey(p) ==
    /\ pc[p] = "keys"
    /\ myKey' = [myKey EXCEPT ![p] = key]
    /\ Goto(p, IF key = 0 THEN "mint" ELSE "provider")
    /\ UNCHANGED <<disk, flock, inodes, keys, booted, crashed, net, fd, tries,
                   existed, created, pinned, failing, probes>>

(* Absent keys are minted and written whole (writeFileAtomic), the          *)
(* directory being made again if need be.                                   *)
MintKey(p) ==
    /\ pc[p] = "mint" /\ keys < MaxKeys
    /\ keys' = keys + 1 /\ key' = keys + 1
    /\ dir' = TRUE
    /\ booted' = FALSE
    /\ created' = [created EXCEPT ![p] = TRUE]
    /\ myKey' = [myKey EXCEPT ![p] = keys + 1]
    /\ Goto(p, "provider")
    /\ UNCHANGED <<lockFile, pin, flock, inodes, crashed, net, fd, tries,
                   existed, pinned, failing, probes>>

(* A credential that fails before it minted anything cleans nothing up.     *)
KeysFail(p) ==
    /\ "keys" \in Faults /\ pc[p] \in {"keys", "mint"}
    /\ Release(p) /\ Ended(p)
    /\ UNCHANGED <<disk, inodes, keys, booted, crashed, probes>>

(* Mutant of ProviderReady: the lock goes once the keys are on disk.        *)
ProviderReadyUnlocks(p) ==
    /\ pc[p] = "provider"
    /\ Release(p) /\ Goto(p, "sdk")
    /\ UNCHANGED <<disk, inodes, keys, booted, crashed, locals, probes>>

ProviderReady(p) ==
    /\ pc[p] = "provider"
    /\ Goto(p, "sdk")
    /\ UNCHANGED <<disk, flock, inodes, keys, booted, crashed, locals, probes>>

(* The provider built on the keys fails: the lock goes before the directory *)
(* it may have created.                                                     *)
ProviderFail(p) ==
    /\ "provider" \in Faults /\ pc[p] = "provider"
    /\ Release(p)
    /\ IF Removes(p)
       THEN Goto(p, "remove") /\ UNCHANGED locals
       ELSE Ended(p)
    /\ UNCHANGED <<disk, inodes, keys, booted, crashed, probes>>

(* OpenSDK writes under <dir>/sdk, making the directory if it is gone.      *)
OpenSDK(p) ==
    /\ pc[p] = "sdk"
    /\ dir' = TRUE
    /\ Goto(p, "pin")
    /\ UNCHANGED <<lockFile, key, pin, flock, inodes, keys, booted, crashed,
                   locals, probes>>

(* The account key does not match, or OpenSDK fails, before or after it     *)
(* wrote something: the deferred cleanup runs.                              *)
OpenSDKFail(p) ==
    /\ "sdk" \in Faults /\ pc[p] = "sdk"
    /\ \/ UNCHANGED dir
       \/ dir' = TRUE
    /\ failing' = [failing EXCEPT ![p] = TRUE]
    /\ Goto(p, "unlock")
    /\ UNCHANGED <<lockFile, key, pin, flock, inodes, keys, booted, crashed, net, fd, tries,
                   existed, created, pinned, myKey, probes>>

(* An unpinned directory adopts the network.  A write that fails is logged  *)
(* and the boot goes on.                                                    *)
WritePin(p) ==
    /\ pc[p] = "pin"
    /\ \/ /\ ~pinned[p] /\ dir
          /\ pin' = net[p]
       \/ /\ pinned[p] \/ ~dir \/ "pin" \in Faults
          /\ UNCHANGED pin
    /\ Goto(p, "rest")
    /\ UNCHANGED <<dir, lockFile, key, flock, inodes, keys, booted,
                   crashed, locals, probes>>

(* The indexer, push, the local store and the derived spaces come up.       *)
BootDone(p) ==
    /\ pc[p] = "rest"
    /\ booted' = IF key = myKey[p] THEN TRUE ELSE booted
    /\ Goto(p, "running")
    /\ UNCHANGED <<disk, flock, inodes, keys, crashed, locals, probes>>

BootFail(p) ==
    /\ "rest" \in Faults /\ pc[p] = "rest"
    /\ failing' = [failing EXCEPT ![p] = TRUE]
    /\ Goto(p, "close")
    /\ UNCHANGED <<disk, flock, inodes, keys, booted, crashed, net, fd, tries,
                   existed, created, pinned, myKey, probes>>

(* The engine stops, by logout or shutdown.                                 *)
Stop(p) ==
    /\ pc[p] = "running"
    /\ Goto(p, "close")
    /\ UNCHANGED <<disk, flock, inodes, keys, booted, crashed, locals, probes>>

(* closeResources: the SDK first.                                           *)
CloseSDK(p) ==
    /\ pc[p] = "close"
    /\ Goto(p, "unlock")
    /\ UNCHANGED <<disk, flock, inodes, keys, booted, crashed, locals, probes>>

(* Mutant of Unlock: the directory of a failed first boot stays.            *)
UnlockKeeps(p) ==
    /\ pc[p] = "unlock"
    /\ Release(p) /\ Ended(p)
    /\ UNCHANGED <<disk, inodes, keys, booted, crashed, probes>>

(* closeResources: the lock last.  The directory of a failed first boot is  *)
(* removed afterwards.                                                      *)
Unlock(p) ==
    /\ pc[p] = "unlock"
    /\ Release(p)
    /\ IF failing[p] /\ Removes(p)
       THEN Goto(p, "remove") /\ UNCHANGED locals
       ELSE Ended(p)
    /\ UNCHANGED <<disk, inodes, keys, booted, crashed, probes>>

RemoveAll(p) ==
    /\ pc[p] = "remove"
    /\ dir' = FALSE /\ lockFile' = 0 /\ key' = 0 /\ pin' = None
    /\ Ended(p)
    /\ UNCHANGED <<flock, inodes, keys, booted, crashed, probes>>

(* A process dies at any step; the kernel releases its lock.                *)
Crash(p) ==
    /\ pc[p] # "idle"
    /\ Release(p) /\ Ended(p)
    /\ crashed' = TRUE
    /\ UNCHANGED <<disk, inodes, keys, booted, probes>>

-----------------------------------------------------------------------------
(* running.go: a CLI probe takes the lock of a directory that has a lock    *)
(* file and releases it at once; a lock it cannot take means "running".     *)

ProbeOpen(q) ==
    /\ probe[q] = "idle" /\ lockFile # 0
    /\ probeFd' = [probeFd EXCEPT ![q] = lockFile]
    /\ probe' = [probe EXCEPT ![q] = "open"]
    /\ UNCHANGED <<disk, flock, inodes, keys, booted, crashed, pc, locals>>

ProbeFree(q) ==
    /\ probe[q] = "open" /\ flock[probeFd[q]] = None
    /\ flock' = [flock EXCEPT ![probeFd[q]] = q]
    /\ probe' = [probe EXCEPT ![q] = "held"]
    /\ UNCHANGED <<disk, inodes, keys, booted, crashed, pc, locals, probeFd>>

ProbeRunning(q) ==
    /\ probe[q] = "open" /\ flock[probeFd[q]] # None
    /\ probe' = [probe EXCEPT ![q] = "idle"]
    /\ probeFd' = [probeFd EXCEPT ![q] = 0]
    /\ UNCHANGED <<disk, flock, inodes, keys, booted, crashed, pc, locals>>

ProbeRelease(q) ==
    /\ probe[q] = "held"
    /\ flock' = [flock EXCEPT ![probeFd[q]] = None]
    /\ probe' = [probe EXCEPT ![q] = "idle"]
    /\ probeFd' = [probeFd EXCEPT ![q] = 0]
    /\ UNCHANGED <<disk, inodes, keys, booted, crashed, pc, locals>>

-----------------------------------------------------------------------------
Next ==
    \/ \E p \in Procs :
        \/ \E n \in Networks : Boot(p, n)
        \/ Stat(p) \/ MkdirAll(p) \/ OpenLock(p)
        \/ FlockTaken(p) \/ FlockRefused(p) \/ RecheckPin(p)
        \/ LoadKey(p) \/ MintKey(p) \/ KeysFail(p)
        \/ ProviderReady(p) \/ ProviderFail(p)
        \/ OpenSDK(p) \/ OpenSDKFail(p) \/ WritePin(p)
        \/ BootDone(p) \/ BootFail(p) \/ Stop(p)
        \/ CloseSDK(p) \/ Unlock(p) \/ RemoveAll(p) \/ Crash(p)
    \/ \E q \in Probes :
        ProbeOpen(q) \/ ProbeFree(q) \/ ProbeRunning(q) \/ ProbeRelease(q)

Spec == Init /\ [][Next]_vars

-----------------------------------------------------------------------------
(* Properties.                                                              *)

SDKOpen(p) == pc[p] \in {"pin", "rest", "running", "close"}

(* One process serves the account: two SDKs never have the directory's      *)
(* stores open at once (pidlock.go: the lock is the contract).              *)
OneInstance ==
    \A p, q \in Procs : SDKOpen(p) /\ SDKOpen(q) => p = q

(* Every SDK open on a pinned directory is on the pinned network, through   *)
(* concurrent first boots of processes configured for different networks.   *)
OnPinnedNetwork ==
    \A p \in Procs : SDKOpen(p) /\ pin # None => net[p] = pin

(* A running SDK's device key is the one on disk, so the next boot has the  *)
(* same peer id.                                                            *)
KeyOnDisk ==
    \A p \in Procs : SDKOpen(p) => myKey[p] = key

(* A running SDK is on the network and under the device key that the        *)
(* directory records (RecheckPin, the key read and minted under the lock).  *)
RunsAsOnDisk == TypeOK /\ OnPinnedNetwork /\ KeyOnDisk

(* A first boot that fails leaves no keys behind: without a crash, keys on  *)
(* disk at rest have booted once.                                           *)
NoOrphanKeys ==
    (\A p \in Procs : pc[p] = "idle") /\ ~crashed /\ key # 0 => booted

-----------------------------------------------------------------------------
(* The inductive invariants behind OneInstance and RunsAsOnDisk.            *)

Holding == {"recheck", "keys", "mint", "provider", "sdk", "pin", "rest", "running",
            "close", "unlock"}

(* The inode a process works under is locked by it, whatever the name       *)
(* server.lock stands for by then.                                          *)
LockInv ==
    /\ \A p \in Procs : pc[p] = "flock" => fd[p] \in Inodes
    /\ \A p \in Procs : pc[p] \in Holding => fd[p] \in Inodes /\ flock[fd[p]] = p
    /\ \A q \in Probes : probe[q] # "idle" => probeFd[q] \in Inodes
    /\ \A q \in Probes : probe[q] = "held" => flock[probeFd[q]] = q

(* Until a directory is removed every process has opened the same inode,    *)
(* and what the holder read of the pin and the keys is what the directory   *)
(* holds.                                                                   *)
NothingRemoved == \A p \in Procs : pc[p] # "remove"
DiskInv ==
    /\ \A p \in Procs : fd[p] \in {0, lockFile}
    /\ \A p \in Procs : pc[p] \in Holding \ {"recheck"} => pin \in {None, net[p]}
    /\ \A p \in Procs : pc[p] \in Holding \ {"recheck", "keys", "mint"} => myKey[p] = key

-----------------------------------------------------------------------------
(* Proofs, for any number of servers, probes, networks, lock files and      *)
(* keys: the OS lock excludes per lock file, and per directory until a      *)
(* failed first boot removes the directory.                                 *)

(* A boot that ends leaves well-typed locals and a process at rest.          *)
LEMMA EndedTyped ==
    ASSUME TypeOK, NEW p \in Procs, Ended(p)
    PROVE  /\ pc' \in [Procs -> PCs] /\ net' \in [Procs -> Networks \cup {None}]
           /\ fd' \in [Procs -> 0..MaxInodes] /\ tries' \in [Procs -> 0..Retries]
           /\ existed' \in [Procs -> BOOLEAN] /\ created' \in [Procs -> BOOLEAN]
           /\ pinned' \in [Procs -> BOOLEAN] /\ failing' \in [Procs -> BOOLEAN]
           /\ myKey' \in [Procs -> 0..MaxKeys]
<1> USE ConstantsAssumption DEF TypeOK, Ended, Goto
<1>1. pc' \in [Procs -> PCs]
    BY DEF PCs
<1>2. net' \in [Procs -> Networks \cup {None}] /\ fd' \in [Procs -> 0..MaxInodes]
    OBVIOUS
<1>3. tries' \in [Procs -> 0..Retries] /\ myKey' \in [Procs -> 0..MaxKeys]
    OBVIOUS
<1>4. existed' \in [Procs -> BOOLEAN] /\ created' \in [Procs -> BOOLEAN]
    OBVIOUS
<1>5. pinned' \in [Procs -> BOOLEAN] /\ failing' \in [Procs -> BOOLEAN]
    OBVIOUS
<1> QED BY <1>1, <1>2, <1>3, <1>4, <1>5

LEMMA ReleaseTyped ==
    ASSUME TypeOK, NEW p \in Procs, Release(p)
    PROVE  flock' \in [Inodes -> Procs \cup Probes \cup {None}]
BY DEF TypeOK, Release

(* A process that gives its lock back takes nobody else's.                  *)
LEMMA GiveBack ==
    ASSUME TypeOK, LockInv, NEW p \in Procs, Release(p), UNCHANGED <<probe, probeFd>>,
           \A q \in Procs \ {p} : pc'[q] = pc[q] /\ fd'[q] = fd[q],
           pc'[p] \notin Holding \cup {"flock"}
    PROVE  LockInv'
<1> USE ConstantsAssumption DEF LockInv
<1>1. \A i \in Inodes : flock'[i] = IF flock[i] = p THEN None ELSE flock[i]
    BY DEF Release
<1>2. ASSUME NEW q \in Procs, pc'[q] \in Holding PROVE fd'[q] \in Inodes /\ flock'[fd'[q]] = q
    BY <1>1, <1>2
<1>3. ASSUME NEW q \in Probes, probe'[q] = "held" PROVE flock'[probeFd'[q]] = q
    BY <1>1, <1>3
<1> QED BY <1>2, <1>3


(* The state stays well typed.                                              *)
LEMMA TypeStep == TypeOK /\ [Next]_vars => TypeOK'
<1> SUFFICES ASSUME TypeOK, [Next]_vars PROVE TypeOK'
    OBVIOUS
<1> USE ConstantsAssumption DEF TypeOK, PCs, disk, locals, probes, Goto
<1>1. ASSUME NEW p \in Procs, NEW n \in Networks, Boot(p, n) PROVE TypeOK'
    BY <1>1 DEF Boot
<1>2. ASSUME NEW p \in Procs, Stat(p) PROVE TypeOK'
    BY <1>2 DEF Stat
<1>3. ASSUME NEW p \in Procs, MkdirAll(p) PROVE TypeOK'
    BY <1>3 DEF MkdirAll
<1>4. ASSUME NEW p \in Procs, OpenLock(p) PROVE TypeOK'
    <2>1. CASE dir
        <3>1. lockFile' \in 0..MaxInodes /\ inodes' \in 0..MaxInodes
            BY <1>4, <2>1 DEF OpenLock
        <3>2. pc' \in [Procs -> PCs] /\ fd' \in [Procs -> 0..MaxInodes]
            BY <1>4, <2>1, <3>1 DEF OpenLock
        <3> QED BY <1>4, <2>1, <3>1, <3>2 DEF OpenLock
    <2>2. CASE ~dir
        BY <1>4, <2>2, EndedTyped DEF OpenLock
    <2> QED BY <2>1, <2>2
<1>5. ASSUME NEW p \in Procs, FlockTaken(p) PROVE TypeOK'
    BY <1>5 DEF FlockTaken
<1>6. ASSUME NEW p \in Procs, FlockRefused(p) PROVE TypeOK'
    <2>1. CASE tries[p] = Retries
        BY <1>6, <2>1, EndedTyped DEF FlockRefused
    <2>2. CASE tries[p] # Retries
        <3>1. tries' \in [Procs -> 0..Retries] /\ pc' \in [Procs -> PCs]
            BY <1>6, <2>2 DEF FlockRefused
        <3> QED BY <1>6, <2>2, <3>1 DEF FlockRefused
    <2> QED BY <2>1, <2>2
<1>7. ASSUME NEW p \in Procs, RecheckPin(p) PROVE TypeOK'
    <2>1. CASE PinAdmits(net[p])
        BY <1>7, <2>1 DEF RecheckPin
    <2>2. CASE ~PinAdmits(net[p])
        BY <1>7, <2>2, EndedTyped, ReleaseTyped DEF RecheckPin
    <2> QED BY <2>1, <2>2
<1>8. ASSUME NEW p \in Procs, LoadKey(p) PROVE TypeOK'
    BY <1>8 DEF LoadKey
<1>9. ASSUME NEW p \in Procs, MintKey(p) PROVE TypeOK'
    <2>1. keys + 1 \in 0..MaxKeys
        BY <1>9 DEF MintKey
    <2>2. key' \in 0..MaxKeys /\ keys' \in 0..MaxKeys /\ myKey' \in [Procs -> 0..MaxKeys]
        BY <1>9, <2>1 DEF MintKey
    <2>3. created' \in [Procs -> BOOLEAN] /\ pc' \in [Procs -> PCs]
        BY <1>9 DEF MintKey
    <2> QED BY <1>9, <2>2, <2>3 DEF MintKey
<1>10. ASSUME NEW p \in Procs, KeysFail(p) PROVE TypeOK'
    BY <1>10, EndedTyped, ReleaseTyped DEF KeysFail
<1>11. ASSUME NEW p \in Procs, ProviderReady(p) PROVE TypeOK'
    BY <1>11 DEF ProviderReady
<1>12. ASSUME NEW p \in Procs, ProviderFail(p) PROVE TypeOK'
    <2>1. CASE Removes(p)
        <3>1. pc' \in [Procs -> PCs] /\ flock' \in [Inodes -> Procs \cup Probes \cup {None}]
            BY <1>12, <2>1, ReleaseTyped DEF ProviderFail
        <3> QED BY <1>12, <2>1, <3>1 DEF ProviderFail
    <2>2. CASE ~(Removes(p))
        BY <1>12, <2>2, EndedTyped, ReleaseTyped DEF ProviderFail
    <2> QED BY <2>1, <2>2
<1>13. ASSUME NEW p \in Procs, OpenSDK(p) PROVE TypeOK'
    BY <1>13 DEF OpenSDK
<1>14. ASSUME NEW p \in Procs, OpenSDKFail(p) PROVE TypeOK'
    BY <1>14 DEF OpenSDKFail
<1>15. ASSUME NEW p \in Procs, WritePin(p) PROVE TypeOK'
    BY <1>15 DEF WritePin
<1>16. ASSUME NEW p \in Procs, BootDone(p) PROVE TypeOK'
    BY <1>16 DEF BootDone
<1>17. ASSUME NEW p \in Procs, BootFail(p) PROVE TypeOK'
    BY <1>17 DEF BootFail
<1>18. ASSUME NEW p \in Procs, Stop(p) PROVE TypeOK'
    BY <1>18 DEF Stop
<1>19. ASSUME NEW p \in Procs, CloseSDK(p) PROVE TypeOK'
    BY <1>19 DEF CloseSDK
<1>20. ASSUME NEW p \in Procs, Unlock(p) PROVE TypeOK'
    <2>1. CASE failing[p] /\ Removes(p)
        <3>1. pc' \in [Procs -> PCs] /\ flock' \in [Inodes -> Procs \cup Probes \cup {None}]
            BY <1>20, <2>1, ReleaseTyped DEF Unlock
        <3> QED BY <1>20, <2>1, <3>1 DEF Unlock
    <2>2. CASE ~(failing[p] /\ Removes(p))
        BY <1>20, <2>2, EndedTyped, ReleaseTyped DEF Unlock
    <2> QED BY <2>1, <2>2
<1>21. ASSUME NEW p \in Procs, RemoveAll(p) PROVE TypeOK'
    <2>1. 0 \in 0..MaxInodes /\ 0 \in 0..MaxKeys
        OBVIOUS
    <2>2. dir' = FALSE /\ lockFile' = 0 /\ key' = 0 /\ pin' = None
        BY <1>21 DEF RemoveAll
    <2>3. Ended(p) /\ UNCHANGED <<flock, inodes, keys, booted, crashed, probe, probeFd>>
        BY <1>21 DEF RemoveAll
    <2> QED BY <2>1, <2>2, <2>3, EndedTyped
<1>22. ASSUME NEW p \in Procs, Crash(p) PROVE TypeOK'
    BY <1>22, EndedTyped, ReleaseTyped DEF Crash
<1>23. ASSUME NEW q \in Probes, ProbeOpen(q) PROVE TypeOK'
    BY <1>23 DEF ProbeOpen
<1>24. ASSUME NEW q \in Probes, ProbeFree(q) PROVE TypeOK'
    BY <1>24 DEF ProbeFree
<1>25. ASSUME NEW q \in Probes, ProbeRunning(q) PROVE TypeOK'
    BY <1>25 DEF ProbeRunning
<1>26. ASSUME NEW q \in Probes, ProbeRelease(q) PROVE TypeOK'
    <2>1. flock' \in [Inodes -> Procs \cup Probes \cup {None}]
        BY <1>26 DEF ProbeRelease
    <2> QED BY <1>26, <2>1 DEF ProbeRelease
<1>27. CASE UNCHANGED vars
    BY <1>27 DEF vars
<1> QED
    BY <1>1, <1>2, <1>3, <1>4, <1>5, <1>6, <1>7, <1>8, <1>9, <1>10, <1>11, <1>12, <1>13, <1>14, <1>15, <1>16, <1>17, <1>18, <1>19, <1>20, <1>21, <1>22, <1>23, <1>24, <1>25, <1>26, <1>27
    DEF Next

(* Whoever works under an inode holds its lock.                             *)
LEMMA LockStep == TypeOK /\ LockInv /\ [Next]_vars => LockInv'
<1> SUFFICES ASSUME TypeOK, LockInv, [Next]_vars PROVE LockInv'
    OBVIOUS
<1> USE ConstantsAssumption DEF TypeOK, LockInv, Holding, PCs, disk, locals, probes, Goto
<1>1. ASSUME NEW p \in Procs, NEW n \in Networks, Boot(p, n) PROVE LockInv'
    BY <1>1 DEF Boot
<1>2. ASSUME NEW p \in Procs, Stat(p) PROVE LockInv'
    BY <1>2 DEF Stat
<1>3. ASSUME NEW p \in Procs, MkdirAll(p) PROVE LockInv'
    BY <1>3 DEF MkdirAll
<1>4. ASSUME NEW p \in Procs, OpenLock(p) PROVE LockInv'
    <2>1. CASE dir
        <3>1. lockFile' \in Inodes
            BY <1>4, <2>1 DEF OpenLock, Inodes
        <3> QED BY <1>4, <2>1, <3>1 DEF OpenLock
    <2>2. CASE ~dir
        BY <1>4, <2>2 DEF OpenLock, Ended
    <2> QED BY <2>1, <2>2
<1>5. ASSUME NEW p \in Procs, FlockTaken(p) PROVE LockInv'
    BY <1>5 DEF FlockTaken
<1>6. ASSUME NEW p \in Procs, FlockRefused(p) PROVE LockInv'
    <2>1. CASE tries[p] = Retries
        BY <1>6, <2>1 DEF FlockRefused, Ended
    <2>2. CASE tries[p] # Retries
        BY <1>6, <2>2 DEF FlockRefused
    <2> QED BY <2>1, <2>2
<1>7. ASSUME NEW p \in Procs, RecheckPin(p) PROVE LockInv'
    <2>1. CASE PinAdmits(net[p])
        BY <1>7, <2>1 DEF RecheckPin
    <2>2. CASE ~PinAdmits(net[p])
        BY <1>7, <2>2, GiveBack DEF RecheckPin, Ended
    <2> QED BY <2>1, <2>2
<1>8. ASSUME NEW p \in Procs, LoadKey(p) PROVE LockInv'
    BY <1>8 DEF LoadKey
<1>9. ASSUME NEW p \in Procs, MintKey(p) PROVE LockInv'
    BY <1>9 DEF MintKey
<1>10. ASSUME NEW p \in Procs, KeysFail(p) PROVE LockInv'
    BY <1>10, GiveBack DEF KeysFail, Ended
<1>11. ASSUME NEW p \in Procs, ProviderReady(p) PROVE LockInv'
    BY <1>11 DEF ProviderReady
<1>12. ASSUME NEW p \in Procs, ProviderFail(p) PROVE LockInv'
    <2>1. CASE Removes(p)
        BY <1>12, <2>1, GiveBack DEF ProviderFail
    <2>2. CASE ~(Removes(p))
        BY <1>12, <2>2, GiveBack DEF ProviderFail, Ended
    <2> QED BY <2>1, <2>2
<1>13. ASSUME NEW p \in Procs, OpenSDK(p) PROVE LockInv'
    BY <1>13 DEF OpenSDK
<1>14. ASSUME NEW p \in Procs, OpenSDKFail(p) PROVE LockInv'
    BY <1>14 DEF OpenSDKFail
<1>15. ASSUME NEW p \in Procs, WritePin(p) PROVE LockInv'
    BY <1>15 DEF WritePin
<1>16. ASSUME NEW p \in Procs, BootDone(p) PROVE LockInv'
    BY <1>16 DEF BootDone
<1>17. ASSUME NEW p \in Procs, BootFail(p) PROVE LockInv'
    BY <1>17 DEF BootFail
<1>18. ASSUME NEW p \in Procs, Stop(p) PROVE LockInv'
    BY <1>18 DEF Stop
<1>19. ASSUME NEW p \in Procs, CloseSDK(p) PROVE LockInv'
    BY <1>19 DEF CloseSDK
<1>20. ASSUME NEW p \in Procs, Unlock(p) PROVE LockInv'
    <2>1. CASE failing[p] /\ Removes(p)
        BY <1>20, <2>1, GiveBack DEF Unlock
    <2>2. CASE ~(failing[p] /\ Removes(p))
        BY <1>20, <2>2, GiveBack DEF Unlock, Ended
    <2> QED BY <2>1, <2>2
<1>21. ASSUME NEW p \in Procs, RemoveAll(p) PROVE LockInv'
    BY <1>21 DEF RemoveAll, Ended
<1>22. ASSUME NEW p \in Procs, Crash(p) PROVE LockInv'
    BY <1>22, GiveBack DEF Crash, Ended
<1>23. ASSUME NEW q \in Probes, ProbeOpen(q) PROVE LockInv'
    <2>1. lockFile \in Inodes
        BY <1>23 DEF ProbeOpen, Inodes
    <2> QED BY <1>23, <2>1 DEF ProbeOpen
<1>24. ASSUME NEW q \in Probes, ProbeFree(q) PROVE LockInv'
    BY <1>24 DEF ProbeFree
<1>25. ASSUME NEW q \in Probes, ProbeRunning(q) PROVE LockInv'
    BY <1>25 DEF ProbeRunning
<1>26. ASSUME NEW q \in Probes, ProbeRelease(q) PROVE LockInv'
    BY <1>26 DEF ProbeRelease
<1>27. CASE UNCHANGED vars
    BY <1>27 DEF vars
<1> QED
    BY <1>1, <1>2, <1>3, <1>4, <1>5, <1>6, <1>7, <1>8, <1>9, <1>10, <1>11, <1>12, <1>13, <1>14, <1>15, <1>16, <1>17, <1>18, <1>19, <1>20, <1>21, <1>22, <1>23, <1>24, <1>25, <1>26, <1>27
    DEF Next

(* While nothing is removed all processes work under one inode, so one at    *)
(* a time works under a lock at all.                                         *)
LEMMA OneHolder ==
    ASSUME TypeOK, LockInv, DiskInv, NEW p \in Procs, NEW q \in Procs,
           pc[p] \in Holding, pc[q] \in Holding
    PROVE  p = q
<1>1. fd[p] = lockFile /\ fd[q] = lockFile
    BY DEF LockInv, DiskInv, Inodes
<1> QED BY <1>1 DEF LockInv

(* A step of p that writes neither name, pin nor keys, or ends its boot.     *)
LEMMA DiskKept ==
    ASSUME TypeOK, DiskInv, NEW p \in Procs, UNCHANGED <<lockFile, pin, key>>,
           \A q \in Procs \ {p} : /\ pc'[q] = pc[q] /\ fd'[q] = fd[q]
                                  /\ net'[q] = net[q] /\ myKey'[q] = myKey[q],
           fd'[p] \in {0, lockFile},
           pc'[p] \in Holding \ {"recheck"} => pin \in {None, net'[p]},
           pc'[p] \in Holding \ {"recheck", "keys", "mint"} => myKey'[p] = key
    PROVE  DiskInv'
BY DEF DiskInv


(* What a holder read of the directory stays what is on disk.               *)
LEMMA DiskStep == TypeOK /\ LockInv /\ NothingRemoved /\ DiskInv /\ [Next]_vars => DiskInv'
<1> SUFFICES ASSUME TypeOK, LockInv, NothingRemoved, DiskInv, [Next]_vars PROVE DiskInv'
    OBVIOUS
<1> USE ConstantsAssumption DEF TypeOK, LockInv, DiskInv, Holding, PCs, disk, locals, probes, Goto
<1>1. ASSUME NEW p \in Procs, NEW n \in Networks, Boot(p, n) PROVE DiskInv'
    BY <1>1 DEF Boot
<1>2. ASSUME NEW p \in Procs, Stat(p) PROVE DiskInv'
    BY <1>2 DEF Stat
<1>3. ASSUME NEW p \in Procs, MkdirAll(p) PROVE DiskInv'
    BY <1>3 DEF MkdirAll
<1>4. ASSUME NEW p \in Procs, OpenLock(p) PROVE DiskInv'
    <2>1. CASE dir /\ lockFile # 0
        BY <1>4, <2>1 DEF OpenLock
    <2>2. CASE dir /\ lockFile = 0
        <3>1. \A q \in Procs : fd[q] = 0
            BY <2>2
        <3> QED BY <1>4, <2>2, <3>1 DEF OpenLock
    <2>3. CASE ~dir
        BY <1>4, <2>3, DiskKept DEF OpenLock, Ended
    <2> QED BY <2>1, <2>2, <2>3
<1>5. ASSUME NEW p \in Procs, FlockTaken(p) PROVE DiskInv'
    BY <1>5 DEF FlockTaken
<1>6. ASSUME NEW p \in Procs, FlockRefused(p) PROVE DiskInv'
    <2>1. CASE tries[p] = Retries
        BY <1>6, <2>1, DiskKept DEF FlockRefused, Ended
    <2>2. CASE tries[p] # Retries
        BY <1>6, <2>2, DiskKept DEF FlockRefused
    <2> QED BY <2>1, <2>2
<1>7. ASSUME NEW p \in Procs, RecheckPin(p) PROVE DiskInv'
    <2>1. CASE PinAdmits(net[p])
        BY <1>7, <2>1, DiskKept DEF RecheckPin, PinAdmits
    <2>2. CASE ~PinAdmits(net[p])
        BY <1>7, <2>2, DiskKept DEF RecheckPin, Ended
    <2> QED BY <2>1, <2>2
<1>8. ASSUME NEW p \in Procs, LoadKey(p) PROVE DiskInv'
    BY <1>8 DEF LoadKey
<1>9. ASSUME NEW p \in Procs, MintKey(p) PROVE DiskInv'
    <2>1. \A q \in Procs \ {p} : pc[q] \notin Holding
        BY <1>9, OneHolder DEF MintKey
    <2>2. pc'[p] = "provider" /\ myKey'[p] = key' /\ \A q \in Procs \ {p} : pc'[q] = pc[q]
        BY <1>9 DEF MintKey
    <2> QED BY <1>9, <2>1, <2>2 DEF MintKey
<1>10. ASSUME NEW p \in Procs, KeysFail(p) PROVE DiskInv'
    BY <1>10, DiskKept DEF KeysFail, Ended
<1>11. ASSUME NEW p \in Procs, ProviderReady(p) PROVE DiskInv'
    BY <1>11 DEF ProviderReady
<1>12. ASSUME NEW p \in Procs, ProviderFail(p) PROVE DiskInv'
    <2>1. CASE Removes(p)
        BY <1>12, <2>1, DiskKept DEF ProviderFail
    <2>2. CASE ~(Removes(p))
        BY <1>12, <2>2, DiskKept DEF ProviderFail, Ended
    <2> QED BY <2>1, <2>2
<1>13. ASSUME NEW p \in Procs, OpenSDK(p) PROVE DiskInv'
    BY <1>13 DEF OpenSDK
<1>14. ASSUME NEW p \in Procs, OpenSDKFail(p) PROVE DiskInv'
    BY <1>14 DEF OpenSDKFail
<1>15. ASSUME NEW p \in Procs, WritePin(p) PROVE DiskInv'
    <2>1. \A q \in Procs \ {p} : pc[q] \notin Holding
        BY <1>15, OneHolder DEF WritePin
    <2>2. pc'[p] = "rest" /\ \A q \in Procs \ {p} : pc'[q] = pc[q]
        BY <1>15 DEF WritePin
    <2>3. pin' \in {None, net[p]}
        BY <1>15 DEF WritePin
    <2> QED BY <1>15, <2>1, <2>2, <2>3 DEF WritePin
<1>16. ASSUME NEW p \in Procs, BootDone(p) PROVE DiskInv'
    BY <1>16 DEF BootDone
<1>17. ASSUME NEW p \in Procs, BootFail(p) PROVE DiskInv'
    BY <1>17 DEF BootFail
<1>18. ASSUME NEW p \in Procs, Stop(p) PROVE DiskInv'
    BY <1>18 DEF Stop
<1>19. ASSUME NEW p \in Procs, CloseSDK(p) PROVE DiskInv'
    BY <1>19 DEF CloseSDK
<1>20. ASSUME NEW p \in Procs, Unlock(p) PROVE DiskInv'
    <2>1. CASE failing[p] /\ Removes(p)
        BY <1>20, <2>1, DiskKept DEF Unlock
    <2>2. CASE ~(failing[p] /\ Removes(p))
        BY <1>20, <2>2, DiskKept DEF Unlock, Ended
    <2> QED BY <2>1, <2>2
<1>21. ASSUME NEW p \in Procs, RemoveAll(p) PROVE DiskInv'
    BY <1>21 DEF RemoveAll, NothingRemoved
<1>22. ASSUME NEW p \in Procs, Crash(p) PROVE DiskInv'
    BY <1>22, DiskKept DEF Crash, Ended
<1>23. ASSUME NEW q \in Probes, ProbeOpen(q) PROVE DiskInv'
    BY <1>23 DEF ProbeOpen
<1>24. ASSUME NEW q \in Probes, ProbeFree(q) PROVE DiskInv'
    BY <1>24 DEF ProbeFree
<1>25. ASSUME NEW q \in Probes, ProbeRunning(q) PROVE DiskInv'
    BY <1>25 DEF ProbeRunning
<1>26. ASSUME NEW q \in Probes, ProbeRelease(q) PROVE DiskInv'
    BY <1>26 DEF ProbeRelease
<1>27. CASE UNCHANGED vars
    BY <1>27 DEF vars
<1> QED
    BY <1>1, <1>2, <1>3, <1>4, <1>5, <1>6, <1>7, <1>8, <1>9, <1>10, <1>11, <1>12, <1>13, <1>14, <1>15, <1>16, <1>17, <1>18, <1>19, <1>20, <1>21, <1>22, <1>23, <1>24, <1>25, <1>26, <1>27
    DEF Next

LEMMA InitInv == Init => TypeOK /\ LockInv /\ DiskInv
<1> USE ConstantsAssumption DEF Init, Inodes, PCs
<1>1. Init => TypeOK
    <2> SUFFICES ASSUME Init PROVE TypeOK
        OBVIOUS
    <2>1. pc \in [Procs -> PCs] /\ probe \in [Probes -> {"idle", "open", "held"}]
        OBVIOUS
    <2>2. 0 \in 0..MaxInodes /\ 0 \in 0..MaxKeys /\ 0 \in 0..Retries
        OBVIOUS
    <2> QED BY <2>1, <2>2 DEF TypeOK
<1>2. Init => LockInv /\ DiskInv
    BY DEF LockInv, DiskInv, Holding
<1> QED BY <1>1, <1>2

(* The state stays well typed: lock files, keys and attempts within bounds.  *)
THEOREM TypeCorrect == Spec => []TypeOK
BY InitInv, TypeStep, PTL DEF Spec

(* Under every fault and crash, and whatever was removed meanwhile, two      *)
(* servers that have the SDK open at once hold the locks of different lock   *)
(* files: the OS lock is never the one to fail.                              *)
THEOREM OneHolderPerLockFile ==
    Spec => [](\A p, q \in Procs : SDKOpen(p) /\ SDKOpen(q) /\ fd[p] = fd[q] => p = q)
<1>1. LockInv => \A p, q \in Procs : SDKOpen(p) /\ SDKOpen(q) /\ fd[p] = fd[q] => p = q
    BY DEF LockInv, SDKOpen, Holding
<1> QED BY <1>1, InitInv, TypeStep, LockStep, PTL DEF Spec

LEMMA UnlessRemoved == Spec /\ []NothingRemoved => [](TypeOK /\ LockInv /\ DiskInv)
BY InitInv, TypeStep, LockStep, DiskStep, PTL DEF Spec

(* For any number of servers and probes and every boot step that may fail:   *)
(* until a failed first boot removes its directory, one server at a time has *)
(* the SDK of the account open.                                              *)
THEOREM ServersExclusive == Spec /\ []NothingRemoved => []OneInstance
<1>1. TypeOK /\ LockInv /\ DiskInv => OneInstance
    BY OneHolder DEF OneInstance, SDKOpen, Holding
<1> QED BY <1>1, UnlessRemoved, PTL

(* Until then a server also runs on the network and under the device key     *)
(* that the directory records, however boots of differently configured       *)
(* servers, their failures and crashes interleave.                           *)
THEOREM BootsAsRecorded == Spec /\ []NothingRemoved => []RunsAsOnDisk
<1>1. TypeOK /\ LockInv /\ DiskInv => RunsAsOnDisk
    BY DEF RunsAsOnDisk, OnPinnedNetwork, KeyOnDisk, DiskInv, SDKOpen, Holding
<1> QED BY <1>1, UnlessRemoved, PTL

(* The hypothesis holds of every behaviour in which only the key store and   *)
(* the pin fail: a directory is removed by a boot that fails later than its  *)
(* keys (ProviderFail, or OpenSDKFail and BootFail, then Unlock).            *)
THEOREM RemovedOnlyByLateFailures ==
    ASSUME Faults \subseteq {"keys", "pin"} PROVE Spec => []NothingRemoved
<1> DEFINE Sound == TypeOK /\ NothingRemoved /\ \A p \in Procs : ~failing[p]
<1>1. Init => Sound
    BY InitInv DEF Init, NothingRemoved
<1>2. Sound /\ [Next]_vars => Sound'
    <2> SUFFICES ASSUME Sound, [Next]_vars PROVE NothingRemoved' /\ \A p \in Procs : ~failing'[p]
        BY TypeStep
    <2> USE DEF TypeOK, NothingRemoved, Goto, Ended, disk, locals, probes
    <2>1. ASSUME NEW p \in Procs,
                 \/ \E n \in Networks : Boot(p, n)
                 \/ Stat(p) \/ MkdirAll(p) \/ FlockTaken(p) \/ LoadKey(p) \/ MintKey(p)
                 \/ ProviderReady(p) \/ OpenSDK(p) \/ WritePin(p) \/ BootDone(p) \/ Stop(p)
                 \/ CloseSDK(p)
          PROVE  NothingRemoved' /\ \A q \in Procs : ~failing'[q]
        BY <2>1 DEF Boot, Stat, MkdirAll, FlockTaken, LoadKey, MintKey, ProviderReady, OpenSDK,
           WritePin, BootDone, Stop, CloseSDK
    <2>2. ASSUME NEW p \in Procs,
                 OpenLock(p) \/ FlockRefused(p) \/ RecheckPin(p) \/ KeysFail(p) \/ Crash(p)
          PROVE  NothingRemoved' /\ \A q \in Procs : ~failing'[q]
        BY <2>2 DEF OpenLock, FlockRefused, RecheckPin, KeysFail, Crash
    <2>3. ASSUME NEW p \in Procs,
                 ProviderFail(p) \/ OpenSDKFail(p) \/ BootFail(p) \/ RemoveAll(p)
          PROVE  FALSE
        BY <2>3 DEF ProviderFail, OpenSDKFail, BootFail, RemoveAll
    <2>4. ASSUME NEW p \in Procs, Unlock(p)
          PROVE  NothingRemoved' /\ \A q \in Procs : ~failing'[q]
        BY <2>4 DEF Unlock
    <2>5. CASE (\E q \in Probes : ProbeOpen(q) \/ ProbeFree(q) \/ ProbeRunning(q) \/ ProbeRelease(q))
               \/ UNCHANGED vars
        BY <2>5 DEF ProbeOpen, ProbeFree, ProbeRunning, ProbeRelease, vars
    <2> QED BY <2>1, <2>2, <2>3, <2>4, <2>5 DEF Next
<1> QED BY <1>1, <1>2, PTL DEF Spec

=============================================================================

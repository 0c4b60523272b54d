---------------------------- MODULE ModelDownload ----------------------------
(***************************************************************************)
(* The model download (indexer/embed_local_download.go): the body streams  *)
(* to <dest>.part while it is hashed, an interrupted download resumes from *)
(* the .part, and the verified file is renamed into place.  The models     *)
(* directory is every engine's: the next engine resumes the same .part.    *)
(* Closing an engine joins its download, but an engine whose teardown gave *)
(* up on a straggler is closed later, beside the engines that follow       *)
(* (server/engine.go): till then two downloads write one .part.            *)
(*                                                                         *)
(* The file is Size blocks; block i is right when it holds i, and a hash   *)
(* is the sequence of the blocks hashed.  A file that is written keeps its *)
(* writer when it is renamed or removed.  A process crash leaves the files *)
(* as written (a power loss is not modelled: the code does not sync).      *)
(* Progress frames are left out.                                           *)
(***************************************************************************)
EXTENDS Naturals, Sequences

CONSTANTS
    Size,       \* blocks of the model
    Pinned,     \* a sha256 is known
    MaxGens,    \* bound: downloads started, one per engine
    MaxFaults   \* bound: errors of network, file system and server

ASSUME DownloadAssumption ==
    /\ Size \in Nat \ {0} /\ Pinned \in BOOLEAN
    /\ MaxGens \in Nat \ {0} /\ MaxFaults \in Nat

Good == [i \in 1..Size |-> i]
Gens == 1..MaxGens

VARIABLES
    partial, part,    \* <dest>.part is there, and what is in it
    installed, dest,  \* the model file is there, and what is in it
    fd,               \* the file each download has open: "part", "dest", one that is
                      \* gone, or none
    up, gen,          \* an engine is up; its download (the last one started)
    cancelled,        \* its context
    stage, h,         \* where each download is, what it has hashed
    pos,              \* where it writes next; ignored in append mode
    mode,             \* how it opened the .part
    faults,
    abandoned,        \* the downloads of the engines left to the janitor
    met,              \* history: the downloads whose attempt had another's beside it,
                      \* one of the two an abandoned engine's
    contested         \* history: one of these installed the file

files == <<partial, part, installed, dest, fd, contested>>
engine == <<up, gen, cancelled, abandoned>>
download == <<files, engine, stage, h, pos, mode, faults, met>>

Blocks == 0..Size
Stages == {"none", "attempt", "request", "stream", "verify", "backoff", "finished"}

DownloadTypeOK ==
    /\ partial \in BOOLEAN /\ part \in Seq(Blocks)
    /\ installed \in BOOLEAN /\ dest \in Seq(Blocks)
    /\ fd \in [Gens -> {"none", "part", "dest", "gone"}]
    /\ up \in BOOLEAN /\ gen \in 0..MaxGens /\ cancelled \in [Gens -> BOOLEAN]
    /\ stage \in [Gens -> Stages] /\ h \in [Gens -> Seq(Blocks)]
    /\ pos \in [Gens -> Nat] /\ mode \in [Gens -> {"append", "truncate"}]
    /\ faults \in 0..MaxFaults
    /\ abandoned \subseteq Gens /\ met \subseteq Gens /\ contested \in BOOLEAN

DownloadInit ==
    /\ partial = FALSE /\ part = <<>> /\ installed = FALSE /\ dest = <<>>
    /\ fd = [g \in Gens |-> "none"]
    /\ up = FALSE /\ gen = 0 /\ cancelled = [g \in Gens |-> FALSE]
    /\ stage = [g \in Gens |-> "none"] /\ h = [g \in Gens |-> <<>>]
    /\ pos = [g \in Gens |-> 0] /\ mode = [g \in Gens |-> "truncate"]
    /\ faults = 0 /\ abandoned = {} /\ met = {} /\ contested = FALSE

MoveTo(g, l) == stage' = [stage EXCEPT ![g] = l]
Fault == faults < MaxFaults /\ faults' = faults + 1

(* The download reads, writes or renames the .part.                         *)
AtWork(g) == stage[g] \in {"attempt", "request", "stream", "verify"}

(* An attempt begins; beside it are those an abandoned engine explains.     *)
StartAttempt(g) ==
    /\ MoveTo(g, "attempt")
    /\ LET beside == {x \in Gens \ {g} : AtWork(x) /\ {x, g} \cap abandoned # {}}
       IN met' = IF beside = {} THEN met \ {g} ELSE met \cup beside \cup {g}

-----------------------------------------------------------------------------
(* The engine.                                                              *)

(* resolveLocalSpec starts a download when the file is not there; an engine *)
(* that finds it has none, and is left out.                                 *)
Boot ==
    /\ ~up /\ ~installed /\ gen < MaxGens
    /\ up' = TRUE /\ gen' = gen + 1 /\ StartAttempt(gen + 1)
    /\ UNCHANGED <<files, cancelled, abandoned, h, pos, mode, faults>>

MayEnd == up /\ ~cancelled[gen] /\ (gen < MaxGens \/ installed)

CloseEngine ==
    /\ MayEnd
    /\ cancelled' = [cancelled EXCEPT ![gen] = TRUE]
    /\ UNCHANGED <<files, up, gen, abandoned, stage, h, pos, mode, faults, met>>

(* Mutant of Joined: Close does not wait for the goroutine.                 *)
JoinedNot ==
    /\ up /\ cancelled[gen]
    /\ up' = FALSE
    /\ UNCHANGED <<files, gen, cancelled, abandoned, stage, h, pos, mode, faults, met>>

(* Close returns when the goroutine has, and the engine goes down.          *)
Joined ==
    /\ up /\ cancelled[gen] /\ stage[gen] = "finished"
    /\ up' = FALSE
    /\ UNCHANGED <<files, gen, cancelled, abandoned, stage, h, pos, mode, faults, met>>

(* The teardown's drain timed out: nothing is closed, and another account's *)
(* engine may boot.                                                         *)
Abandon ==
    /\ MayEnd
    /\ up' = FALSE /\ abandoned' = abandoned \cup {gen}
    /\ UNCHANGED <<files, gen, cancelled, stage, h, pos, mode, faults, met>>

(* The straggler has left: the janitor closes the engine.                   *)
JanitorCloses(g) ==
    /\ g \in abandoned /\ ~cancelled[g] /\ stage[g] # "finished"
    /\ cancelled' = [cancelled EXCEPT ![g] = TRUE]
    /\ UNCHANGED <<files, up, gen, abandoned, stage, h, pos, mode, faults, met>>

(* The process is killed.                                                   *)
CrashProcess ==
    /\ up /\ (gen < MaxGens \/ installed)
    /\ Fault
    /\ up' = FALSE /\ fd' = [g \in Gens |-> "none"]
    /\ stage' = [g \in Gens |-> IF stage[g] = "none" THEN "none" ELSE "finished"]
    /\ UNCHANGED <<partial, part, installed, dest, contested, gen, cancelled, abandoned,
                   h, pos, mode, met>>

-----------------------------------------------------------------------------
(* run: attempts, for ever.                                                 *)

(* An attempt that fails ends the download if it was cancelled.             *)
Failed(g) == MoveTo(g, IF cancelled[g] THEN "finished" ELSE "backoff")

Retry(g) ==
    /\ stage[g] = "backoff"
    /\ \/ cancelled[g] /\ MoveTo(g, "finished") /\ UNCHANGED met
       \/ ~cancelled[g] /\ StartAttempt(g)
    /\ UNCHANGED <<files, engine, h, pos, mode, faults>>

(* The rename into place, and who writes which file after it.  It may fail, *)
(* as it does when the .part has gone, and the next attempt starts over.    *)
Install(g) ==
    \/ /\ partial
       /\ installed' = TRUE /\ dest' = part /\ partial' = FALSE /\ part' = <<>>
       /\ fd' = [x \in Gens |-> CASE fd[x] = "part" -> "dest" [] fd[x] = "dest" -> "gone"
                                  [] OTHER -> fd[x]]
       /\ contested' = (g \in met)
       /\ MoveTo(g, "finished") /\ UNCHANGED faults
    \/ Fault /\ Failed(g) /\ UNCHANGED files
    \/ ~partial /\ Failed(g) /\ UNCHANGED <<files, faults>>

(* The .part is removed.                                                    *)
RemovePart ==
    /\ partial' = FALSE /\ part' = <<>>
    /\ fd' = [x \in Gens |-> IF fd[x] = "part" THEN "gone" ELSE fd[x]]
    /\ UNCHANGED <<installed, dest, contested>>

(* The .part is hashed again, and removed if it cannot be read.             *)
Attempt(g) ==
    /\ stage[g] = "attempt"
    /\ \/ /\ h' = [h EXCEPT ![g] = part]
          /\ MoveTo(g, "request") /\ UNCHANGED <<files, faults>>
       \/ /\ part # <<>> /\ Fault
          /\ RemovePart /\ h' = [h EXCEPT ![g] = <<>>]
          /\ MoveTo(g, "request")
       \/ /\ Fault \/ (cancelled[g] /\ UNCHANGED faults)
          /\ Failed(g) /\ UNCHANGED <<files, h>>
    /\ UNCHANGED <<engine, pos, mode, met>>

(* A .part that already verifies is installed without a request.            *)
Verifies(g) == Pinned /\ h[g] = Good

InstallPart(g) ==
    /\ stage[g] = "request" /\ Verifies(g)
    /\ Install(g)
    /\ UNCHANGED <<engine, h, pos, mode, met>>

(* The request fails, or the answer is none of the expected ones.           *)
RequestFails(g) ==
    /\ stage[g] = "request" /\ ~Verifies(g)
    /\ Fault \/ (cancelled[g] /\ UNCHANGED faults)
    /\ Failed(g)
    /\ UNCHANGED <<files, engine, h, pos, mode, met>>

(* The .part is opened, and created if it is not there.                     *)
Open(g, m, content) ==
    /\ partial' = TRUE /\ part' = content
    /\ fd' = [fd EXCEPT ![g] = "part"] /\ mode' = [mode EXCEPT ![g] = m]
    /\ MoveTo(g, "stream")
    /\ UNCHANGED <<installed, dest, contested>>

(* 206: the .part is appended to.                                           *)
Partial(g) ==
    /\ stage[g] = "request" /\ ~Verifies(g) /\ h[g] # <<>> /\ Len(h[g]) < Size
    /\ Open(g, "append", part)
    /\ UNCHANGED <<engine, h, pos, faults, met>>

(* 200: a fresh start, or a server that ignored the range.                  *)
Full(g) ==
    /\ stage[g] = "request" /\ ~Verifies(g)
    /\ Open(g, "truncate", <<>>)
    /\ h' = [h EXCEPT ![g] = <<>>] /\ pos' = [pos EXCEPT ![g] = 0]
    /\ UNCHANGED <<engine, faults, met>>

(* Mutant of PastTheEnd: a complete .part that does not verify is kept.     *)
PastTheEndKeeps(g) ==
    /\ stage[g] = "request" /\ ~Verifies(g) /\ Len(h[g]) >= Size
    /\ \/ ~Pinned /\ Install(g)
       \/ Pinned /\ Failed(g) /\ UNCHANGED <<files, faults>>
    /\ UNCHANGED <<engine, h, pos, mode, met>>

(* 416: the .part is complete; without a sha it is trusted, with one it is  *)
(* corrupt.                                                                 *)
PastTheEnd(g) ==
    /\ stage[g] = "request" /\ ~Verifies(g) /\ Len(h[g]) >= Size
    /\ \/ ~Pinned /\ Install(g)
       \/ Pinned /\ RemovePart /\ Failed(g) /\ UNCHANGED faults
    /\ UNCHANGED <<engine, h, pos, mode, met>>

(* Block b of a file after its first n; a gap before it reads as zeros.     *)
Put(s, n, b) ==
    [i \in 1..(IF n < Len(s) THEN Len(s) ELSE n + 1) |->
        IF i = n + 1 THEN b ELSE IF i <= Len(s) THEN s[i] ELSE 0]

Written(g, s, b) == Put(s, IF mode[g] = "append" THEN Len(s) ELSE pos[g], b)

(* One block to the open file and to the hash; a fault sends a wrong one.   *)
Write(g, b) ==
    /\ h' = [h EXCEPT ![g] = Append(@, b)]
    /\ pos' = [pos EXCEPT ![g] = IF mode[g] = "append" THEN @ ELSE @ + 1]
    /\ part' = IF fd[g] = "part" THEN Written(g, part, b) ELSE part
    /\ dest' = IF fd[g] = "dest" THEN Written(g, dest, b) ELSE dest

Stream(g) ==
    /\ stage[g] = "stream" /\ ~cancelled[g] /\ Len(h[g]) < Size
    /\ \/ Write(g, Len(h[g]) + 1) /\ UNCHANGED faults
       \/ Write(g, 0) /\ Fault
    /\ UNCHANGED <<partial, installed, fd, contested, engine, stage, mode, met>>

(* The body ends, where it should or (a length nobody announced) before;    *)
(* or the connection breaks; or Close is heard.                             *)
StreamEnds(g) ==
    /\ stage[g] = "stream"
    /\ \/ Len(h[g]) >= Size /\ MoveTo(g, "verify") /\ UNCHANGED faults
       \/ Fault /\ (MoveTo(g, "verify") \/ Failed(g))
       \/ cancelled[g] /\ MoveTo(g, "finished") /\ UNCHANGED faults
    /\ fd' = [fd EXCEPT ![g] = "none"]
    /\ UNCHANGED <<partial, part, installed, dest, contested, engine, h, pos, mode, met>>

Verify(g) ==
    /\ stage[g] = "verify"
    /\ \/ (Pinned => h[g] = Good) /\ Install(g)
       \/ Pinned /\ h[g] # Good /\ RemovePart /\ Failed(g) /\ UNCHANGED faults
    /\ UNCHANGED <<engine, h, pos, mode, met>>

-----------------------------------------------------------------------------
Download(g) ==
    \/ Retry(g) \/ Attempt(g) \/ InstallPart(g) \/ RequestFails(g) \/ Partial(g) \/ Full(g)
    \/ PastTheEnd(g) \/ Stream(g) \/ StreamEnds(g) \/ Verify(g)

DownloadNext ==
    \/ Boot \/ CloseEngine \/ Joined \/ Abandon \/ CrashProcess
    \/ \E g \in Gens : JanitorCloses(g) \/ Download(g)

(* The goroutine runs and the server answers; the faults are finitely many. *)
DownloadFairness == \A g \in Gens : WF_download(Download(g))

DownloadSpec == DownloadInit /\ [][DownloadNext]_download /\ DownloadFairness

-----------------------------------------------------------------------------
(* Properties.                                                              *)

(* With a pinned sha what is installed is the model, whichever attempts,    *)
(* engines and servers wrote parts of it: the hash that was checked is the  *)
(* hash of the file that was renamed.  Not so for a download whose attempt  *)
(* had an abandoned engine's beside it: the .part the two write is renamed  *)
(* on the hash of what one of them received.                                *)
InstalledVerified == Pinned /\ installed /\ ~contested => dest = Good

(* Once the faults are over an engine that stays up gets its model: no      *)
(* .part, however it was left, wedges the retries.                          *)
Installs == <>[](up /\ ~cancelled[gen]) => <>installed

-----------------------------------------------------------------------------
(* Proofs: for every size, number of engines and number of faults.          *)

(* Close joins: beside the download of the engine that is up only those of  *)
(* abandoned engines run; an engine to come has none.                       *)
Runners ==
    /\ up => gen \in Gens
    /\ \A g \in Gens :
        /\ AtWork(g) \/ stage[g] = "backoff" => g \in abandoned \/ (up /\ g = gen)
        /\ gen < g => stage[g] = "none"

(* Two attempts beside each other are known.                                *)
Overlaps == \A g, x \in Gens : g # x /\ AtWork(g) /\ AtWork(x) => g \in met

(* A file is open while a body streams into it.                             *)
OpenFiles == \A g \in Gens : fd[g] # "none" => stage[g] = "stream"

(* A download that was alone with the .part hashed what is in it, for it    *)
(* writes at its end, however it was opened ...                             *)
HashIsFile == \A g \in Gens \ met :
    /\ stage[g] \in {"request", "stream", "verify"} => h[g] = part
    /\ stage[g] = "stream" => fd[g] = "part" /\ (mode[g] = "truncate" => pos[g] = Len(part))

(* ... and nobody writes the file that such a download installed.           *)
Settled == installed /\ ~contested => \A g \in Gens : fd[g] # "dest"

(* The inductive invariant.                                                 *)
DownloadInv ==
    DownloadTypeOK /\ Runners /\ Overlaps /\ OpenFiles /\ HashIsFile /\ Settled /\ InstalledVerified
=============================================================================

--------------------------- MODULE PlatformProofs ---------------------------
(***************************************************************************)
(* Proofs about what ties the server to its host and to the network: the   *)
(* embedded server, the push sync and the push token, the status stream.   *)
(***************************************************************************)
EXTENDS Embedded, Push, StatusStream, FiniteSetTheorems, SequenceTheorems, TLAPS

(* A muted chat notifies nobody whatever fails, and a token counts as       *)
(* forwarded only when the node took that very token (see Push); no        *)
(* keepalive is written after its handler left, and every dropped status is *)
(* announced (see StatusStream).                                            *)
SyncsHonest ==
    /\ PushTypeOK /\ MutedStaysMuted
    /\ TokenTypeOK /\ ForwardedHonest
    /\ StreamTypeOK /\ StreamSound

-----------------------------------------------------------------------------
(* The embedded server.                                                     *)

(* The inductive invariant.  Of the host's calls at most one, hard stops    *)
(* apart, is under way, and never while a handle is set.  A run that is     *)
(* still on the directory belongs to the handle, to that call, or to the    *)
(* drain channel, which the next Start waits for before it boots.           *)
Busy(t) == pc[t] \in {"drain", "boot", "cancel", "wait"}
OneCall ==
    /\ \A t, u \in Threads : Busy(t) /\ Busy(u) => t = u
    /\ \A t \in Threads : Busy(t) => handle = 0

Owns(t, n) == pc[t] \in {"boot", "cancel", "wait"} /\ mine[t] = n
Owned ==
    /\ \A n \in Runs : run[n] \in OnDirectory =>
           handle = n \/ stopping = n \/ \E t \in Threads : Owns(t, n)
    /\ \A t \in Threads : pc[t] \notin {"idle", "drain"} => mine[t] # 0
    /\ stopping # 0 =>
         /\ handle # 0 => run[stopping] = "done"
         /\ \A t \in Threads : /\ pc[t] = "drain" => mine[t] = stopping
                               /\ pc[t] \in {"boot", "cancel", "wait"} => run[stopping] = "done"

Bound ==
    /\ \A n \in bound : run[n] \notin {"none", "booting"}
    /\ handle # 0 => handle \in bound
    /\ stopping # 0 => stopping \in bound
    /\ stopping # 0 /\ run[stopping] = "serving" =>
         \E t \in Threads : pc[t] = "cancelNow" /\ mine[t] = stopping

IInv == TypeOK /\ OneCall /\ Owned /\ Bound

(* What the theorem assumes: the host does not overlap a Start with a       *)
(* graceful Stop, as the library's contract asks of it.                      *)
EmbeddedConstants == ~Overlap /\ MaxRuns \in Nat


(* The ranges the leaves below need of the constants.                       *)
LEMMA Ranges ==
    ASSUME EmbeddedConstants
    PROVE  /\ MaxRuns \in Nat /\ 0 \in 0 .. MaxRuns /\ Runs \subseteq 0 .. MaxRuns
           /\ 0 \notin Runs
           /\ {"idle", "drain", "boot", "cancel", "cancelNow", "wait"} \subseteq Places
          
           /\ {"running", "badDir", "badOptions", "ok", "indexRebuild", "bootFailed"} \subseteq Codes
BY DEF EmbeddedConstants, Places, Codes, Runs

(* A record that is not nil names a run.                                     *)
LEMMA NonZero == ASSUME EmbeddedConstants, NEW n \in 0 .. MaxRuns, n # 0 PROVE n \in Runs
BY DEF EmbeddedConstants, Runs

(* A thread's move changes that thread and keeps the types.                 *)
LEMMA GoesEffect ==
    ASSUME MaxRuns \in Nat, TypeOK, NEW t \in Threads,
           NEW place \in Places, NEW n \in 0 .. MaxRuns, Goes(t, place, n)
    PROVE  /\ pc' \in [Threads -> Places] /\ mine' \in [Threads -> 0 .. MaxRuns]
           /\ pc'[t] = place /\ mine'[t] = n
           /\ \A u \in Threads \ {t} : pc'[u] = pc[u] /\ mine'[u] = mine[u]
<1>1. pc' \in [Threads -> Places] /\ mine' \in [Threads -> 0 .. MaxRuns]
    BY DEF TypeOK, Goes
<1> QED BY <1>1 DEF TypeOK, Goes

(* So does the return of a Start, with the code it answers.                 *)
LEMMA ReturnEffect ==
    ASSUME MaxRuns \in Nat, TypeOK, NEW t \in Threads,
           NEW code \in Codes \cup {""}, Return(t, code)
    PROVE  Goes(t, "idle", 0) /\ answer' \in [Threads -> Codes \cup {""}]
BY DEF TypeOK, Return

(* What each step of a thread does to that thread: it goes somewhere.       *)
LEMMA ThreadGoes ==
    ASSUME EmbeddedConstants, TypeOK, Owned, NEW t \in Threads,
           StartCall(t) \/ StopCall(t) \/ StopNowCall(t) \/ ThreadStep(t)
    PROVE  /\ \E place \in Places, n \in 0 .. MaxRuns : Goes(t, place, n)
           /\ answer' \in [Threads -> Codes \cup {""}]
<1> USE DEF EmbeddedConstants
<1>0. /\ MaxRuns \in Nat /\ 0 \in 0 .. MaxRuns /\ Runs \subseteq 0 .. MaxRuns
      /\ {"idle", "drain", "boot", "cancel", "cancelNow", "wait"} \subseteq Places
      /\ {"running", "badDir", "badOptions", "ok", "indexRebuild", "bootFailed"} \subseteq Codes
    BY Ranges
<1>a. /\ mine[t] \in 0 .. MaxRuns /\ handle \in 0 .. MaxRuns /\ stopping \in 0 .. MaxRuns
      /\ answer \in [Threads -> Codes \cup {""}]
    BY DEF TypeOK
<1>1. CASE \E code \in Codes : Return(t, code)
    BY <1>0, <1>a, <1>1, ReturnEffect
<1>2. CASE StartCall(t)
    BY <1>0, <1>a, <1>1, <1>2 DEF StartCall
<1>3. CASE StopCall(t)
    BY <1>0, <1>a, <1>3 DEF StopCall
<1>4. CASE StopNowCall(t)
    BY <1>0, <1>a, <1>4 DEF StopNowCall
<1>5. CASE StartRefused(t)
    BY <1>0, <1>a, <1>1, <1>5 DEF StartRefused
<1>6. CASE StartBoots(t)
    BY <1>0, <1>a, <1>6 DEF StartBoots
<1>7. CASE StartReady(t)
    BY <1>0, <1>a, <1>1, <1>7 DEF StartReady
<1>8. CASE StartFailed(t)
    BY <1>0, <1>a, <1>1, <1>8 DEF StartFailed, errCode
<1>9. CASE Cancel(t)
    BY <1>0, <1>a, <1>9 DEF Cancel
<1>10. CASE StopWaits(t)
    BY <1>0, <1>a, <1>10 DEF StopWaits
<1> QED BY <1>2, <1>3, <1>4, <1>5, <1>6, <1>7, <1>8, <1>9, <1>10 DEF ThreadStep
(* The rest of the state stays typed.                                       *)
RestOK == /\ handle \in 0 .. MaxRuns /\ stopping \in 0 .. MaxRuns
          /\ watchers \subseteq Runs /\ bound \subseteq Runs
          /\ run \in [Runs -> {"none", "booting", "serving", "draining", "done"}]
          /\ bad \in [Runs -> {"", "boot", "index"}]


(* The rest of the state stays well typed.                                  *)
LEMMA RestStep ==
    ASSUME EmbeddedConstants, TypeOK, Owned, [Next]_vars PROVE RestOK'
<1>0. /\ MaxRuns \in Nat /\ 0 \in 0 .. MaxRuns /\ Runs \subseteq 0 .. MaxRuns
      /\ {"idle", "drain", "boot", "cancel", "cancelNow", "wait"} \subseteq Places
      /\ handle \in 0 .. MaxRuns /\ stopping \in 0 .. MaxRuns
      /\ mine \in [Threads -> 0 .. MaxRuns]
    BY Ranges DEF TypeOK
<1>a. \A t \in Threads : pc[t] \notin {"idle", "drain"} => mine[t] \in Runs
    BY <1>0, NonZero DEF Owned
<1> USE <1>0 DEF TypeOK, RestOK
<1>1. ASSUME NEW t \in Threads, StartCall(t) PROVE RestOK'
    BY <1>1, <1>a DEF StartCall
<1>2. ASSUME NEW t \in Threads, StopCall(t) PROVE RestOK'
    BY <1>2, <1>a DEF StopCall
<1>3. ASSUME NEW t \in Threads, StopNowCall(t) PROVE RestOK'
  <2>1. handle \in Runs
    BY <1>3, NonZero DEF StopNowCall
  <2> QED BY <1>3, <2>1 DEF StopNowCall
<1>4. ASSUME NEW t \in Threads, StartRefused(t) PROVE RestOK'
    BY <1>4, <1>a DEF StartRefused
<1>5. ASSUME NEW t \in Threads, StartBoots(t) PROVE RestOK'
    BY <1>5, <1>a DEF StartBoots
<1>6. ASSUME NEW t \in Threads, StartReady(t) PROVE RestOK'
    BY <1>6, <1>a DEF StartReady
<1>7. ASSUME NEW t \in Threads, StartFailed(t) PROVE RestOK'
    BY <1>7, <1>a DEF StartFailed
<1>8. ASSUME NEW t \in Threads, Cancel(t) PROVE RestOK'
    BY <1>8, <1>a DEF Cancel
<1>9. ASSUME NEW t \in Threads, StopWaits(t) PROVE RestOK'
    BY <1>9, <1>a DEF StopWaits
<1>10. ASSUME NEW n \in Runs, Bind(n) PROVE RestOK'
    BY <1>10 DEF Bind
<1>11. ASSUME NEW n \in Runs, BootFails(n) PROVE RestOK'
    BY <1>11 DEF BootFails
<1>12. ASSUME NEW n \in Runs, Drain(n) PROVE RestOK'
    BY <1>12 DEF Drain
<1>13. ASSUME NEW n \in Runs, EndsItself(n) PROVE RestOK'
    BY <1>13 DEF EndsItself
<1>14. ASSUME NEW n \in Runs, Cleared(n) PROVE RestOK'
    BY <1>14 DEF Cleared
<1>15. CASE UNCHANGED vars
    BY <1>15 DEF vars
<1> QED BY <1>1, <1>2, <1>3, <1>4, <1>5, <1>6, <1>7, <1>8, <1>9, <1>10, <1>11, <1>12, <1>13,
           <1>14, <1>15 DEF Next, ThreadStep, RunStep


(* The state stays well typed.                                              *)
LEMMA TypeStep ==
    ASSUME EmbeddedConstants, TypeOK, Owned, [Next]_vars PROVE TypeOK'
<1>1. ASSUME NEW t \in Threads, StartCall(t) \/ StopCall(t) \/ StopNowCall(t) \/ ThreadStep(t)
      PROVE  pc' \in [Threads -> Places] /\ mine' \in [Threads -> 0 .. MaxRuns] /\ answer' \in [Threads -> Codes \cup {""}]
    BY <1>1, ThreadGoes, GoesEffect DEF EmbeddedConstants
<1>2. ASSUME NEW n \in Runs, RunStep(n) \/ EndsItself(n) \/ Cleared(n)
      PROVE  UNCHANGED <<pc, mine, answer>>
    BY <1>2 DEF RunStep, Bind, BootFails, Drain, EndsItself, Cleared
<1>3. pc' \in [Threads -> Places] /\ mine' \in [Threads -> 0 .. MaxRuns] /\ answer' \in [Threads -> Codes \cup {""}]
    BY <1>1, <1>2 DEF Next, vars, TypeOK
<1> QED BY <1>3, RestStep DEF TypeOK, RestOK


(* Calls do not overlap, and a call under way finds no handle.              *)
LEMMA OneCallStep ==
    ASSUME EmbeddedConstants, TypeOK, OneCall, [Next]_vars PROVE OneCall'
<1>0. /\ MaxRuns \in Nat /\ 0 \in 0 .. MaxRuns /\ Runs \subseteq 0 .. MaxRuns
      /\ {"idle", "drain", "boot", "cancel", "cancelNow", "wait"} \subseteq Places
      /\ handle \in 0 .. MaxRuns /\ stopping \in 0 .. MaxRuns
      /\ mine \in [Threads -> 0 .. MaxRuns]
    BY Ranges DEF TypeOK
<1> USE <1>0, GoesEffect DEF EmbeddedConstants, OneCall, Busy
<1>1. ASSUME NEW t \in Threads, StartCall(t) PROVE OneCall'
  <2>1. CASE handle # 0
    <3>1. Goes(t, "idle", 0) /\ UNCHANGED handle
        BY <1>1, <2>1 DEF StartCall, Return
    <3> QED BY <3>1
  <2>2. CASE handle = 0
    <3>1. Goes(t, "drain", stopping) /\ UNCHANGED handle /\ \A u \in Threads : ~Busy(u)
        BY <1>1, <2>2 DEF StartCall, MayCall
    <3> QED BY <2>2, <3>1
  <2> QED BY <2>1, <2>2
<1>2. ASSUME NEW t \in Threads, StopCall(t) PROVE OneCall'
  <2>1. Goes(t, "cancel", handle) /\ handle' = 0 /\ \A u \in Threads : ~Busy(u)
    BY <1>2 DEF StopCall, MayCall
  <2> QED BY <2>1
<1>3. ASSUME NEW t \in Threads, StopNowCall(t) PROVE OneCall'
    BY <1>3 DEF StopNowCall
<1>4. ASSUME NEW t \in Threads, StartRefused(t) PROVE OneCall'
  <2>1. Goes(t, "idle", 0)
    BY <1>4 DEF StartRefused, Return
  <2> QED BY <1>4, <2>1 DEF StartRefused
<1>5. ASSUME NEW t \in Threads, StartBoots(t) PROVE OneCall'
    BY <1>5 DEF StartBoots
<1>6. ASSUME NEW t \in Threads, StartReady(t) PROVE OneCall'
  <2>1. Goes(t, "idle", 0)
    BY <1>6 DEF StartReady, Return
  <2> QED BY <1>6, <2>1 DEF StartReady
<1>7. ASSUME NEW t \in Threads, StartFailed(t) PROVE OneCall'
  <2>1. Goes(t, "idle", 0)
    BY <1>7 DEF StartFailed, Return
  <2> QED BY <1>7, <2>1 DEF StartFailed
<1>8. ASSUME NEW t \in Threads, Cancel(t) PROVE OneCall'
  <2>1. CASE pc[t] = "cancel"
    BY <1>8, <2>1 DEF Cancel
  <2>2. CASE pc[t] = "cancelNow"
    <3>1. Goes(t, "idle", 0) /\ UNCHANGED handle
        BY <1>8, <2>2 DEF Cancel
    <3> QED BY <3>1
  <2> QED BY <1>8, <2>1, <2>2 DEF Cancel
<1>9. ASSUME NEW t \in Threads, StopWaits(t) PROVE OneCall'
    BY <1>9 DEF StopWaits
<1>10. ASSUME NEW n \in Runs, Bind(n) PROVE OneCall'
    BY <1>10 DEF Bind
<1>11. ASSUME NEW n \in Runs, BootFails(n) PROVE OneCall'
    BY <1>11 DEF BootFails
<1>12. ASSUME NEW n \in Runs, Drain(n) PROVE OneCall'
    BY <1>12 DEF Drain
<1>13. ASSUME NEW n \in Runs, EndsItself(n) PROVE OneCall'
    BY <1>13 DEF EndsItself
<1>14. ASSUME NEW n \in Runs, Cleared(n) PROVE OneCall'
    BY <1>14 DEF Cleared
<1>15. CASE UNCHANGED vars
    BY <1>15 DEF vars
<1> QED BY <1>1, <1>2, <1>3, <1>4, <1>5, <1>6, <1>7, <1>8, <1>9, <1>10, <1>11, <1>12, <1>13,
           <1>14, <1>15 DEF Next, ThreadStep, RunStep


(* Every run on the directory has one owner.                                *)
LEMMA OwnedStep ==
    ASSUME EmbeddedConstants, TypeOK, OneCall, Owned, Bound, [Next]_vars PROVE Owned'
<1>0. /\ MaxRuns \in Nat /\ 0 \in 0 .. MaxRuns /\ Runs \subseteq 0 .. MaxRuns
      /\ {"idle", "drain", "boot", "cancel", "cancelNow", "wait"} \subseteq Places
      /\ handle \in 0 .. MaxRuns /\ stopping \in 0 .. MaxRuns
      /\ mine \in [Threads -> 0 .. MaxRuns]
    BY Ranges DEF TypeOK
<1>a. /\ run \in [Runs -> {"none", "booting", "serving", "draining", "done"}]
      /\ bound \subseteq Runs /\ watchers \subseteq Runs /\ pc \in [Threads -> Places]
      /\ 0 \notin Runs
    BY Ranges DEF TypeOK
<1>b. \A n \in 0 .. MaxRuns : n # 0 => n \in Runs
    BY NonZero
<1> USE <1>0, <1>a, <1>b, GoesEffect DEF EmbeddedConstants, OneCall, Busy
<1>1. ASSUME NEW t \in Threads, StartCall(t) PROVE Owned'
    BY <1>1 DEF StartCall, Owned, Owns, OnDirectory, Return, Drained, Bound
<1>2. ASSUME NEW t \in Threads, StopCall(t) PROVE Owned'
    BY <1>2 DEF StopCall, Owned, Owns, OnDirectory, Return, Drained, Bound
<1>3. ASSUME NEW t \in Threads, StopNowCall(t) PROVE Owned'
    BY <1>3 DEF StopNowCall, Owned, Owns, OnDirectory, Return, Drained, Bound
<1>4. ASSUME NEW t \in Threads, StartRefused(t) PROVE Owned'
    BY <1>4 DEF StartRefused, Owned, Owns, OnDirectory, Return, Drained, Bound
<1>5. ASSUME NEW t \in Threads, StartBoots(t) PROVE Owned'
  <2>0. PICK n \in Runs : /\ run[n] = "none" /\ run' = [run EXCEPT ![n] = "booting"]
                          /\ Goes(t, "boot", n)
    BY <1>5 DEF StartBoots
  <2>a. pc[t] = "drain" /\ UNCHANGED <<handle, stopping>> /\ Drained(t)
    BY <1>5 DEF StartBoots
  <2>1. /\ pc[t] = "drain" /\ handle = 0 /\ UNCHANGED <<handle, stopping>> /\ n \in 0 .. MaxRuns
        /\ stopping # 0 => run[stopping] = "done"
    <3>1. handle = 0 /\ n \in 0 .. MaxRuns
        BY <2>a
    <3>2. ASSUME stopping # 0 PROVE run[stopping] = "done"
        BY <2>a, <3>2 DEF Drained, Owned
    <3> QED BY <2>a, <3>1, <3>2
  <2>2. pc'[t] = "boot" /\ mine'[t] = n /\ \A u \in Threads \ {t} : pc'[u] = pc[u] /\ mine'[u] = mine[u]
    BY <2>0, <2>1
  <2>3. ASSUME NEW m \in Runs, run'[m] \in OnDirectory
        PROVE  handle' = m \/ stopping' = m \/ \E u \in Threads : Owns(u, m)'
    BY <2>0, <2>1, <2>2, <2>3 DEF Owned, Owns
  <2>4. ASSUME NEW u \in Threads, pc'[u] \notin {"idle", "drain"} PROVE mine'[u] # 0
    BY <2>1, <2>2, <2>4 DEF Owned
  <2>5. stopping # 0 => run'[stopping] = "done"
    BY <2>0, <2>1
  <2>6. ASSUME NEW u \in Threads, pc'[u] = "drain" PROVE FALSE
    BY <2>1, <2>2, <2>6
  <2> QED BY <2>1, <2>3, <2>4, <2>5, <2>6 DEF Owned
<1>6. ASSUME NEW t \in Threads, StartReady(t) PROVE Owned'
  <2>0. Goes(t, "idle", 0)
    BY <1>6 DEF StartReady, Return
  <2>1. /\ pc[t] = "boot" /\ handle = 0 /\ handle' = mine[t] /\ UNCHANGED <<stopping, run>>
        /\ stopping # 0 => run[stopping] = "done"
    BY <1>6 DEF StartReady, Owned
  <2>2. pc'[t] = "idle" /\ mine'[t] = 0 /\ \A u \in Threads \ {t} : pc'[u] = pc[u] /\ mine'[u] = mine[u]
    BY <2>0
  <2>3. ASSUME NEW m \in Runs, run'[m] \in OnDirectory
        PROVE  handle' = m \/ stopping' = m \/ \E u \in Threads : Owns(u, m)'
    BY <2>1, <2>2, <2>3 DEF Owned, Owns
  <2>4. ASSUME NEW u \in Threads, pc'[u] \notin {"idle", "drain"} PROVE mine'[u] # 0
    BY <2>1, <2>2, <2>4 DEF Owned
  <2>5. ASSUME NEW u \in Threads, pc'[u] = "drain" PROVE FALSE
    BY <2>1, <2>2, <2>5
  <2> QED BY <2>1, <2>3, <2>4, <2>5 DEF Owned
<1>7. ASSUME NEW t \in Threads, StartFailed(t) PROVE Owned'
  <2>0. Goes(t, "idle", 0)
    BY <1>7 DEF StartFailed, Return
  <2>1. /\ pc[t] = "boot" /\ handle = 0 /\ run[mine[t]] = "done"
        /\ UNCHANGED <<handle, stopping, run>>
        /\ stopping # 0 => run[stopping] = "done"
    BY <1>7 DEF StartFailed, Owned
  <2>2. pc'[t] = "idle" /\ mine'[t] = 0 /\ \A u \in Threads \ {t} : pc'[u] = pc[u] /\ mine'[u] = mine[u]
    BY <2>0
  <2>3. ASSUME NEW m \in Runs, run'[m] \in OnDirectory
        PROVE  handle' = m \/ stopping' = m \/ \E u \in Threads : Owns(u, m)'
    BY <2>1, <2>2, <2>3 DEF Owned, Owns, OnDirectory
  <2>4. ASSUME NEW u \in Threads, pc'[u] \notin {"idle", "drain"} PROVE mine'[u] # 0
    BY <2>1, <2>2, <2>4 DEF Owned
  <2>5. ASSUME NEW u \in Threads, pc'[u] = "drain" PROVE FALSE
    BY <2>1, <2>2, <2>5
  <2> QED BY <2>1, <2>3, <2>4, <2>5 DEF Owned
<1>8. ASSUME NEW t \in Threads, Cancel(t) PROVE Owned'
    BY <1>8 DEF Cancel, Owned, Owns, OnDirectory, Return, Drained, Bound
<1>9. ASSUME NEW t \in Threads, StopWaits(t) PROVE Owned'
    BY <1>9 DEF StopWaits, Owned, Owns, OnDirectory, Return, Drained, Bound
<1>10. ASSUME NEW n \in Runs, Bind(n) PROVE Owned'
    BY <1>10 DEF Bind, Owned, Owns, OnDirectory
<1>11. ASSUME NEW n \in Runs, BootFails(n) PROVE Owned'
    BY <1>11 DEF BootFails, Owned, Owns, OnDirectory
<1>12. ASSUME NEW n \in Runs, Drain(n) PROVE Owned'
    BY <1>12 DEF Drain, Owned, Owns, OnDirectory
<1>13. ASSUME NEW n \in Runs, EndsItself(n) PROVE Owned'
    BY <1>13 DEF EndsItself, Owned, Owns, OnDirectory
<1>14. ASSUME NEW n \in Runs, Cleared(n) PROVE Owned'
    BY <1>14 DEF Cleared, Owned, Owns, OnDirectory
<1>15. CASE UNCHANGED vars
    BY <1>15 DEF vars, Owned, Owns
<1> QED BY <1>1, <1>2, <1>3, <1>4, <1>5, <1>6, <1>7, <1>8, <1>9, <1>10, <1>11, <1>12, <1>13,
           <1>14, <1>15 DEF Next, ThreadStep, RunStep


(* Handles and drain channels name runs that came up.                       *)
LEMMA BoundStep ==
    ASSUME EmbeddedConstants, TypeOK, OneCall, Owned, Bound, [Next]_vars PROVE Bound'
<1>0. /\ MaxRuns \in Nat /\ 0 \in 0 .. MaxRuns /\ Runs \subseteq 0 .. MaxRuns
      /\ {"idle", "drain", "boot", "cancel", "cancelNow", "wait"} \subseteq Places
      /\ handle \in 0 .. MaxRuns /\ stopping \in 0 .. MaxRuns
      /\ mine \in [Threads -> 0 .. MaxRuns]
    BY Ranges DEF TypeOK
<1>a. /\ run \in [Runs -> {"none", "booting", "serving", "draining", "done"}]
      /\ bound \subseteq Runs /\ watchers \subseteq Runs /\ pc \in [Threads -> Places]
      /\ 0 \notin Runs
    BY Ranges DEF TypeOK
<1>b. \A n \in 0 .. MaxRuns : n # 0 => n \in Runs
    BY NonZero
<1> USE <1>0, <1>a, <1>b, GoesEffect DEF EmbeddedConstants, OneCall, Busy
<1>1. ASSUME NEW t \in Threads, StartCall(t) PROVE Bound'
    BY <1>1 DEF StartCall, Bound, Owned, Return
<1>2. ASSUME NEW t \in Threads, StopCall(t) PROVE Bound'
    BY <1>2 DEF StopCall, Bound, Owned, Return
<1>3. ASSUME NEW t \in Threads, StopNowCall(t) PROVE Bound'
    BY <1>3 DEF StopNowCall, Bound, Owned, Return
<1>4. ASSUME NEW t \in Threads, StartRefused(t) PROVE Bound'
    BY <1>4 DEF StartRefused, Bound, Owned, Return
<1>5. ASSUME NEW t \in Threads, StartBoots(t) PROVE Bound'
    BY <1>5 DEF StartBoots, Bound, Owned, Return
<1>6. ASSUME NEW t \in Threads, StartReady(t) PROVE Bound'
    BY <1>6 DEF StartReady, Bound, Owned, Return
<1>7. ASSUME NEW t \in Threads, StartFailed(t) PROVE Bound'
    BY <1>7 DEF StartFailed, Bound, Owned, Return
<1>8. ASSUME NEW t \in Threads, Cancel(t) PROVE Bound'
    BY <1>8 DEF Cancel, Bound, Owned, Return
<1>9. ASSUME NEW t \in Threads, StopWaits(t) PROVE Bound'
    BY <1>9 DEF StopWaits, Bound, Owned, Return
<1>10. ASSUME NEW n \in Runs, Bind(n) PROVE Bound'
    BY <1>10 DEF Bind, Bound
<1>11. ASSUME NEW n \in Runs, BootFails(n) PROVE Bound'
    BY <1>11 DEF BootFails, Bound
<1>12. ASSUME NEW n \in Runs, Drain(n) PROVE Bound'
    BY <1>12 DEF Drain, Bound
<1>13. ASSUME NEW n \in Runs, EndsItself(n) PROVE Bound'
    BY <1>13 DEF EndsItself, Bound
<1>14. ASSUME NEW n \in Runs, Cleared(n) PROVE Bound'
    BY <1>14 DEF Cleared, Bound
<1>15. CASE UNCHANGED vars
    BY <1>15 DEF vars, Bound
<1> QED BY <1>1, <1>2, <1>3, <1>4, <1>5, <1>6, <1>7, <1>8, <1>9, <1>10, <1>11, <1>12, <1>13,
           <1>14, <1>15 DEF Next, ThreadStep, RunStep


(* The library starts with nothing running.                                 *)
LEMMA InitIInv == ASSUME EmbeddedConstants, Init PROVE IInv
<1>1. TypeOK
    BY Ranges DEF Init, TypeOK, Places
<1>2. OneCall /\ Owned /\ Bound
    BY DEF Init, OneCall, Busy, Owned, Bound, OnDirectory
<1> QED BY <1>1, <1>2 DEF IInv

(* Runs with one owner: two of them are one.                                *)
LEMMA AtMostOne == ASSUME EmbeddedConstants, IInv PROVE OneEngine
<1>1. ASSUME NEW m \in Holding, NEW n \in Holding PROVE m = n
  <2>1. /\ m \in Runs /\ n \in Runs /\ m # 0 /\ n # 0
        /\ run[m] \in OnDirectory /\ run[n] \in OnDirectory
        /\ run[m] # "done" /\ run[n] # "done"
    BY DEF Holding, OnDirectory, Runs
  <2>2. /\ handle = m \/ stopping = m \/ \E t \in Threads : Owns(t, m)
        /\ handle = n \/ stopping = n \/ \E t \in Threads : Owns(t, n)
    BY <2>1 DEF IInv, Owned
  <2>3. ASSUME NEW t \in Threads, NEW r, Owns(t, r), r \in {m, n}
        PROVE  handle = 0 /\ (stopping # 0 => run[stopping] = "done")
    BY <2>1, <2>3 DEF IInv, OneCall, Busy, Owned, Owns
  <2>4. ASSUME NEW t \in Threads, NEW u \in Threads, Owns(t, m), Owns(u, n) PROVE m = n
    BY <2>4 DEF IInv, OneCall, Busy, Owns
  <2>5. handle # 0 /\ stopping # 0 => run[stopping] = "done"
    BY DEF IInv, Owned
  <2> QED BY <2>1, <2>2, <2>3, <2>4, <2>5
<1>2. CASE Holding = {}
    BY <1>2, FS_EmptySet DEF OneEngine
<1>3. CASE \E n \in Holding : Holding = {n}
    BY <1>3, FS_Singleton DEF OneEngine
<1> QED BY <1>1, <1>2, <1>3

(* A run that serves and is no longer the handle's has a thread on it.      *)
LEMMA ServingIsReachable == ASSUME EmbeddedConstants, IInv PROVE Reachable
<1> SUFFICES ASSUME NEW n \in Runs, run[n] = "serving"
             PROVE  handle = n \/ \E t \in Threads : mine[t] = n /\ pc[t] # "drain"
    BY DEF Reachable
<1>1. n # 0 /\ run[n] \in OnDirectory
    BY DEF Runs, OnDirectory
<1>2. handle = n \/ stopping = n \/ \E t \in Threads : Owns(t, n)
    BY <1>1 DEF IInv, Owned
<1>3. CASE stopping = n
    BY <1>1, <1>3 DEF IInv, Bound
<1> QED BY <1>2, <1>3 DEF Owns

(* For any number of host threads and runs: as long as the host does not     *)
(* call Start and a graceful Stop at once, one engine serves the directory   *)
(* and the host can stop it, whenever hard stops come.                       *)
THEOREM OneStoppableEngine == ASSUME EmbeddedConstants PROVE Spec => []EmbeddedSafe
<1>1. Init => IInv
    BY InitIInv
<1>2. IInv /\ [Next]_vars => IInv'
    BY TypeStep, OneCallStep, OwnedStep, BoundStep DEF IInv
<1>3. IInv => EmbeddedSafe
    BY AtMostOne, ServingIsReachable DEF EmbeddedSafe, IInv
<1> QED BY <1>1, <1>2, <1>3, PTL DEF Spec

-----------------------------------------------------------------------------
(* The push sync.                                                           *)

(* What was read of a space's chats has each of them, and says of a muted   *)
(* one that it is.                                                          *)
Faithful(s, entries) ==
    /\ DOMAIN entries = ChatsOf(s)
    /\ \A c \in Muted \cap ChatsOf(s) : entries[c] = "none"

(* Topics that do not reach this account from a muted chat of the space.    *)
Silent(s, set) ==
    \A c \in Muted \cap ChatsOf(s) :
        set \cap {All, Me, TopicChat(c), TopicChatMention(c)} = {}

(* The inductive invariant: the cache and every space the round has done    *)
(* are faithful, so that a space is left out of the round rather than sent  *)
(* to the node with fewer overrides than it has, and the node is silent.    *)
PushIInv ==
    /\ PushTypeOK
    /\ \A c \in Muted : cmode[c] = "none"
    /\ \A s \in Spaces : cache[s] # Unknown => Faithful(s, cache[s])
    /\ \A s \in Spaces : DOMAIN chats[s] \subseteq Chats
    /\ at \in {"chats", "subscribe"} =>
         \A s \in (DOMAIN infos \ omit) \ todo : Faithful(s, chats[s])
    /\ at = "subscribe" => todo = {}
    /\ \A s \in Spaces : Silent(s, topics[s])

(* The topics of a chat are its own.                                        *)
LEMMA TopicsApart ==
    ASSUME NEW c, NEW d
    PROVE  /\ TopicChat(c) # All /\ TopicChat(c) # Me
           /\ TopicChatMention(c) # All /\ TopicChatMention(c) # Me
           /\ TopicChat(c) # TopicChatMention(d)
           /\ TopicChat(c) = TopicChat(d) => c = d
           /\ TopicChatMention(c) = TopicChatMention(d) => c = d
<1>1. Len(<<"chat", c>>) # Len(<<"chats">>) /\ Len(<<"mention", c>>) # Len(<<"chats">>)
  OBVIOUS
<1>2. Len(<<"chat", c>>) # Len(<<"me">>) /\ Len(<<"mention", c>>) # Len(<<"me">>)
  OBVIOUS
<1>3. /\ <<"chat", c>> # <<"mention", d>>
      /\ <<"chat", c>> = <<"chat", d>> => c = d
      /\ <<"mention", c>> = <<"mention", d>> => c = d
  OBVIOUS
<1> QED BY <1>1, <1>2, <1>3 DEF TopicChat, TopicChatMention, All, Me

(* A space's topics are topics.                                             *)
LEMMA TopicsTyped ==
    ASSUME NEW mode, NEW entries, DOMAIN entries \subseteq Chats
    PROVE  SpaceTopics(mode, entries) \subseteq Topics
BY DEF SpaceTopics, BulkTopics, Topics

(* With every override at hand no topic reaches this account from a muted   *)
(* chat.                                                                    *)
LEMMA MutedAreSilent ==
    ASSUME NEW s, NEW mode, NEW entries, Faithful(s, entries)
    PROVE  Silent(s, SpaceTopics(mode, entries))
<1> SUFFICES ASSUME NEW c \in Muted \cap ChatsOf(s)
             PROVE  SpaceTopics(mode, entries)
                        \cap {All, Me, TopicChat(c), TopicChatMention(c)} = {}
  BY DEF Silent
<1> DEFINE chatsIn(ms) == {d \in DOMAIN entries : Effective(mode, entries[d]) \in ms}
<1>1. c \in DOMAIN entries /\ entries[c] = "none" /\ "none" \in Modes
  BY DEF Faithful, Modes
<1>2. c \notin chatsIn({"all"}) /\ c \notin chatsIn({"all", "mentions"})
  BY <1>1 DEF Effective
<1>3. SpaceTopics(mode, entries) = {TopicChat(d) : d \in chatsIn({"all"})}
                                   \cup {TopicChatMention(d) : d \in chatsIn({"all", "mentions"})}
  BY <1>1 DEF SpaceTopics
<1> HIDE DEF chatsIn
<1> QED BY <1>2, <1>3, TopicsApart

(* What a round that has read every space replaces the node's topics with.  *)
LEMMA SubsAreSilent ==
    ASSUME PushIInv, at = "subscribe"
    PROVE  /\ Subs(Kept, chats) \in [Spaces -> SUBSET Topics]
           /\ \A s \in Spaces : Silent(s, Subs(Kept, chats)[s])
<1>1. DOMAIN Kept = DOMAIN infos \ omit
  BY DEF Kept
<1>2. ASSUME NEW s \in Spaces
      PROVE  Subs(Kept, chats)[s] \subseteq Topics /\ Silent(s, Subs(Kept, chats)[s])
  <2>1. CASE s \in DOMAIN Kept
    <3>1. Subs(Kept, chats)[s] = SpaceTopics(Kept[s], chats[s])
      BY <2>1 DEF Subs
    <3>2. Faithful(s, chats[s]) /\ DOMAIN chats[s] \subseteq Chats
      BY <1>1, <2>1 DEF PushIInv
    <3> QED BY <3>1, <3>2, TopicsTyped, MutedAreSilent
  <2>2. CASE s \notin DOMAIN Kept
    <3>1. Subs(Kept, chats)[s] = {}
      BY <2>2 DEF Subs
    <3> QED BY <3>1 DEF Silent
  <2> QED BY <2>1, <2>2
<1>3. Subs(Kept, chats) = [s \in Spaces |-> Subs(Kept, chats)[s]]
  BY DEF Subs
<1> QED BY <1>2, <1>3

(* The account's first round has not begun.                                 *)
LEMMA PushFirst == ASSUME PushInit PROVE PushIInv
<1>1. PushTypeOK
  BY PushAssumption DEF PushInit, PushTypeOK, NoChats
<1>2. \A s \in Spaces : cache[s] = Unknown /\ DOMAIN chats[s] = {} /\ topics[s] = {}
  BY DEF PushInit, NoChats
<1> QED BY <1>1, <1>2 DEF PushInit, PushIInv, Silent

(* What a step that is not the sync's own, or rests, leaves of the round.   *)
LEMMA RestKeeps ==
    ASSUME PushIInv, PushTypeOK', Rest, UNCHANGED <<spaceOf, cmode, topics>>,
           \A s \in Spaces : cache'[s] # Unknown => cache'[s] = cache[s]
    PROVE  PushIInv'
<1>1. \A s \in Spaces : DOMAIN chats'[s] = {}
  BY DEF Rest, NoChats
<1>2. at' = "wait"
  BY DEF Rest
<1> QED BY <1>1, <1>2 DEF PushIInv, Faithful, Silent, ChatsOf

(* A step keeps the types.                                                  *)
LEMMA PushTypes == ASSUME PushIInv, [PushNext]_push PROVE PushTypeOK'
<1> USE PushAssumption DEF PushTypeOK, inputs, round
<1>0. PushTypeOK
  BY DEF PushIInv
<1>1. ASSUME NEW s \in Spaces, NEW m \in Modes, SetSpaceMode(s, m) PROVE PushTypeOK'
  BY <1>0, <1>1 DEF SetSpaceMode, Changed
<1>2. ASSUME NEW s \in Spaces, ListSpace(s) PROVE PushTypeOK'
  BY <1>0, <1>2 DEF ListSpace, Changed
<1>3. ASSUME NEW c \in Chats, NEW m \in ChatModes, SetChatMode(c, m) PROVE PushTypeOK'
  BY <1>0, <1>3 DEF SetChatMode, Changed
<1>4. CASE Wake
  BY <1>0, <1>4 DEF Wake
<1>5. CASE List
  BY <1>0, <1>5 DEF List, Fault, Rest
<1>6. CASE Compare
  BY <1>0, <1>6 DEF Compare, Rest
<1>7. CASE SubscribeAll
  BY <1>0, <1>7, SubsAreSilent DEF SubscribeAll, Fault, Rest
<1>8. ASSUME NEW s \in Spaces, Enumerated(s) PROVE PushTypeOK'
  BY <1>0, <1>8 DEF Enumerated
<1>9. ASSUME NEW s \in Spaces, EnumerationFails(s) PROVE PushTypeOK'
  BY <1>0, <1>9 DEF EnumerationFails, Fault
<1>10. CASE UNCHANGED push
  BY <1>0, <1>10 DEF push
<1> QED BY <1>1, <1>2, <1>3, <1>4, <1>5, <1>6, <1>7, <1>8, <1>9, <1>10 DEF PushNext, SyncStep

(* A chat is read as it is.                                                 *)
LEMMA ReadIsFaithful ==
    ASSUME PushIInv, NEW s \in Spaces
    PROVE  Faithful(s, [c \in ChatsOf(s) |-> cmode[c]])
BY DEF PushIInv, Faithful, ChatsOf

(* Every step keeps the invariant.                                          *)
LEMMA PushStep == ASSUME PushIInv, [PushNext]_push PROVE PushIInv'
<1>0. PushTypeOK /\ PushTypeOK'
  BY PushTypes DEF PushIInv
<1>a. ASSUME UNCHANGED <<spaceOf, cache, infos, todo, chats, omit, topics, at>>,
             \A c \in Muted : cmode'[c] = "none"
      PROVE  PushIInv'
  BY <1>0, <1>a DEF PushIInv, Faithful, Silent, ChatsOf
<1>1. ASSUME NEW s \in Spaces, NEW m \in Modes, SetSpaceMode(s, m) PROVE PushIInv'
  BY <1>1, <1>a DEF SetSpaceMode, round, PushIInv
<1>2. ASSUME NEW s \in Spaces, ListSpace(s) PROVE PushIInv'
  BY <1>2, <1>a DEF ListSpace, round, PushIInv
<1>3. ASSUME NEW c \in Chats, NEW m \in ChatModes, SetChatMode(c, m) PROVE PushIInv'
  <2>1. \A d \in Muted : cmode'[d] = "none"
    BY <1>0, <1>3, PushAssumption DEF SetChatMode, PushIInv, PushTypeOK
  <2> QED BY <1>3, <1>a, <2>1 DEF SetChatMode, round
<1>4. CASE Wake
  <2>1. at' = "list" /\ UNCHANGED <<spaceOf, cmode, cache, infos, todo, chats, omit, topics>>
    BY <1>4 DEF Wake, inputs, round
  <2> QED BY <1>0, <2>1 DEF PushIInv, Faithful, Silent, ChatsOf
<1>5. CASE List
  <2>0. UNCHANGED <<spaceOf, cmode, cache, topics>>
    BY <1>5 DEF List, inputs
  <2>1. CASE Rest
    BY <1>0, <2>0, <2>1, RestKeeps
  <2>2. CASE /\ infos' = [s \in active |-> smode[s]] /\ todo' = active /\ at' = "chats"
             /\ UNCHANGED <<chats, omit>>
    <3>1. (DOMAIN infos' \ omit') \ todo' = {}
      BY <2>2
    <3> QED BY <1>0, <2>0, <2>2, <3>1 DEF PushIInv, Faithful, Silent, ChatsOf
  <2> QED BY <1>5, <2>1, <2>2 DEF List
<1>6. CASE Compare
  <2>0. /\ UNCHANGED <<spaceOf, cmode, topics>> /\ at = "chats" /\ todo = {}
        /\ \A s \in Spaces : cache'[s] # Unknown => cache'[s] = cache[s]
    BY <1>6 DEF Compare, inputs
  <2>1. CASE Rest
    BY <1>0, <2>0, <2>1, RestKeeps
  <2>2. CASE at' = "subscribe" /\ UNCHANGED <<infos, todo, chats, omit>>
    BY <1>0, <2>0, <2>2 DEF PushIInv, Faithful, Silent, ChatsOf
  <2> QED BY <1>6, <2>1, <2>2 DEF Compare, round
<1>7. CASE SubscribeAll
  <2>0. UNCHANGED <<spaceOf, cmode, cache>> /\ Rest /\ at = "subscribe"
    BY <1>7 DEF SubscribeAll, inputs
  <2>1. CASE UNCHANGED topics
    BY <1>0, <2>0, <2>1, RestKeeps
  <2>2. CASE topics' = Subs(Kept, chats)
    <3>1. \A s \in Spaces : Silent(s, topics'[s])
      BY <2>0, <2>2, SubsAreSilent
    <3>2. at' = "wait" /\ \A s \in Spaces : DOMAIN chats'[s] = {}
      BY <2>0 DEF Rest, NoChats
    <3> QED BY <1>0, <2>0, <3>1, <3>2 DEF PushIInv, Faithful, Silent, ChatsOf
  <2> QED BY <1>7, <2>1, <2>2 DEF SubscribeAll
<1>8. ASSUME NEW s \in Spaces, Enumerated(s) PROVE PushIInv'
  <2> DEFINE entries == [c \in ChatsOf(s) |-> cmode[c]]
  <2>0. /\ at = "chats" /\ todo' = todo \ {s} /\ chats' = [chats EXCEPT ![s] = entries]
        /\ cache' = [cache EXCEPT ![s] = entries]
        /\ UNCHANGED <<spaceOf, cmode, at, infos, omit, topics>>
    BY <1>8 DEF Enumerated, inputs
  <2>1. Faithful(s, entries) /\ DOMAIN entries \subseteq Chats
    BY ReadIsFaithful DEF ChatsOf
  <2> HIDE DEF entries
  <2>2. /\ chats'[s] = entries /\ cache'[s] = entries
        /\ \A r \in Spaces \ {s} : chats'[r] = chats[r] /\ cache'[r] = cache[r]
    BY <1>0, <2>0 DEF PushTypeOK
  <2>3. ASSUME NEW r \in (DOMAIN infos \ omit) \ todo' PROVE Faithful(r, chats'[r])
    BY <1>0, <2>0, <2>1, <2>2, <2>3 DEF PushIInv, PushTypeOK
  <2>4. ASSUME NEW r \in Spaces, cache'[r] # Unknown PROVE Faithful(r, cache'[r])
    BY <2>1, <2>2, <2>4 DEF PushIInv
  <2>5. ASSUME NEW r \in Spaces PROVE DOMAIN chats'[r] \subseteq Chats
    BY <2>1, <2>2, <2>5 DEF PushIInv
  <2> QED BY <1>0, <2>0, <2>3, <2>4, <2>5 DEF PushIInv, Faithful, Silent, ChatsOf
<1>9. ASSUME NEW s \in Spaces, EnumerationFails(s) PROVE PushIInv'
  <2>0. /\ at = "chats" /\ todo' = todo \ {s}
        /\ UNCHANGED <<spaceOf, cmode, at, infos, cache, topics>>
    BY <1>9 DEF EnumerationFails, inputs
  <2>1. CASE cache[s] # Unknown /\ chats' = [chats EXCEPT ![s] = cache[s]] /\ UNCHANGED omit
    <3>1. Faithful(s, cache[s]) /\ DOMAIN cache[s] \subseteq Chats
      BY <2>1 DEF PushIInv, Faithful, ChatsOf
    <3>2. chats'[s] = cache[s] /\ \A r \in Spaces \ {s} : chats'[r] = chats[r]
      BY <1>0, <2>1 DEF PushTypeOK
    <3>3. ASSUME NEW r \in (DOMAIN infos \ omit) \ todo' PROVE Faithful(r, chats'[r])
      BY <1>0, <2>0, <3>1, <3>2, <3>3 DEF PushIInv, PushTypeOK
    <3>4. ASSUME NEW r \in Spaces PROVE DOMAIN chats'[r] \subseteq Chats
      BY <3>1, <3>2, <3>4 DEF PushIInv
    <3> QED BY <1>0, <2>0, <2>1, <3>3, <3>4 DEF PushIInv, Faithful, Silent, ChatsOf
  <2>2. CASE omit' = omit \cup {s} /\ UNCHANGED chats
    <3>1. (DOMAIN infos \ omit') \ todo' \subseteq (DOMAIN infos \ omit) \ todo
      BY <2>0, <2>2
    <3> QED BY <1>0, <2>0, <2>2, <3>1 DEF PushIInv, Faithful, Silent, ChatsOf
  <2> QED BY <1>9, <2>1, <2>2 DEF EnumerationFails
<1>10. CASE UNCHANGED push
  BY <1>10, <1>a DEF push, inputs, round, PushIInv
<1> QED BY <1>1, <1>2, <1>3, <1>4, <1>5, <1>6, <1>7, <1>8, <1>9, <1>10 DEF PushNext, SyncStep

(* For any spaces, chats, changes and failures: no message reaches this     *)
(* account from a muted chat.                                               *)
LEMMA MutedIsHeard == ASSUME PushIInv PROVE PushTypeOK /\ MutedStaysMuted
<1>1. ASSUME NEW c \in Muted, NEW m \in BOOLEAN
      PROVE  ~Reaches(c, SendTopics(c, m)) /\ ~Reaches(c, EditTopics(c))
  <2>1. spaceOf[c] \in Spaces /\ c \in ChatsOf(spaceOf[c])
    BY PushAssumption DEF PushIInv, PushTypeOK, ChatsOf
  <2>2. topics[spaceOf[c]] \cap {All, Me, TopicChat(c), TopicChatMention(c)} = {}
    BY <2>1 DEF PushIInv, Silent
  <2>3. SendTopics(c, m) \cup EditTopics(c) \subseteq {All, Me, TopicChat(c), TopicChatMention(c)}
    BY DEF SendTopics, EditTopics
  <2> QED BY <2>2, <2>3 DEF Reaches
<1> QED BY <1>1 DEF PushIInv, MutedStaysMuted

LEMMA MutedIsSilent == PushSpec => [](PushTypeOK /\ MutedStaysMuted)
BY PushFirst, PushStep, MutedIsHeard, PTL DEF PushSpec

-----------------------------------------------------------------------------
(* The push token.                                                          *)

(* The inductive invariant: a forward that is out carries the token that is *)
(* stored or one that never comes back, and one that has landed with the    *)
(* stored token made it current.                                            *)
TokenIInv ==
    /\ TokenTypeOK
    /\ forwarded => current
    /\ \A a \in Actors : doing[a] = "forward" =>
         arg[a] \in Tokens /\ (arg[a] = token \/ arg[a] \in retired)
    /\ \A a \in landed : doing[a] = "forward" /\ (arg[a] = token => current)
    /\ doing[Host] \in {"save", "store"} => arg[Host] \in Tokens \ retired
    /\ ~configured => ~forwarded /\ landed = {}
    /\ doing[Host] \in {"rollback", "clear"} => ~configured

(* The server's first start.                                                *)
LEMMA TokenFirst == ASSUME TokenInit PROVE TokenIInv
<1>a. configured \in BOOLEAN /\ forwarded \in BOOLEAN /\ current \in BOOLEAN
  BY DEF TokenInit
<1>b. /\ doing = [a \in Actors |-> "idle"] /\ arg = [a \in Actors |-> None]
      /\ landed = {} /\ retired = {} /\ holds = None /\ token = file
      /\ file \in Tokens \cup {None}
  BY DEF TokenInit
<1>c. 0 \in 0 .. MaxCalls /\ 0 \in 0 .. MaxForwardFails /\ 0 \in 0 .. MaxStarts
  BY TokenAssumption
<1>1. TokenTypeOK
  BY <1>a, <1>b, <1>c DEF TokenInit, TokenTypeOK
<1> QED BY <1>1 DEF TokenInit, TokenIInv, Actors, Host, Sync

(* Storing a token keeps the types and retires the one it replaces.         *)
LEMMA StoredEffect ==
    ASSUME TokenTypeOK, NEW t \in Tokens \cup {None}, Stored(t)
    PROVE  /\ token' = t /\ retired \subseteq retired' /\ retired' \subseteq Tokens
           /\ token \in Tokens /\ token # t => token \in retired'
           /\ retired' \subseteq retired \cup ({token} \ {t})
           /\ current' \in BOOLEAN /\ (current' <=> current /\ t = token)
BY TokenAssumption DEF TokenTypeOK, Stored

(* Where the actors are and what they carry.                                *)
LEMMA TokenTypes == ASSUME TokenTypeOK, [TokenNext]_pushToken PROVE TokenTypeOK'
<1> USE TokenAssumption DEF TokenTypeOK, Goto, bounds, local, Actors, Host, Sync
<1>1. ASSUME NEW t \in Tokens, Set(t) PROVE TokenTypeOK'
  BY <1>1 DEF Set, Call
<1>2. CASE Save
  BY <1>2 DEF Save
<1>3. CASE Store
  BY <1>3, StoredEffect DEF Store
<1>4. CASE EnsureToken
  BY <1>4 DEF EnsureToken
<1>5. ASSUME NEW a \in Actors, Land(a) PROVE TokenTypeOK'
  BY <1>5 DEF Land
<1>6. ASSUME NEW a \in Actors, Forwarded(a) PROVE TokenTypeOK'
  BY <1>6 DEF Forwarded, MarkForwarded
<1>7. ASSUME NEW a \in Actors, ForwardFails(a) PROVE TokenTypeOK'
  BY <1>7 DEF ForwardFails
<1>8. ASSUME NEW a \in Actors, NotConfigured(a) PROVE TokenTypeOK'
  BY <1>8 DEF NotConfigured
<1>9. CASE Rollback
  BY <1>9 DEF Rollback
<1>10. CASE RollbackClear
  BY <1>10, StoredEffect DEF RollbackClear
<1>11. CASE Revoke
  BY <1>11 DEF Revoke, Call
<1>12. CASE RevokeForward
  BY <1>12 DEF RevokeForward
<1>13. CASE RevokeRemove
  BY <1>13 DEF RevokeRemove
<1>14. CASE RevokeClear
  BY <1>14, StoredEffect DEF RevokeClear
<1>15. CASE Restart
  <2>1. /\ doing' = [a \in Actors |-> "idle"] /\ arg' = [a \in Actors |-> None] /\ landed' = {}
        /\ forwarded' = FALSE /\ starts' \in 0 .. MaxStarts
        /\ UNCHANGED <<configured, file, holds, asking, failing>>
    BY <1>15 DEF Restart
  <2>2. token' = file /\ retired' \subseteq Tokens /\ current' \in BOOLEAN
    BY <1>15, StoredEffect DEF Restart
  <2>3. doing' \in [Actors -> {"idle"}] /\ arg' \in [Actors -> {None}]
    BY <2>1
  <2> QED BY <2>1, <2>2, <2>3
<1>16. CASE UNCHANGED pushToken
  BY <1>16 DEF pushToken
<1> QED BY <1>1, <1>2, <1>3, <1>4, <1>5, <1>6, <1>7, <1>8, <1>9, <1>10, <1>11, <1>12, <1>13,
          <1>14, <1>15, <1>16 DEF TokenNext, HostStep, ForwardStep

(* Every step keeps the invariant.                                          *)
LEMMA TokenStep == ASSUME TokenIInv, [TokenNext]_pushToken PROVE TokenIInv'
<1>0. TokenTypeOK /\ TokenTypeOK'
  BY TokenTypes DEF TokenIInv
<1> USE TokenAssumption DEF TokenTypeOK, TokenIInv, Goto, bounds, local, Actors, Host, Sync
<1>1. ASSUME NEW t \in Tokens, Set(t) PROVE TokenIInv'
  BY <1>0, <1>1 DEF Set, Call
<1>2. CASE Save
  BY <1>0, <1>2 DEF Save
<1>3. CASE Store
  BY <1>0, <1>3, StoredEffect DEF Store
<1>4. CASE EnsureToken
  BY <1>0, <1>4 DEF EnsureToken
<1>5. ASSUME NEW a \in Actors, Land(a) PROVE TokenIInv'
  BY <1>0, <1>5 DEF Land
<1>6. ASSUME NEW a \in Actors, Forwarded(a) PROVE TokenIInv'
  BY <1>0, <1>6 DEF Forwarded, MarkForwarded
<1>7. ASSUME NEW a \in Actors, ForwardFails(a) PROVE TokenIInv'
  BY <1>0, <1>7 DEF ForwardFails
<1>8. ASSUME NEW a \in Actors, NotConfigured(a) PROVE TokenIInv'
  BY <1>0, <1>8 DEF NotConfigured
<1>9. CASE Rollback
  BY <1>0, <1>9 DEF Rollback
<1>10. CASE RollbackClear
  BY <1>0, <1>10, StoredEffect DEF RollbackClear
<1>11. CASE Revoke
  BY <1>0, <1>11 DEF Revoke, Call
<1>12. CASE RevokeForward
  BY <1>0, <1>12 DEF RevokeForward
<1>13. CASE RevokeRemove
  BY <1>0, <1>13 DEF RevokeRemove
<1>14. CASE RevokeClear
  BY <1>0, <1>14, StoredEffect DEF RevokeClear
<1>15. CASE Restart
  BY <1>0, <1>15, StoredEffect DEF Restart
<1>16. CASE UNCHANGED pushToken
  BY <1>0, <1>16 DEF pushToken
<1> QED BY <1>1, <1>2, <1>3, <1>4, <1>5, <1>6, <1>7, <1>8, <1>9, <1>10, <1>11, <1>12, <1>13,
          <1>14, <1>15, <1>16 DEF TokenNext, HostStep, ForwardStep

(* For any tokens, calls, failures and restarts: a token counts as          *)
(* forwarded only when the node took that very token.                       *)
LEMMA TokenIsHonest == TokenSpec => [](TokenTypeOK /\ ForwardedHonest)
<1>1. TokenIInv => TokenTypeOK /\ ForwardedHonest
  BY DEF TokenIInv, ForwardedHonest
<1> QED BY <1>1, TokenFirst, TokenStep, PTL DEF TokenSpec

-----------------------------------------------------------------------------
(* The status stream.                                                       *)

(* The pump is in its loop; the status it has taken and not written yet.    *)
Looping == pump \in {"select", "emit", "write"}
InHand == IF pump \in {"emit", "write"} THEN 1 ELSE 0

(* The inductive invariant: the lock is held by whoever writes, the fence   *)
(* is up once the handler is gone, and while the pump loops every status is *)
(* written, in hand, in the channel or dropped, none of the first three     *)
(* ahead of its place by more than was dropped.                             *)
Locked ==
    /\ keep = "write" <=> mu = "keep"
    /\ keep = "write" => ~done
    /\ pump \in {"write", "close"} <=> mu = "pump"
    /\ done <=> pump = "gone"
    /\ subscribed <=> pump # "gone"
Counted ==
    /\ dropped <= live
    /\ Looping =>
         /\ sent + InHand + Len(buf) + dropped = live
         /\ \A i \in 1 .. Len(buf) : buf[i] <= live /\ buf[i] - (sent + InHand + i) <= dropped
    /\ InHand = 1 => taken - (sent + 1) <= dropped
    /\ pump = "write" => taken - (sent + 1) <= lastDropped
    /\ last - sent <= lastDropped
    /\ pump \in {"select", "write"} /\ buf = <<>> => lastDropped = dropped
StreamIInv == StreamTypeOK /\ Locked /\ Counted

(* The handler's first state.                                               *)
LEMMA StreamFirst == ASSUME StreamInit PROVE StreamIInv
<1> USE StreamAssumption DEF StreamInit
<1>1. <<>> \in Seq(1 .. MaxFlips) /\ Len(<<>>) = 0
  OBVIOUS
<1>a. buf \in Seq(1 .. MaxFlips) /\ Len(buf) = 0
  BY <1>1
<1>b. Len(buf) <= Buffer /\ 0 \in 0 .. MaxFlips
  BY <1>a
<1>c. /\ live \in 0 .. MaxFlips /\ dropped \in 0 .. MaxFlips /\ lastDropped \in 0 .. dropped
      /\ taken \in 0 .. live /\ last \in 0 .. live /\ sent \in 0 .. live
  BY <1>b
<1>d. subscribed \in BOOLEAN /\ done \in BOOLEAN
  OBVIOUS
<1>2. StreamTypeOK
  BY <1>a, <1>b, <1>c, <1>d, Zenon DEF StreamTypeOK
<1>3. Locked
  BY DEF Locked
<1>4. Counted
  BY <1>1 DEF Counted, Looping, InHand
<1> QED BY <1>2, <1>3, <1>4 DEF StreamIInv

(* The lock.                                                                *)
LEMMA LockedStep == ASSUME StreamTypeOK, Locked, [StreamNext]_stream PROVE Locked'
<1>1. CASE Flip \/ Ends
  BY <1>1 DEF Flip, Ends, Locked
<1>2. CASE Take \/ Leave
  BY <1>2 DEF Take, Leave, Locked
<1>3. CASE Emit
  BY <1>3 DEF Emit, Locked
<1>4. CASE EmitWrite
  BY <1>4 DEF EmitWrite, Locked
<1>5. CASE Closed \/ ClosedWritten
  BY <1>5 DEF Closed, ClosedWritten, Locked
<1>6. CASE StreamReturn
  BY <1>6 DEF StreamReturn, Locked
<1>7. CASE Tick \/ TickExit
  BY <1>7 DEF Tick, TickExit, Locked
<1>8. CASE TickLock
  BY <1>8 DEF TickLock, Locked
<1>9. CASE TickWrite
  BY <1>9 DEF TickWrite, Locked
<1>10. CASE UNCHANGED stream
  BY <1>10 DEF stream, Locked
<1> QED BY <1>1, <1>2, <1>3, <1>4, <1>5, <1>6, <1>7, <1>8, <1>9, <1>10 DEF StreamNext

(* The fields that only move from one named place to another.               *)
PlacesOK == /\ subscribed \in BOOLEAN /\ done \in BOOLEAN
            /\ pump \in {"select", "emit", "write", "closing", "close", "return", "gone"}
            /\ keep \in {"wait", "tick", "write", "off"}
            /\ mu \in {"free", "pump", "keep"}
            /\ ctx \in {"open", "gone", "shutdown"}
LEMMA PlacesStep == ASSUME StreamTypeOK, [StreamNext]_stream PROVE PlacesOK'
<1> USE DEF StreamTypeOK, PlacesOK
<1>1. CASE Flip \/ Ends
  BY <1>1 DEF Flip, Ends
<1>2. CASE Take \/ Leave
  BY <1>2 DEF Take, Leave
<1>3. CASE Emit \/ EmitWrite
  BY <1>3 DEF Emit, EmitWrite
<1>4. CASE Closed \/ ClosedWritten
  BY <1>4 DEF Closed, ClosedWritten
<1>5. CASE StreamReturn
  BY <1>5 DEF StreamReturn
<1>6. CASE Tick \/ TickExit
  BY <1>6 DEF Tick, TickExit
<1>7. CASE TickLock \/ TickWrite
  BY <1>7 DEF TickLock, TickWrite
<1>8. CASE UNCHANGED stream
  BY <1>8 DEF stream
<1> QED BY <1>1, <1>2, <1>3, <1>4, <1>5, <1>6, <1>7, <1>8 DEF StreamNext

(* The numbers, without the places.                                         *)
NumbersOK == /\ live \in 0 .. MaxFlips /\ dropped \in 0 .. MaxFlips
             /\ lastDropped \in 0 .. dropped
             /\ buf \in Seq(1 .. MaxFlips) /\ Len(buf) <= Buffer
             /\ taken \in 0 .. live /\ last \in 0 .. live /\ sent \in 0 .. live

(* A step that moves no status keeps the count, if the pump stays where it  *)
(* is or leaves its loop.                                                   *)
LEMMA CountKept ==
    ASSUME StreamIInv, UNCHANGED <<live, buf, dropped, lastDropped, taken, last, sent>>,
           pump' = pump \/ pump' \notin {"select", "emit", "write"}
    PROVE  NumbersOK' /\ Counted'
BY DEF StreamIInv, StreamTypeOK, NumbersOK, Counted, Looping, InHand

(* The SDK's callback.                                                      *)
LEMMA FlipCounts == ASSUME StreamIInv, Flip PROVE NumbersOK' /\ Counted'
<1>0. /\ live \in Nat /\ dropped \in Nat /\ lastDropped \in Nat /\ sent \in Nat /\ last \in Nat
      /\ taken \in Nat /\ Len(buf) \in Nat /\ buf \in Seq(1 .. MaxFlips) /\ live < MaxFlips
      /\ MaxFlips \in Nat /\ Buffer \in Nat /\ Buffer # 0
      /\ live' = live + 1 /\ UNCHANGED <<lastDropped, taken, last, sent, pump>>
  BY StreamAssumption, LenProperties DEF StreamIInv, StreamTypeOK, Flip
<1>a. /\ live <= MaxFlips /\ dropped <= live /\ lastDropped <= dropped /\ taken <= live
      /\ last <= live /\ sent <= live /\ Len(buf) <= Buffer
      /\ Looping => subscribed = TRUE
  BY <1>0 DEF StreamIInv, StreamTypeOK, Locked, Counted, Looping
<1>b. Looping' = Looping /\ InHand' = InHand
  BY <1>0 DEF Looping, InHand
<1>1. CASE buf' = Append(buf, live') /\ Len(buf) < Buffer /\ UNCHANGED dropped
  <2>1. /\ Len(buf') = Len(buf) + 1 /\ buf' \in Seq(1 .. MaxFlips) /\ buf' # <<>>
        /\ buf'[Len(buf) + 1] = live' /\ \A i \in 1 .. Len(buf) : buf'[i] = buf[i]
    <3>1. live' \in 1 .. MaxFlips
      BY <1>0
    <3> QED BY <1>0, <1>1, <3>1, AppendProperties
  <2>2. NumbersOK'
    BY <1>0, <1>a, <1>1, <2>1 DEF NumbersOK
  <2>3. ASSUME Looping
        PROVE  /\ sent + InHand + Len(buf') + dropped = live'
               /\ \A i \in 1 .. Len(buf') : buf'[i] <= live' /\ buf'[i] - (sent + InHand + i) <= dropped
    <3>1. /\ sent + InHand + Len(buf) + dropped = live /\ InHand \in Nat
          /\ \A i \in 1 .. Len(buf) : /\ buf[i] <= live /\ buf[i] \in Nat
                                      /\ buf[i] - (sent + InHand + i) <= dropped
      BY <1>0, <2>3 DEF StreamIInv, Counted, InHand
    <3>2. live' - (sent + InHand + Len(buf')) = dropped /\ sent + InHand + Len(buf') + dropped = live'
      <4>1. /\ sent \in Nat /\ InHand \in Nat /\ Len(buf) \in Nat /\ dropped \in Nat
            /\ live \in Nat
            /\ sent + InHand + Len(buf) + dropped = live /\ Len(buf') = Len(buf) + 1
            /\ live' = live + 1
        BY <1>0, <2>1, <3>1
      <4>2. ASSUME NEW s \in Nat, NEW h \in Nat, NEW b \in Nat, NEW d \in Nat, NEW l \in Nat,
                   s + h + b + d = l
            PROVE  l + 1 - (s + h + (b + 1)) = d /\ s + h + (b + 1) + d = l + 1
        BY <4>2
      <4> QED BY <4>1, <4>2
    <3>3. ASSUME NEW i \in 1 .. Len(buf')
          PROVE  buf'[i] <= live' /\ buf'[i] - (sent + InHand + i) <= dropped
      <4>1. CASE i = Len(buf')
        BY <1>0, <2>1, <3>2, <4>1
      <4>2. CASE i # Len(buf')
        <5>1. i \in 1 .. Len(buf) /\ buf'[i] = buf[i]
          BY <1>0, <2>1, <4>2
        <5> QED BY <1>0, <3>1, <5>1
      <4> QED BY <4>1, <4>2
    <3> QED BY <3>2, <3>3
  <2> QED BY <1>0, <1>a, <1>b, <1>1, <2>1, <2>2, <2>3 DEF StreamIInv, Counted
<1>2. CASE UNCHANGED buf /\ dropped' = dropped + 1 /\ ~(subscribed /\ Len(buf) < Buffer)
           /\ subscribed
  <2>1. buf # <<>> /\ Len(buf) # 0
    BY <1>0, <1>a, <1>2
  <2>2. NumbersOK'
    BY <1>0, <1>a, <1>2 DEF NumbersOK, StreamIInv, StreamTypeOK
  <2>3. ASSUME Looping
        PROVE  /\ sent + InHand + Len(buf) + dropped' = live'
               /\ \A i \in 1 .. Len(buf) : buf[i] <= live' /\ buf[i] - (sent + InHand + i) <= dropped'
    <3>1. /\ sent + InHand + Len(buf) + dropped = live /\ InHand \in Nat
          /\ \A i \in 1 .. Len(buf) : /\ buf[i] <= live /\ buf[i] \in Nat
                                      /\ buf[i] - (sent + InHand + i) <= dropped
      BY <1>0, <2>3 DEF StreamIInv, Counted, InHand
    <3> QED BY <1>0, <1>2, <3>1
  <2> QED BY <1>0, <1>a, <1>b, <1>2, <2>1, <2>2, <2>3 DEF StreamIInv, Counted
<1>3. CASE UNCHANGED <<buf, dropped>> /\ ~subscribed
  <2>1. ~Looping /\ NumbersOK'
    BY <1>0, <1>a, <1>3 DEF NumbersOK, StreamIInv, StreamTypeOK
  <2>2. pump \notin {"select", "emit", "write"}
    BY <2>1 DEF Looping
  <2> QED BY <1>0, <1>a, <1>b, <1>3, <2>1, <2>2 DEF StreamIInv, Counted, InHand
<1> QED BY <1>1, <1>2, <1>3 DEF Flip

(* The pump takes a status.                                                 *)
LEMMA TakeCounts == ASSUME StreamIInv, Take PROVE NumbersOK' /\ Counted'
<1>0. /\ live \in Nat /\ dropped \in Nat /\ lastDropped \in Nat /\ sent \in Nat /\ last \in Nat
      /\ Len(buf) \in Nat /\ buf \in Seq(1 .. MaxFlips) /\ MaxFlips \in Nat /\ Buffer \in Nat
      /\ buf # <<>> /\ pump = "select" /\ taken' = Head(buf) /\ buf' = Tail(buf) /\ pump' = "emit"
      /\ UNCHANGED <<live, dropped, lastDropped, last, sent>>
  BY StreamAssumption, LenProperties DEF StreamIInv, StreamTypeOK, Take
<1>1. /\ Len(buf') = Len(buf) - 1 /\ buf' \in Seq(1 .. MaxFlips) /\ taken' = buf[1]
      /\ Len(buf) # 0
      /\ taken' \in 1 .. MaxFlips /\ \A i \in 1 .. Len(buf') : buf'[i] = buf[i + 1]
  BY <1>0, HeadTailProperties
<1>2. /\ Looping /\ Looping' /\ InHand = 0 /\ InHand' = 1
  BY <1>0 DEF Looping, InHand
<1>3. /\ sent + Len(buf) + dropped = live
      /\ \A i \in 1 .. Len(buf) : /\ buf[i] <= live /\ buf[i] \in Nat
                                  /\ buf[i] - (sent + i) <= dropped
  BY <1>0, <1>2 DEF StreamIInv, Counted
<1>4. taken' <= live /\ taken' - (sent + 1) <= dropped
  BY <1>0, <1>1, <1>3
<1>5. NumbersOK'
  BY <1>0, <1>1, <1>4 DEF StreamIInv, StreamTypeOK, NumbersOK
<1>6. \A i \in 1 .. Len(buf') : buf'[i] <= live /\ buf'[i] - (sent + 1 + i) <= dropped
  BY <1>0, <1>1, <1>3
<1> QED BY <1>0, <1>1, <1>2, <1>3, <1>4, <1>5, <1>6 DEF StreamIInv, Counted

(* The pump announces what was dropped.                                     *)
LEMMA EmitCounts == ASSUME StreamIInv, Emit PROVE NumbersOK' /\ Counted'
<1>1. /\ lastDropped' = dropped /\ pump = "emit" /\ pump' = "write"
      /\ UNCHANGED <<live, buf, dropped, taken, last, sent>>
  BY DEF Emit, Lag, StreamIInv, StreamTypeOK
<1>2. Looping /\ Looping' /\ InHand = 1 /\ InHand' = 1
  BY <1>1 DEF Looping, InHand
<1>3. NumbersOK'
  BY <1>1 DEF StreamIInv, StreamTypeOK, NumbersOK
<1> QED BY <1>1, <1>2, <1>3 DEF StreamIInv, StreamTypeOK, Counted

(* The pump writes the status.                                              *)
LEMMA WriteCounts == ASSUME StreamIInv, EmitWrite PROVE NumbersOK' /\ Counted'
<1>1. CASE pump' = "closing" /\ UNCHANGED <<last, sent>>
  BY <1>1, CountKept DEF EmitWrite
<1>2. CASE pump' = "select" /\ last' = taken /\ sent' = sent + 1
  <2>1. pump = "write" /\ UNCHANGED <<live, buf, dropped, lastDropped, taken>>
    BY DEF EmitWrite
  <2>2. Looping /\ Looping' /\ InHand = 1 /\ InHand' = 0
    BY <1>2, <2>1 DEF Looping, InHand
  <2>3. sent + 1 + Len(buf) + dropped = live /\ Len(buf) \in Nat /\ dropped \in Nat /\ sent \in Nat
    BY <2>2, LenProperties DEF StreamIInv, StreamTypeOK, Counted
  <2>4. NumbersOK'
    BY <1>2, <2>1, <2>3 DEF StreamIInv, StreamTypeOK, NumbersOK
  <2> QED BY <1>2, <2>1, <2>2, <2>3, <2>4 DEF StreamIInv, StreamTypeOK, Counted
<1> QED BY <1>1, <1>2 DEF EmitWrite

(* Every step keeps the invariant.                                          *)
LEMMA StreamStep == ASSUME StreamIInv, [StreamNext]_stream PROVE StreamIInv'
<1>1. NumbersOK' /\ Counted'
  <2>1. CASE Flip
    BY <2>1, FlipCounts
  <2>2. CASE Take
    BY <2>2, TakeCounts
  <2>3. CASE Emit
    BY <2>3, EmitCounts
  <2>4. CASE EmitWrite
    BY <2>4, WriteCounts
  <2>5. CASE Ends \/ Leave
    BY <2>5, CountKept DEF Ends, Leave
  <2>6. CASE Closed \/ ClosedWritten
    BY <2>6, CountKept DEF Closed, ClosedWritten
  <2>7. CASE StreamReturn
    BY <2>7, CountKept DEF StreamReturn
  <2>8. CASE Tick \/ TickExit
    BY <2>8, CountKept DEF Tick, TickExit
  <2>9. CASE TickLock \/ TickWrite
    BY <2>9, CountKept DEF TickLock, TickWrite
  <2>10. CASE UNCHANGED stream
    BY <2>10, CountKept DEF stream
  <2> QED BY <2>1, <2>2, <2>3, <2>4, <2>5, <2>6, <2>7, <2>8, <2>9, <2>10 DEF StreamNext
<1>2. Locked' /\ PlacesOK'
  BY LockedStep, PlacesStep DEF StreamIInv
<1> QED BY <1>1, <1>2 DEF StreamIInv, StreamTypeOK, NumbersOK, PlacesOK

(* For any channel and any number of statuses: no keepalive after the       *)
(* handler is gone, and every dropped status announced.                     *)
LEMMA StreamIsSound == StreamSpec => [](StreamTypeOK /\ StreamSound)
<1>1. StreamIInv => StreamTypeOK /\ StreamSound
  BY DEF StreamIInv, Locked, Counted, StreamSound, KeepaliveFenced, DropsTold
<1> QED BY <1>1, StreamFirst, StreamStep, PTL DEF StreamSpec

-----------------------------------------------------------------------------
(* For any spaces, chats, tokens, channel and failures: no message reaches  *)
(* this account from a muted chat, a token counts as forwarded only when    *)
(* the node took that very token, no keepalive is written after its handler *)
(* left, and every dropped status is announced.                             *)
THEOREM SyncsAreHonest == PushSpec /\ TokenSpec /\ StreamSpec => []SyncsHonest
<1>1. /\ PushTypeOK /\ MutedStaysMuted
      /\ TokenTypeOK /\ ForwardedHonest
      /\ StreamTypeOK /\ StreamSound
      => SyncsHonest
  BY DEF SyncsHonest
<1> QED BY <1>1, MutedIsSilent, TokenIsHonest, StreamIsSound, PTL
=============================================================================

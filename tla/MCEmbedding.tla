---------------------------- MODULE MCEmbedding ----------------------------
(* Instances of ModelDownload and EmbedWorker for TLC, explored one at a    *)
(* time: the download of a model with a pinned hash, by one engine after    *)
(* another and by two at once; document frames and queries, with faults and *)
(* a change of the thread count; a Close among them; and documents against  *)
(* queries that keep coming.                                                *)
EXTENDS ModelDownload, EmbedWorker, TLC

CONSTANTS
    Systems,  \* those explored
    q1, p1

VARIABLES on  \* the system explored

Closed == INSTANCE EmbedWorker WITH Frames <- 1, MaxThreads <- 0, MayClose <- TRUE
Busy == INSTANCE EmbedWorker WITH Frames <- 1, MaxThreads <- 0, MayFail <- FALSE

MCInit == on \in Systems /\ DownloadInit /\ Init

(* Process ids are interchangeable: the first is used while it is free.     *)
FirstFree == p1 \in alive \/ alive' \ alive \subseteq {p1}

OneQuery == \A q \in Queries \ {q1} : pc'[q] = "idle"

(* Bounds: the engines of "download" follow each other; "shared" has two,   *)
(* and one of them may be left to the janitor.                              *)
OneAfterAnother == abandoned = {}
TwoEngines == gen <= 2 /\ faults <= 1

MCNext ==
    /\ UNCHANGED on
    /\ \/ on = "download" /\ DownloadNext /\ OneAfterAnother' /\ UNCHANGED vars
       \/ on = "shared" /\ DownloadNext /\ TwoEngines' /\ UNCHANGED vars
       \/ on = "frames" /\ Next /\ FirstFree /\ OneQuery /\ UNCHANGED download
       \/ on = "closing" /\ Closed!Next /\ FirstFree /\ OneQuery /\ UNCHANGED download
       \/ on = "busy" /\ Busy!Next /\ FirstFree /\ UNCHANGED download

(* The components' Fairness, for the systems whose liveness is checked.     *)
MCSpec ==
    /\ MCInit /\ [][MCNext]_<<on, vars, download>>
    /\ \A g \in Gens : WF_download(on = "download" /\ Download(g))
    /\ \A a \in Actors :
        /\ WF_vars(on = "closing" /\ Closed!ActorStep(a))
        /\ WF_vars(on = "busy" /\ Busy!ActorStep(a))
    /\ \A p \in Procs :
        /\ WF_vars(on = "closing" /\ Closed!Answer(p))
        /\ WF_vars(on = "busy" /\ Busy!Answer(p))
    /\ WF_vars(on = "closing" /\ Closed!CloserStep)

(* Once the faults are over an engine that stays up gets its model, a Close *)
(* returns, and a waiting doc frame runs though queries keep coming (see    *)
(* ModelDownload and EmbedWorker).                                          *)
EmbedderSettles ==
    /\ on = "download" => Installs
    /\ on = "closing" => CloseReturns
    /\ on = "busy" => DocsNotStarved
=============================================================================

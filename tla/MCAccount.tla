----------------------------- MODULE MCAccount -----------------------------
(* Instances of an account's directory and of what it keeps there, explored *)
(* one at a time: two servers and a probe over one account directory; one   *)
(* server whose boots fail at any step; PUTs of the local-discovery         *)
(* statement around engines that come and go; the space list of two         *)
(* devices; the bundles two devices of a space install and the catalog of   *)
(* three usecases they set up; a search over six chunks of three objects;   *)
(* the index database across boots, its link table, and the references the  *)
(* links are read from; the configuration a server is booted with.  A       *)
(* system that is not explored keeps its first state.                       *)
EXTENDS AccountDir, LocalDiscovery, Spaces, Bundles, Config, TLC

CONSTANTS
    Systems,  \* those explored
    p1

VARIABLES
    on,                                                            \* the system explored
    cat, compiled, have, gone, published, setup, groups, blind,    \* Catalog
    setups, uninstalls,
    req, lexical, nearest, scores, adaptive, match, ever, moved,   \* Search
    hs, leg, tier, titles, vec, budgetOut, page, truncated, stage,
    db, proc, build, mem, op, lock, tx, rewrites, boots, upserts,  \* IndexStore
    rec, member, rowSeq, objSeq, joined, deleted, declared,        \* Links
    removed, seq, edges, cursor, stamp, worker, since, batch,
    stamped, backfill, known, wakes, view,
    text, here                                                     \* Uri

catalog == <<cat, compiled, have, gone, published, setup, groups, blind, setups, uninstalls>>
search == <<req, lexical, nearest, scores, adaptive, match, ever, moved, hs, leg, tier, titles,
            vec, budgetOut, page, truncated, stage>>
indexStore == <<db, proc, build, mem, op, lock, tx, rewrites, boots, upserts>>
links == <<rec, member, rowSeq, objSeq, joined, deleted, declared, removed, seq, edges, cursor,
           stamp, worker, since, batch, stamped, backfill, known, wakes, view>>
uri == <<text, here>>

-----------------------------------------------------------------------------
Solo == INSTANCE AccountDir WITH Faults <- {"provider", "sdk", "pin", "rest"}

Roles == [o1 |-> "owner", w1 |-> "writer"]

(* Every requirement graph of three usecases; three bundles of one usecase  *)
(* with supersedes relations of a few shapes, under two handles (the first  *)
(* under the handle h, since the two are alike).                            *)
Plain == [b \in 1..3 |-> None]
Graphs == [of : {[b \in 1..3 |-> b]}, req : [1..3 -> SUBSET (1..3)],
           sup : {[b \in 1..3 |-> {}]}, key : {Plain}, link : {Plain}]
Shapes == [of : {[b \in 1..3 |-> 1]}, req : {[u \in 1..3 |-> {}]},
           sup : [1..3 -> {{}, {1}, {1, 2}}],
           key : {k \in [1..3 -> {"h", "k"}] : k[1] = "h"}, link : {Plain}]
Orders == INSTANCE Catalog WITH
    node <- published, Usecases <- {1, 2, 3}, Bundles <- {1, 2, 3}, Handles <- {"h", "k"},
    NoHandle <- None, Catalogs <- Graphs, Earlier <- {{}}, Devices <- {"o1", "w1"},
    Role <- Roles, MaxSetups <- 1, MaxUninstalls <- 0
Setups == INSTANCE Catalog WITH
    node <- published, Usecases <- {1, 2, 3}, Bundles <- {1, 2, 3}, Handles <- {"h", "k"},
    NoHandle <- None, Catalogs <- Shapes, Earlier <- {{}, {1}, {1, 2}}, Devices <- {"o1", "w1"},
    Role <- Roles, MaxSetups <- 2, MaxUninstalls <- 1

(* Docs 1 and 2 are names; 3 and 4 are chunks of one record.                *)
Owner == <<"a", "b", "a", "a", "c", "b">>
Record == <<1, 2, 3, 3, 5, 6>>
Tiers == <<1, 2>>
Terms == <<{}, {}, {"x"}, {}, {"x"}, {}>>
Ranks == {<<1, 2, 3, 4, 5>>, <<3, 4, 6, 1, 2, 5>>, <<3, 5, 4>>}
Distances == {<<5, 3, 4, 6>>, <<6, 4, 3, 5>>}
Queries ==
    [mode : {"fts", "hybrid", "vector", "title"}, limit : 1..3, filtered : BOOLEAN,
     require : {{}}, exclude : {{}, {"x"}}]
    \cup [mode : {"hybrid"}, limit : {2}, filtered : BOOLEAN, require : {{"x"}}, exclude : {{}}]
Found == INSTANCE Search WITH
    changes <- moved,
    Objects <- {"a", "b", "c"}, Docs <- 1..6, ObjectOf <- Owner, RecordOf <- Record,
    TierOf <- Tiers, TermsOf <- Terms, Lexicals <- Ranks, Nearests <- Distances,
    ScoreSets <- {<<2, 2, 1, 1, 1, 1>>}, Requests <- Queries, Adaptive <- {TRUE}, Far <- {6},
    IdsMax <- 1, Batch <- 2, ScanRows <- 3, ScanRowsMax <- 4, MaterializeMax <- 3,
    ResidualMax <- 2, MaxLegFetch <- 4, FetchMin <- 2, FetchMax <- 4, MaxChanges <- 1

Index == INSTANCE IndexStore WITH
    writes <- upserts, Openers <- {"w", "e"}, Targets <- {1, 2}, Dims <- {0}, Learned <- {3},
    Records <- {"name", "body"}, MaxBoots <- 3, MaxWrites <- 2
Edges == INSTANCE Links WITH
    pc <- worker, gone <- deleted, page <- batch, failed <- backfill, boots <- wakes,
    Objects <- {"o"}, Streamed <- {"m1"}, Targets <- {"o", "p"}, MaxChanges <- 2, MaxBoots <- 2,
    QuietWrites <- FALSE, TornCold <- FALSE, Unreadable <- FALSE
Refs == INSTANCE Uri WITH
    Ids <- {<<"A">>, <<"B">>}, SpaceIds <- {<<"S", "k">>, <<"T", "k">>}

-----------------------------------------------------------------------------
MCInit ==
    /\ on \in Systems
    /\ Init /\ DiscoveryInit /\ SpacesInit /\ BundlesInit
    /\ CASE on = "orders" -> Orders!Init
         [] on = "catalog" -> Setups!Init
         [] OTHER ->
            /\ cat = None /\ compiled = None /\ have = None /\ gone = None /\ published = None
            /\ setup = None /\ groups = None /\ blind = None /\ setups = None /\ uninstalls = None
    /\ IF on = "search" THEN Found!Init
       ELSE /\ req = None /\ lexical = None /\ nearest = None /\ scores = None
            /\ adaptive = None /\ match = None /\ ever = None /\ moved = None /\ hs = None
            /\ leg = None /\ tier = None /\ titles = None /\ vec = None /\ budgetOut = None
            /\ page = None /\ truncated = None /\ stage = None
    /\ IF on = "store" THEN Index!Init
       ELSE /\ db = None /\ proc = None /\ build = None /\ mem = None /\ op = None
            /\ lock = None /\ tx = None /\ rewrites = None /\ boots = None /\ upserts = None
    /\ Edges!Init /\ (on # "links" => edges = {} /\ cursor = 0 /\ rec["o"]["m1"].to = "o")
    /\ IF on = "uri" THEN Refs!Init ELSE text = None /\ here = None
    /\ ConfigInit /\ (on # "config" => how = "server" /\ place = "home")

MCNext ==
    /\ UNCHANGED on
    /\ CASE on = "servers" -> Next
         [] on = "solo" -> /\ Solo!Next
                           /\ \A p \in Procs \ {p1} : pc'[p] = "idle"
                           /\ \A q \in Probes : probe'[q] = "idle"
         [] OTHER -> UNCHANGED vars
    /\ IF on = "discovery" THEN DiscoveryNext ELSE UNCHANGED discovery
    /\ IF on = "spaces" THEN SpacesNext ELSE UNCHANGED spaces
    \* Three requests, or two of them and a restart.
    /\ IF on = "bundles" THEN BundlesNext /\ (asks' = MaxAsks => restarts' = 0)
       ELSE UNCHANGED bundles
    /\ CASE on = "orders" -> Orders!Next
         [] on = "catalog" -> Setups!Next
         [] OTHER -> UNCHANGED catalog
    /\ IF on = "search" THEN Found!Next ELSE UNCHANGED search
    /\ IF on = "store" THEN Index!Next ELSE UNCHANGED indexStore
    /\ IF on = "links" THEN Edges!Next ELSE UNCHANGED links
    /\ IF on = "uri" THEN Refs!Next ELSE UNCHANGED uri
    /\ IF on = "config" THEN ConfigNext ELSE UNCHANGED config

MCSpec ==
    MCInit /\ [][MCNext]_<<on, vars, discovery, spaces, bundles, catalog, search, indexStore,
                           links, uri, config>>

(* A first boot that fails leaves no keys behind (bootAccountLocked removes *)
(* a directory it created), while keys an account has booted with outlive   *)
(* later failed boots of it; one server at a time.                          *)
SoloKeys ==
    /\ [](on = "solo" => NoOrphanKeys)
    /\ [][on = "solo" /\ booted /\ key # 0 => key' = key]_vars

(* A usecase is set up after what it requires, and two shapes of one handle *)
(* never meet (see Catalog).                                                *)
SetupsSound ==
    /\ on = "orders" => Orders!TypeOK /\ Orders!OrderSound
    /\ on = "catalog" => Setups!TypeOK /\ Setups!OrderSound /\ Setups!ShapesApart

(* A page of a search holds only what matches and, undisturbed, all that it *)
(* should (see Search).  An index that is up mixes no chunk targets, and a  *)
(* read is served from the upgraded full-text layout only, whenever a boot  *)
(* or a rewrite was cut (see IndexStore); the link index follows the        *)
(* records and its readers follow it; and all the ways to write one         *)
(* reference have one key (see Links, Uri).                                 *)
StoresSound ==
    /\ on = "search" => Found!TypeOK /\ Found!PageSound /\ Found!PageWhole
    /\ on = "store" => Index!TypeOK /\ Index!OneBoundary /\ Index!UpgradeSound
    /\ on = "links" => Edges!TypeOK /\ Edges!LinksFollow
    /\ on = "uri" => Refs!ReferencesKeep
=============================================================================

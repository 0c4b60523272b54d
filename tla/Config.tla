------------------------------- MODULE Config -------------------------------
(***************************************************************************)
(* How a boot's configuration comes about (internal/config, the embedded   *)
(* assembly in internal/embedded and the hand-over to the SDK in           *)
(* internal/server/sdk.go): defaults, file, environment and flags in       *)
(* layers, defaults that ride on the network the layers chose, validation, *)
(* the pinned network, and what the SDK then runs. An embedded host passes *)
(* options instead and reads no file and no environment.                   *)
(*                                                                         *)
(* A layer is a function from the keys it sets to values; a tristate is    *)
(* "", "true" or "false" and a value strconv refuses is "junk". The keys   *)
(* that only carry a string or a number through stand behind "tuning".     *)
(***************************************************************************)
EXTENDS Naturals, FiniteSets, Sequences

CONSTANT MaxSet   \* bound on the settings made in all layers together

VARIABLES
    how,      \* "server" (Load), "client" (LoadClient) or "embedded"
    place,    \* where the config file lies: found anywhere, or in a data dir
    set,      \* layer -> the settings made in it
    cfg,      \* <<>> before the load, then <<the effective config>>
    running,  \* <<>> before the boot, then <<what runs>>
    failed    \* the load or the boot was refused

config == <<how, place, set, cfg, running, failed>>

Empty == [k \in {} |-> ""]

(* A layer over another.                                                   *)
Over(f, g) == [k \in DOMAIN f \cup DOMAIN g |-> IF k \in DOMAIN f THEN f[k] ELSE g[k]]

Defaults == [dataDir |-> "default", mode |-> "standalone", account |-> "", wallet |-> "",
             nodeconf |-> "", pushEnabled |-> "", pushPeer |-> "", pushAddrs |-> "",
             redeem |-> "", lan |-> "", discovery |-> "", global |-> "", relays |-> "",
             pkarr |-> "", insecureRelay |-> "", relaysDefaulted |-> FALSE,
             embedder |-> "auto", tuning |-> "default", token |-> ""]

Bools == {"true", "false"}

(* The search, embedder, listener and log keys: carried through to their   *)
(* component as they are, so one key with one value per layer stands for   *)
(* them.                                                                   *)
Tuning == {"file", "env", "junk"}

(* What each source can say. The file speaks yaml, so a junk boolean there *)
(* is a parse error like any other and not listed.                         *)
Sayings ==
    [file |-> [dataDir |-> {"moved"}, mode |-> {"managed"}, account |-> {"own"},
               nodeconf |-> {"own"}, pushEnabled |-> Bools, pushPeer |-> {"own"},
               pushAddrs |-> {"own"}, redeem |-> {"own"}, lan |-> Bools, global |-> Bools,
               relays |-> {"https", "http", "junk"}, pkarr |-> {"https"},
               insecureRelay |-> {"true"}, tuning |-> Tuning \ {"env", "junk"}],
     env |-> [dataDir |-> {"alt"}, mode |-> {"managed", "junk"}, wallet |-> {"own"},
              nodeconf |-> {"own"}, pushEnabled |-> {"false", "junk"}, pushPeer |-> {"own"},
              redeem |-> {"own"}, discovery |-> {"false"}, global |-> {"true", "false", "junk"},
              tuning |-> Tuning \ {"file"}],
     flags |-> [dataDir |-> {"alt"}, mode |-> {"standalone"}, account |-> {"own"}],
     options |-> [nodeconf |-> {"own"}, pushPeer |-> {"own"}, pushAddrs |-> {"own"},
                  global |-> Bools, discovery |-> {"false"}, mode |-> {"managed", "junk"},
                  token |-> {"own"}]]
Layers == DOMAIN Sayings

ConfigTypeOK ==
    /\ how \in {"server", "client", "embedded"}
    /\ place \in {"home", "default", "alt"}
    /\ DOMAIN set = Layers /\ \A l \in Layers : DOMAIN set[l] \subseteq DOMAIN Sayings[l]
    /\ \A l \in Layers : \A k \in DOMAIN set[l] : set[l][k] \in Sayings[l][k]
    /\ Len(cfg) <= 1 /\ Len(running) <= Len(cfg) /\ failed \in BOOLEAN

ConfigInit ==
    /\ how \in {"server", "client", "embedded"}
    /\ place \in IF how = "embedded" THEN {"default"} ELSE {"home", "default", "alt"}
    /\ set = [l \in Layers |-> Empty]
    /\ cfg = <<>> /\ running = <<>> /\ failed = FALSE

(* The settings made so far, in all layers together.                       *)
Made == UNION {{<<l, k>> : k \in DOMAIN set[l]} : l \in Layers}

(* The operator writes one more setting, before anything is loaded.        *)
Say(l, k, v) ==
    /\ cfg = <<>> /\ ~failed
    /\ (l = "options") <=> (how = "embedded")
    /\ k \notin DOMAIN set[l]
    /\ set' = [set EXCEPT ![l] = Over([j \in {k} |-> v], set[l])]
    /\ UNCHANGED <<how, place, cfg, running, failed>>

UsesEmbeddedNodeconf(c) == c.nodeconf = ""

(* The data dir the file is looked for in: the layers above the file.      *)
SearchDir == Over(Over(set.flags, set.env), Defaults).dataDir
fileLayer == IF place = "home" \/ place = SearchDir THEN set.file ELSE Empty

(* Mutant of applyEnv: an unreadable opt-out is skipped like the others.   *)
applyEnvLenient(e) == [k \in {j \in DOMAIN e : e[j] # "junk" \/ j = "mode"} |-> e[k]]

(* The environment keeps what it can parse: a junk boolean or number       *)
(* leaves the layer below, except the internet-wide switch, which refuses  *)
(* the load (see Load), and the mode, which validation refuses.            *)
applyEnv(e) == [k \in {j \in DOMAIN e : e[j] # "junk" \/ j \in {"mode", "global"}} |-> e[k]]

ApplyPushDefaults(c) ==
    IF c.pushPeer # "" \/ c.pushAddrs # "" \/ ~UsesEmbeddedNodeconf(c) THEN c
    ELSE [c EXCEPT !.pushPeer = "prod", !.pushAddrs = "prod"]
ApplyAccessDefaults(c) ==
    IF c.redeem # "" \/ ~UsesEmbeddedNodeconf(c) THEN c ELSE [c EXCEPT !.redeem = "prod"]

(* Mutant of ApplyGlobalP2PDefaults: on whatever network.                  *)
ApplyGlobalP2PDefaultsAnywhere(c) ==
    [c EXCEPT !.relaysDefaulted = c.relays = "",
              !.relays = IF c.relays = "" THEN "prod" ELSE c.relays,
              !.pkarr = IF c.pkarr = "" THEN "prod" ELSE c.pkarr]

(* The packaged relays, each list by itself, on the packaged network only. *)
ApplyGlobalP2PDefaults(c) ==
    IF ~UsesEmbeddedNodeconf(c) THEN c
    ELSE [c EXCEPT !.relaysDefaulted = c.relays = "",
                   !.relays = IF c.relays = "" THEN "prod" ELSE c.relays,
                   !.pkarr = IF c.pkarr = "" THEN "prod" ELSE c.pkarr]

(* Mutant of isEnabled: the LAN opt-out does not reach packaged relays.    *)
isEnabledApart(c) == IF c.global # "" THEN c.global = "true" ELSE c.relays # ""

(* Whether the internet-wide layer runs: an explicit value wins, no relay  *)
(* means off, and the LAN opt-out reaches relays nobody asked for.         *)
isEnabled(c) == IF c.global # "" THEN c.global = "true"
                ELSE c.relays # "" /\ (c.lan = "false" => ~c.relaysDefaulted)
PushActive(c) == /\ IF c.pushEnabled # "" THEN c.pushEnabled = "true" ELSE c.pushPeer # ""
                 /\ c.pushPeer # "" /\ c.pushAddrs # ""
LocalDiscoveryEnabled(c, darwin) ==
    IF c.discovery # "" THEN c.discovery = "true" ELSE ~(c.mode = "managed" /\ darwin)

validateMode(c) == /\ c.mode \in {"standalone", "managed"}
                   /\ c.mode = "managed" => c.account = "" /\ c.wallet = ""
UrlsFit(c) == c.relays \in {"", "https", "prod"} \/ (c.relays = "http" /\ c.insecureRelay = "true")
validateGlobalP2P(c) == (isEnabled(c) => c.relays # "") /\ UrlsFit(c)

(* load: <<>> for an error, else the one effective config.                 *)
Layered == Over(Over(set.flags, applyEnv(set.env)), Over(fileLayer, Defaults))
Load(validate) ==
    LET c == ApplyGlobalP2PDefaults(ApplyAccessDefaults(ApplyPushDefaults(Layered)))
    IN  IF \/ Layered.global = "junk"
           \/ validate /\ ~(validateMode(c) /\ validateGlobalP2P(c))
          THEN <<>> ELSE <<c>>

(* embedded: validateOptions, then assembleConfig. The host's own word on  *)
(* the internet-wide layer is put over the defaults.                       *)
assembleConfig(o) ==
    LET given == [k \in DOMAIN o \ {"global"} |-> o[k]]
        base == Over(given, [Defaults EXCEPT !.embedder = "none"])
        paired == ApplyGlobalP2PDefaults(ApplyPushDefaults(base))
    IN  IF "global" \in DOMAIN o THEN [paired EXCEPT !.global = o.global] ELSE paired
validateOptions(o) ==
    "mode" \in DOMAIN o => o.mode = "managed" /\ "token" \in DOMAIN o

Resolved == IF how # "embedded" THEN Load(how = "server")
            ELSE IF validateOptions(set.options) THEN <<assembleConfig(set.options)>> ELSE <<>>

LoadStep == /\ cfg = <<>> /\ ~failed
            /\ cfg' = Resolved /\ failed' = (Resolved = <<>>)
            /\ UNCHANGED <<how, place, set, running>>

(* pinNodeconf and OpenSDK: the network's bytes are pinned once, then the  *)
(* SDK gets only what is active. The SDK refuses relay URLs and a layer    *)
(* without a relay by itself (external).                                   *)
HandOver(darwin) ==
    /\ cfg # <<>> /\ running = <<>> /\ ~failed /\ how # "client"
    /\ LET c == cfg[1] IN
       IF ~validateGlobalP2P(c)
         THEN failed' = TRUE /\ UNCHANGED <<cfg, running>>
         ELSE /\ cfg' = <<[c EXCEPT !.nodeconf = IF c.nodeconf = "" THEN "prod" ELSE c.nodeconf]>>
              /\ running' = <<[network |-> IF c.nodeconf = "" THEN "prod" ELSE c.nodeconf,
                           push |-> IF PushActive(c) THEN c.pushPeer ELSE "",
                           relays |-> IF isEnabled(c) THEN c.relays ELSE "",
                           pkarr |-> IF isEnabled(c) THEN c.pkarr ELSE "",
                           redeem |-> c.redeem, managed |-> c.mode = "managed",
                           keyed |-> c.account # "" \/ c.wallet # "",
                           discovery |-> LocalDiscoveryEnabled(c, darwin)]>>
              /\ UNCHANGED failed
    /\ UNCHANGED <<how, place, set>>

ConfigNext ==
    \/ /\ Cardinality(Made) < MaxSet
       /\ \E l \in Layers : \E k \in DOMAIN Sayings[l] : \E v \in Sayings[l][k] : Say(l, k, v)
    \/ LoadStep
    \/ \E darwin \in BOOLEAN : HandOver(darwin)

ConfigSpec == ConfigInit /\ [][ConfigNext]_config

(* What the operator said last about a key, the way the documentation puts *)
(* the precedence: flags over environment over file; "" for nothing.       *)
Said(k) ==
    LET readable == {j \in DOMAIN set.env : set.env[j] # "junk" \/ j = "global"}
        said == IF how = "embedded" THEN set.options
                ELSE Over(set.flags, Over([j \in readable |-> set.env[j]], fileLayer))
    IN  IF k \in DOMAIN said THEN said[k] ELSE ""

(* No relay session the operator opted out of: not after a false for the   *)
(* layer, not after a value nobody can read, and not from a packaged relay *)
(* below a "p2p.enabled: false".                                           *)
OptOutHonoured ==
    running # <<>> /\ running[1].relays # "" =>
        /\ Said("global") \notin {"false", "junk"}
        /\ Said("lan") = "false" => Said("global") = "true" \/ Said("relays") # ""

(* A device on its own network reaches the production push node, invite    *)
(* service and relays only by naming them.                                 *)
NetworkPaired == running # <<>> /\ running[1].network # "prod" =>
                     "prod" \notin {running[1].push, running[1].relays, running[1].pkarr, running[1].redeem}

(* A managed server boots with no key of its own, whichever layer made it  *)
(* managed and whichever named the key.                                    *)
ManagedKeyless == running # <<>> /\ running[1].managed => ~running[1].keyed

(* A boot runs as its operator said, in whatever layers it was said.       *)
BootsAsTold == ConfigTypeOK /\ OptOutHonoured /\ NetworkPaired /\ ManagedKeyless
=============================================================================

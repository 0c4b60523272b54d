-------------------------------- MODULE Push --------------------------------
(***************************************************************************)
(* The push service: the topics a device subscribes to (push.go, topics.go *)
(* and the sender's side, chatpush.go), and its device token (token.go).   *)
(* The two halves share no state.                                          *)
(***************************************************************************)
EXTENDS Naturals, FiniteSets

-----------------------------------------------------------------------------
(* Topics.  The sync loop reads the space list and every active space's     *)
(* chat modes, computes the topics the account should hold and, when they   *)
(* differ from those of the last successful round, replaces the push node's *)
(* set.                                                                     *)
CONSTANTS
    Spaces, Chats,
    Muted,       \* chats whose notifyMode is "none" for good
    Registered,  \* the spaces RegisterSpace is called for
    Unknown,     \* no enumeration on record
    MaxChanges,  \* bound: changes of modes and of the space list
    MaxFails     \* bound: failed calls

ASSUME PushAssumption ==
    /\ Muted \subseteq Chats /\ Registered \subseteq Spaces
    /\ MaxChanges \in Nat /\ MaxFails \in Nat

Modes == {"all", "mentions", "none"}
ChatModes == Modes \cup {"inherit"}  \* absent and invalid values inherit

VARIABLES
    spaceOf,         \* the space of each chat, for good
    active, smode,   \* the space list: active rows and their notifyMode
    cmode,           \* the chats' notifyMode properties
    changes, fails,
    harsh,           \* a space's first enumeration may fail, and SubscribeAll
                     \* may land although it returned an error
    dirty,           \* the cap-1 channel of kicks
    at,              \* where syncOnce is
    infos,           \* the space-list snapshot of the round
    todo,            \* spaces still to enumerate
    chats, omit,     \* collectChatModes' results so far
    cache,           \* lastChatModes
    hash,            \* lastSyncedHash
    topics           \* topics the push node holds, per space

inputs == <<spaceOf, active, smode, cmode, changes, harsh>>
round == <<infos, todo, chats, omit>>
push == <<inputs, fails, dirty, at, round, cache, hash, topics>>

-----------------------------------------------------------------------------
(* Topics, for one account.                                                 *)
All == <<"chats">>
Me == <<"me">>
TopicChat(c) == <<"chat", c>>
TopicChatMention(c) == <<"mention", c>>
Topics == {All, Me} \cup {TopicChat(c) : c \in Chats} \cup {TopicChatMention(c) : c \in Chats}

ChatsOf(s) == {c \in Chats : spaceOf[c] = s}
Effective(mode, m) == IF m \in Modes THEN m ELSE mode

BulkTopics(mode) ==
    IF mode = "all" THEN {All, Me} ELSE IF mode = "mentions" THEN {Me} ELSE {}

(* Mutant of SpaceTopics: a chat on "all" gets no mention topic.            *)
SpaceTopicsShort(mode, entries) ==
    LET chatsIn(ms) == {c \in DOMAIN entries : Effective(mode, entries[c]) \in ms}
    IN IF \A c \in DOMAIN entries : entries[c] \notin Modes
       THEN BulkTopics(mode)
       ELSE {TopicChat(c) : c \in chatsIn({"all"})}
            \cup {TopicChatMention(c) : c \in chatsIn({"mentions"})}

(* spaceTopics: bulk topics, or per-chat ones for every chat as soon as one *)
(* of them overrides.                                                       *)
SpaceTopics(mode, entries) ==
    LET chatsIn(ms) == {c \in DOMAIN entries : Effective(mode, entries[c]) \in ms}
    IN IF \A c \in DOMAIN entries : entries[c] \notin Modes
       THEN BulkTopics(mode)
       ELSE {TopicChat(c) : c \in chatsIn({"all"})}
            \cup {TopicChatMention(c) : c \in chatsIn({"all", "mentions"})}

(* What a message, and an edit that adds a mention, are published on, as    *)
(* far as this account is concerned: NotifyChatMessage, NotifyChatEdit.     *)
SendTopics(c, mentioned) ==
    {All, TopicChat(c)} \cup (IF mentioned THEN {TopicChatMention(c), Me} ELSE {})
EditTopics(c) == {TopicChatMention(c), Me}

(* desiredSubs and desiredHash.                                             *)
Subs(rows, entries) ==
    [s \in Spaces |-> IF s \in DOMAIN rows THEN SpaceTopics(rows[s], entries[s]) ELSE {}]
Hash(rows, entries) == <<DOMAIN rows \cap Registered, Subs(rows, entries)>>

NoChats == [c \in {} |-> "inherit"]

PushTypeOK ==
    /\ spaceOf \in [Chats -> Spaces]
    /\ active \subseteq Spaces /\ smode \in [Spaces -> Modes]
    /\ cmode \in [Chats -> ChatModes] /\ changes \in 0..MaxChanges
    /\ fails \in 0..MaxFails /\ harsh \in BOOLEAN /\ dirty \in BOOLEAN
    /\ at \in {"wait", "list", "chats", "subscribe"}
    /\ DOMAIN infos \subseteq Spaces /\ todo \subseteq Spaces /\ omit \subseteq Spaces
    /\ DOMAIN chats = Spaces /\ DOMAIN cache = Spaces
    /\ topics \in [Spaces -> SUBSET Topics]

(* Start kicks a first round.                                               *)
PushInit ==
    /\ spaceOf \in [Chats -> Spaces]
    /\ active \in SUBSET Spaces /\ smode \in [Spaces -> Modes]
    /\ cmode \in [Chats -> ChatModes] /\ \A c \in Muted : cmode[c] = "none"
    /\ changes = 0 /\ fails = 0 /\ harsh \in BOOLEAN /\ dirty = TRUE /\ at = "wait"
    /\ infos = [s \in {} |-> "all"] /\ todo = {} /\ omit = {}
    /\ chats = [s \in Spaces |-> NoChats]
    /\ cache = [s \in Spaces |-> Unknown] /\ hash = Unknown
    /\ topics = [s \in Spaces |-> {}]

-----------------------------------------------------------------------------
(* The account's other writes.  Space-list events kick the loop, a chat's   *)
(* property does not: the tick picks it up.                                 *)
Changed == changes < MaxChanges /\ changes' = changes + 1

SetSpaceMode(s, m) ==
    /\ Changed /\ smode[s] # m
    /\ smode' = [smode EXCEPT ![s] = m] /\ dirty' = TRUE
    /\ UNCHANGED <<spaceOf, active, cmode, harsh, fails, at, round, cache, hash, topics>>

ListSpace(s) ==
    /\ Changed
    /\ active' = (active \ {s}) \cup ({s} \ active) /\ dirty' = TRUE
    /\ UNCHANGED <<spaceOf, smode, cmode, harsh, fails, at, round, cache, hash, topics>>

SetChatMode(c, m) ==
    /\ Changed /\ c \notin Muted /\ cmode[c] # m
    /\ cmode' = [cmode EXCEPT ![c] = m]
    /\ UNCHANGED <<spaceOf, active, smode, harsh, fails, dirty, at, round, cache, hash, topics>>

-----------------------------------------------------------------------------
(* syncLoop and syncOnce.                                                   *)
Fault == fails < MaxFails /\ fails' = fails + 1

Rest ==
    /\ at' = "wait" /\ infos' = [s \in {} |-> "all"] /\ todo' = {} /\ omit' = {}
    /\ chats' = [s \in Spaces |-> NoChats]

(* A kick, debounced, or the tick.                                          *)
Wake ==
    /\ at = "wait" /\ dirty' = FALSE /\ at' = "list"
    /\ UNCHANGED <<inputs, fails, round, cache, hash, topics>>

List ==
    /\ at = "list"
    /\ \/ /\ infos' = [s \in active |-> smode[s]] /\ todo' = active
          /\ at' = "chats" /\ UNCHANGED <<fails, chats, omit>>
       \/ Fault /\ Rest
    /\ UNCHANGED <<inputs, dirty, cache, hash, topics>>

(* collectChatModes, one space: chatModes reads the current modes.          *)
Enumerated(s) ==
    /\ at = "chats" /\ s \in todo /\ todo' = todo \ {s}
    /\ LET entries == [c \in ChatsOf(s) |-> cmode[c]]
       IN chats' = [chats EXCEPT ![s] = entries] /\ cache' = [cache EXCEPT ![s] = entries]
    /\ UNCHANGED <<inputs, fails, dirty, at, infos, omit, hash, topics>>

(* Mutant of EnumerationFails: the space falls back to its bulk topics.     *)
EnumerationFailsOpen(s) ==
    /\ at = "chats" /\ s \in todo /\ todo' = todo \ {s}
    /\ Fault
    /\ UNCHANGED <<inputs, dirty, at, infos, chats, omit, cache, hash, topics>>

(* A failed enumeration uses the last good one, or leaves the space out.    *)
EnumerationFails(s) ==
    /\ at = "chats" /\ s \in todo /\ todo' = todo \ {s}
    /\ Fault
    /\ IF cache[s] # Unknown
       THEN chats' = [chats EXCEPT ![s] = cache[s]] /\ UNCHANGED omit
       ELSE harsh /\ omit' = omit \cup {s} /\ UNCHANGED chats
    /\ UNCHANGED <<inputs, dirty, at, infos, cache, hash, topics>>

Kept == [s \in DOMAIN infos \ omit |-> infos[s]]

(* pruneChatModes, then the comparison with the last successful round.      *)
Compare ==
    /\ at = "chats" /\ todo = {}
    /\ cache' = [s \in Spaces |-> IF s \in DOMAIN infos THEN cache[s] ELSE Unknown]
    /\ IF Hash(Kept, chats) = hash THEN Rest ELSE at' = "subscribe" /\ UNCHANGED round
    /\ UNCHANGED <<inputs, fails, dirty, hash, topics>>

(* The hash after a landed SubscribeAll: partial rounds do not advance it.  *)
Advanced == IF omit = {} THEN Hash(Kept, chats) ELSE hash

(* reconcile: SubscribeAll replaces the node's set.  RegisterSpace is best  *)
(* effort and idempotent, and changes no topics.                            *)
SubscribeAll ==
    /\ at = "subscribe" /\ Rest
    /\ \/ topics' = Subs(Kept, chats) /\ hash' = Advanced /\ UNCHANGED fails
       \/ Fault /\ UNCHANGED <<hash, topics>>
       \/ harsh /\ Fault /\ topics' = Subs(Kept, chats) /\ UNCHANGED hash
    /\ UNCHANGED <<inputs, dirty, cache>>

SyncStep ==
    \/ Wake \/ List \/ Compare \/ SubscribeAll
    \/ \E s \in Spaces : Enumerated(s) \/ EnumerationFails(s)

PushNext ==
    \/ \E s \in Spaces : (\E m \in Modes : SetSpaceMode(s, m)) \/ ListSpace(s)
    \/ \E c \in Chats, m \in ChatModes : SetChatMode(c, m)
    \/ SyncStep

(* The loop runs, its ticker fires and calls return within their budgets.   *)
PushFairness == WF_push(SyncStep)

PushSpec == PushInit /\ [][PushNext]_push /\ PushFairness

-----------------------------------------------------------------------------
Reaches(c, set) == topics[spaceOf[c]] \cap set # {}

(* "bulk chats would silently unmute every muted chat in the space (a mute  *)
(* violation, the worst outcome)" (push.go:513): whatever fails and however *)
(* the lists change, no message reaches this account from a muted chat.     *)
MutedStaysMuted ==
    \A c \in Muted, m \in BOOLEAN : ~Reaches(c, SendTopics(c, m)) /\ ~Reaches(c, EditTopics(c))

(* The node delivers what the effective modes say: all messages, or those   *)
(* that mention the account; an edit that mentions it anew unless muted.    *)
FollowsModes ==
    \A c \in Chats :
        LET mode == Effective(smode[spaceOf[c]], cmode[c])
            on == spaceOf[c] \in active
        IN /\ \A m \in BOOLEAN : Reaches(c, SendTopics(c, m)) =
                (on /\ (mode = "all" \/ (mode = "mentions" /\ m)))
           /\ Reaches(c, EditTopics(c)) = (on /\ mode # "none")

(* Once changes and faults end, the node follows the modes for good, unless *)
(* a round was partial or an applied SubscribeAll came back as an error.    *)
Converges == [](~harsh) => <>[]FollowsModes

-----------------------------------------------------------------------------
(* The token: the file, the copy in memory, and what the push node was      *)
(* told.  The host's calls, one at a time, and the sync loop's ensureToken  *)
(* run concurrently; a forward is sent, lands at the node (or not) and      *)
(* returns, in separate steps.                                              *)
CONSTANTS
    Tokens, None,
    MaxCalls,         \* bound: POST and DELETE /v1/push/token requests
    MaxForwardFails,  \* bound: forwards that fail
    MaxStarts         \* bound: restarts

(* An empty token is refused, and empty is what no token looks like.        *)
ASSUME TokenAssumption ==
    /\ None \notin Tokens
    /\ MaxCalls \in Nat /\ MaxForwardFails \in Nat /\ MaxStarts \in Nat

VARIABLES
    configured,  \* the SDK was opened with a push node
    file,        \* push-token.json
    token, forwarded,  \* s.token, s.tokenForwarded
    current,     \* history: the node accepted token since it last changed
    retired,     \* tokens replaced or revoked: the platform issues new ones
    holds,       \* what the push node holds for this device
    doing, arg,  \* where each actor is, and with which token
    landed,      \* the actors whose forward has reached the node
    asking, failing, starts

bounds == <<asking, failing, starts>>
local == <<file, token, forwarded, current, retired>>
pushToken == <<configured, local, holds, doing, arg, landed, bounds>>

Host == "host"  \* the handlers
Sync == "sync"  \* the sync loop
Actors == {Host, Sync}

TokenTypeOK ==
    /\ configured \in BOOLEAN /\ file \in Tokens \cup {None} /\ token \in Tokens \cup {None}
    /\ forwarded \in BOOLEAN /\ current \in BOOLEAN /\ retired \subseteq Tokens
    /\ holds \in Tokens \cup {None}
    /\ doing \in [Actors -> {"idle", "save", "store", "forward", "rollback", "clear", "revoke",
                           "remove", "revoked", "off"}]
    /\ arg \in [Actors -> Tokens \cup {None}] /\ landed \subseteq Actors
    /\ asking \in 0..MaxCalls /\ failing \in 0..MaxForwardFails /\ starts \in 0..MaxStarts

TokenInit ==
    /\ configured \in BOOLEAN /\ file \in Tokens \cup {None} /\ token = file
    /\ forwarded = FALSE /\ current = FALSE /\ retired = {} /\ holds = None
    /\ doing = [a \in Actors |-> "idle"] /\ arg = [a \in Actors |-> None]
    /\ landed = {} /\ asking = 0 /\ failing = 0 /\ starts = 0

Goto(a, l) == doing' = [doing EXCEPT ![a] = l]

(* s.token = t: the value it had does not come back.                        *)
Stored(t) ==
    /\ token' = t
    /\ retired' = IF token \notin {None, t} THEN retired \cup {token} ELSE retired
    /\ current' = (current /\ t = token)

-----------------------------------------------------------------------------
(* SetToken.                                                                *)
Call == doing[Host] = "idle" /\ asking < MaxCalls /\ asking' = asking + 1

Set(t) ==
    /\ Call /\ t \notin retired
    /\ arg' = [arg EXCEPT ![Host] = t] /\ Goto(Host, "save")
    /\ UNCHANGED <<configured, local, holds, landed, failing, starts>>

(* saveTokenFile; a disk error ends the call.                               *)
Save ==
    /\ doing[Host] = "save"
    /\ \/ file' = arg[Host] /\ Goto(Host, "store")
       \/ Goto(Host, "idle") /\ UNCHANGED file
    /\ UNCHANGED <<configured, token, forwarded, current, retired, holds, arg, landed, bounds>>

(* Mutant of Store: a new token keeps the old one's acknowledgement.        *)
StoreKeeps ==
    /\ doing[Host] = "store" /\ Stored(arg[Host]) /\ Goto(Host, "forward")
    /\ UNCHANGED <<configured, file, forwarded, holds, arg, landed, bounds>>

Store ==
    /\ doing[Host] = "store" /\ Stored(arg[Host]) /\ forwarded' = FALSE /\ Goto(Host, "forward")
    /\ UNCHANGED <<configured, file, holds, arg, landed, bounds>>

(* ensureToken: a token that was not acknowledged is forwarded again.       *)
EnsureToken ==
    /\ doing[Sync] = "idle" /\ token # None /\ ~forwarded
    /\ arg' = [arg EXCEPT ![Sync] = token] /\ Goto(Sync, "forward")
    /\ UNCHANGED <<configured, local, holds, landed, bounds>>

(* The RPC reaches the node.                                                *)
Land(a) ==
    /\ configured /\ doing[a] = "forward" /\ a \notin landed
    /\ holds' = arg[a] /\ landed' = landed \cup {a}
    /\ current' = (current \/ arg[a] = token)
    /\ UNCHANGED <<configured, file, token, forwarded, retired, doing, arg, bounds>>

(* markForwarded, only when the token is still the one that was sent.       *)
MarkForwarded(sent) == forwarded' = (forwarded \/ token = sent)

Forwarded(a) ==
    /\ doing[a] = "forward" /\ a \in landed
    /\ MarkForwarded(arg[a])
    /\ landed' = landed \ {a}
    /\ Goto(a, "idle") /\ arg' = [arg EXCEPT ![a] = None]
    /\ UNCHANGED <<configured, file, token, current, retired, holds, bounds>>

(* An error, whether the node got the token or not, is left to the loop.    *)
ForwardFails(a) ==
    /\ configured /\ doing[a] = "forward" /\ failing < MaxForwardFails /\ failing' = failing + 1
    /\ landed' = landed \ {a}
    /\ Goto(a, "idle") /\ arg' = [arg EXCEPT ![a] = None]
    /\ UNCHANGED <<configured, local, holds, asking, starts>>

(* ErrPushNotConfigured: SetToken rolls back, the loop goes idle.           *)
NotConfigured(a) ==
    /\ ~configured /\ doing[a] = "forward"
    /\ arg' = [arg EXCEPT ![a] = None]
    /\ Goto(a, IF a = Sync THEN "off" ELSE "rollback")
    /\ UNCHANGED <<configured, local, holds, landed, bounds>>

Rollback ==
    /\ doing[Host] = "rollback" /\ file' = None /\ Goto(Host, "clear")
    /\ UNCHANGED <<configured, token, forwarded, current, retired, holds, arg, landed, bounds>>

RollbackClear ==
    /\ doing[Host] = "clear"
    /\ Stored(None) /\ Goto(Host, "idle")
    /\ UNCHANGED <<configured, file, forwarded, holds, arg, landed, bounds>>

-----------------------------------------------------------------------------
(* RevokeToken: the forward first, then the file, then the copy.            *)
Revoke ==
    /\ Call /\ Goto(Host, IF configured THEN "revoke" ELSE "idle")
    /\ UNCHANGED <<configured, local, holds, arg, landed, failing, starts>>

RevokeForward ==
    /\ doing[Host] = "revoke" /\ Goto(Host, "remove")
    /\ \/ holds' = None /\ UNCHANGED failing
       \/ failing < MaxForwardFails /\ failing' = failing + 1 /\ holds' \in {holds, None}
    /\ UNCHANGED <<configured, local, arg, landed, asking, starts>>

RevokeRemove ==
    /\ doing[Host] = "remove"
    /\ \/ file' = None /\ Goto(Host, "revoked")
       \/ Goto(Host, "idle") /\ UNCHANGED file
    /\ UNCHANGED <<configured, token, forwarded, current, retired, holds, arg, landed, bounds>>

RevokeClear ==
    /\ doing[Host] = "revoked" /\ Stored(None) /\ forwarded' = FALSE /\ Goto(Host, "idle")
    /\ UNCHANGED <<configured, file, holds, arg, landed, bounds>>

-----------------------------------------------------------------------------
(* The process ends and starts again: Start loads the file.                 *)
Restart ==
    /\ starts < MaxStarts /\ starts' = starts + 1
    /\ Stored(file) /\ forwarded' = FALSE
    /\ doing' = [a \in Actors |-> "idle"] /\ arg' = [a \in Actors |-> None]
    /\ landed' = {}
    /\ UNCHANGED <<configured, file, holds, asking, failing>>

HostStep ==
    \/ Save \/ Store \/ Rollback \/ RollbackClear
    \/ RevokeForward \/ RevokeRemove \/ RevokeClear
ForwardStep(a) == Land(a) \/ Forwarded(a) \/ ForwardFails(a) \/ NotConfigured(a)

TokenNext ==
    \/ (\E t \in Tokens : Set(t)) \/ Revoke \/ HostStep \/ EnsureToken
    \/ \E a \in Actors : ForwardStep(a)
    \/ Restart

(* Handlers run to their end, the loop ticks, an RPC returns in its budget. *)
TokenFairness ==
    /\ WF_pushToken(HostStep) /\ WF_pushToken(EnsureToken)
    /\ \A a \in Actors : WF_pushToken(ForwardStep(a))

TokenSpec == TokenInit /\ [][TokenNext]_pushToken /\ TokenFairness

-----------------------------------------------------------------------------
(* tokenForwarded: "token accepted by the push node since it last changed"; *)
(* "the stale forward can never mask the newer token" (push.go:91, 643).    *)
ForwardedHonest == forwarded => current

(* A token set on this device reaches the push node, unless it is replaced, *)
(* revoked, or there is no push node.                                       *)
TokenReaches ==
    \A t \in Tokens : configured /\ token = t ~> token # t \/ current
=============================================================================

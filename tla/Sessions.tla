------------------------------ MODULE Sessions ------------------------------
(***************************************************************************)
(* What the engine lifecycle promises, with the lifecycle left out: the    *)
(* sessions of a server are opened and closed one per account dir, users   *)
(* join and leave them, and a session is closed only when nobody uses it.  *)
(* A closed session is never opened again.                                 *)
(***************************************************************************)
CONSTANTS Sess,      \* sessions
          Dirs,      \* account dirs
          Users,     \* goroutines working against a session
          NoDir

VARIABLES state, dirOf, users

svars == <<state, dirOf, users>>

SInit ==
    /\ state = [s \in Sess |-> "absent"]
    /\ dirOf = [s \in Sess |-> NoDir]
    /\ users = [s \in Sess |-> {}]

Open(s, d) ==
    /\ state[s] = "absent"
    /\ \A t \in Sess : state[t] = "open" => dirOf[t] # d
    /\ state' = [state EXCEPT ![s] = "open"]
    /\ dirOf' = [dirOf EXCEPT ![s] = d]
    /\ UNCHANGED users

Join(s, u) ==
    /\ state[s] = "open" /\ u \notin users[s]
    /\ users' = [users EXCEPT ![s] = @ \cup {u}]
    /\ UNCHANGED <<state, dirOf>>

Part(s, u) ==
    /\ u \in users[s]
    /\ users' = [users EXCEPT ![s] = @ \ {u}]
    /\ UNCHANGED <<state, dirOf>>

Close(s) ==
    /\ state[s] = "open" /\ users[s] = {}
    /\ state' = [state EXCEPT ![s] = "closed"]
    /\ UNCHANGED <<dirOf, users>>

SNext ==
    \E s \in Sess :
        \/ \E d \in Dirs : Open(s, d)
        \/ \E u \in Users : Join(s, u) \/ Part(s, u)
        \/ Close(s)

SSpec == SInit /\ [][SNext]_svars
=============================================================================

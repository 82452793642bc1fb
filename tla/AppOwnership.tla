---------------------------- MODULE AppOwnership ----------------------------
(***************************************************************************)
(* What the access layer promises about app instances, without sockets,    *)
(* strands, heartbeats or threads.  An instance is created by one session  *)
(* under the window the client named (or under none), has one owner for as *)
(* long as it lives - a session, or the stash slot of its window - and is   *)
(* destroyed once.  It never changes window: what a window's session parks *)
(* in the stash only a session that names the same window takes back.      *)
(*                                                                         *)
(* Session.tla implements this specification (Session!OwnershipSpec).      *)
(***************************************************************************)
CONSTANTS App, Conn, Window, NoWindow

VARIABLE holder  \* where each app instance is

Unborn         == [at |-> "unborn"]
Destroyed      == [at |-> "destroyed"]
Held(c, w)     == [at |-> "session", conn |-> c, window |-> w]
Parked(w)      == [at |-> "stash", window |-> w]

Holders == {Unborn, Destroyed}
           \cup {Held(c, w) : c \in Conn, w \in Window \cup {NoWindow}}
           \cup {Parked(w) : w \in Window}

Alive(a) == holder[a] \notin {Unborn, Destroyed}

\* Session c holds no app.
SessionFree(c)  == \A a \in App, w \in Window \cup {NoWindow} : holder[a] # Held(c, w)

Init == holder = [a \in App |-> Unborn]

\* A first message that closes its window also discards what it had parked.
Create(a, c, w, discard) ==
    /\ holder[a] = Unborn
    /\ SessionFree(c)
    /\ holder' = [b \in App |-> CASE b = a -> Held(c, w)
                                  [] discard /\ holder[b] = Parked(w)
                                       -> Destroyed
                                  [] OTHER -> holder[b]]

\* Parking an app evicts the one its window's slot held before.
Park(a, c, w) ==
    /\ holder[a] = Held(c, w)
    /\ holder' = [b \in App |-> CASE b = a                -> Parked(w)
                                  [] holder[b] = Parked(w) -> Destroyed
                                  [] OTHER                 -> holder[b]]

Restore(a, c, w) ==
    /\ holder[a] = Parked(w)
    /\ SessionFree(c)
    /\ holder' = [holder EXCEPT ![a] = Held(c, w)]

Destroy(dying) ==
    /\ dying # {}
    /\ \A a \in dying : holder[a] # Destroyed
    /\ holder' = [a \in App |-> IF a \in dying THEN Destroyed ELSE holder[a]]

Next ==
    \/ \E a \in App, c \in Conn, w \in Window \cup {NoWindow}, discard \in BOOLEAN :
         Create(a, c, w, discard)
    \/ \E a \in App, c \in Conn, w \in Window : Park(a, c, w) \/ Restore(a, c, w)
    \/ \E dying \in SUBSET App : Destroy(dying)

Spec == Init /\ [][Next]_holder

-----------------------------------------------------------------------------
TypeOK == holder \in [App -> Holders]

\* A session holds one app at most, and a window's slot one at most.
OneAppPerHolder ==
    \A a, b \in App : a # b /\ Alive(a) /\ Alive(b) =>
        /\ holder[a] # holder[b]
        /\ ~ (holder[a].at = "session" /\ holder[b].at = "session"
              /\ holder[a].conn = holder[b].conn)
=============================================================================

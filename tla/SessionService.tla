---------------------------- MODULE SessionService ----------------------------
(***************************************************************************)
(* What the executor promises to a session: worker threads are inside it   *)
(* only while it is open, it is closed only when nobody is inside, and a    *)
(* pause of the whole service (checkpoint, unregistration) finds and keeps  *)
(* every session empty.                                                     *)
(***************************************************************************)
CONSTANTS Threads, Sessions, NoSession

VARIABLES
    open,     \* sessions with an admitted epoch
    user,     \* the session each thread holds a slot of
    frozen    \* the service is paused and at rest

serviceVars == <<open, user, frozen>>

ServiceInit ==
    /\ open = {}
    /\ user = [t \in Threads |-> NoSession]
    /\ frozen = FALSE

\* A batch opens at once all the sessions it names.
Open(S) ==
    /\ S # {} /\ S \cap open = {} /\ ~frozen
    /\ open' = open \cup S
    /\ UNCHANGED <<user, frozen>>

\* A thread takes a slot, or moves the one it holds to another session.
Use(t, s) ==
    /\ s \in open /\ ~frozen
    /\ user' = [user EXCEPT ![t] = s]
    /\ UNCHANGED <<open, frozen>>

Leave(t) ==
    /\ user' = [user EXCEPT ![t] = NoSession]
    /\ UNCHANGED <<open, frozen>>

Close(s) ==
    /\ s \in open /\ ~frozen
    /\ \A t \in Threads : user[t] # s
    /\ open' = open \ {s}
    /\ UNCHANGED <<user, frozen>>

Freeze ==
    /\ \A t \in Threads : user[t] = NoSession
    /\ frozen' = TRUE
    /\ UNCHANGED <<open, user>>

Thaw ==
    /\ frozen' = FALSE
    /\ UNCHANGED <<open, user>>

ServiceNext ==
    \/ \E S \in SUBSET Sessions : Open(S)
    \/ \E t \in Threads : Leave(t) \/ \E s \in Sessions : Use(t, s)
    \/ \E s \in Sessions : Close(s)
    \/ Freeze \/ Thaw

ServiceSpec == ServiceInit /\ [][ServiceNext]_serviceVars
=============================================================================

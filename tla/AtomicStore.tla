---------------------------- MODULE AtomicStore ----------------------------
(***************************************************************************)
(* What the database promises to the programs that share it.               *)
(*                                                                         *)
(* Every client collects the effects of its session in private.  A commit  *)
(* applies all of them, in one step, to whatever the database holds at     *)
(* that moment, and is acknowledged; a session that ends without a commit  *)
(* leaves no trace.  No client ever observes or overwrites half a session, *)
(* and an acknowledged session is never undone by another one's commit.    *)
(***************************************************************************)
EXTENDS Effects

CONSTANTS Clients, MaxVal

VARIABLES db,        \* the committed contents
          pending,   \* pending[c]: effects of c's open session
          acked      \* acked[c]: how many of c's commits were acknowledged

vars == <<db, pending, acked>>

StoreTypeOK ==
    /\ db \in Maps
    /\ pending \in [Clients -> [Keys -> Effect]]
    /\ acked \in [Clients -> Nat]

Init ==
    /\ db = EmptyMap
    /\ pending = [c \in Clients |-> NoEffects]
    /\ acked = [c \in Clients |-> 0]

Requests == {Put(v) : v \in 0..MaxVal} \cup {Inc}

Write(c) ==
    /\ \E k \in Keys, e \in Requests :
          pending' = [pending EXCEPT ![c][k] = Compose(@, e)]
    /\ UNCHANGED <<db, acked>>

Commit(c) ==
    /\ db' = Apply(pending[c], db)
    /\ pending' = [pending EXCEPT ![c] = NoEffects]
    /\ acked' = [acked EXCEPT ![c] = @ + 1]

\* Some sessions end without a commit: closed, failed or crashed.
Discard(C) ==
    /\ pending' = [c \in Clients |-> IF c \in C THEN NoEffects ELSE pending[c]]
    /\ UNCHANGED <<db, acked>>

Next ==
    \/ \E c \in Clients : Write(c) \/ Commit(c)
    \/ \E C \in SUBSET Clients : Discard(C)

Spec == Init /\ [][Next]_vars
=============================================================================

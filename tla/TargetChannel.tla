---------------------------- MODULE TargetChannel ----------------------------
(***************************************************************************)
(* What the target pipeline promises between alg_init and alg_uninit, with *)
(* the queue, the task thread, the list and the slot left out.             *)
(*                                                                         *)
(* Targets are numbered as they are posted.  Device targets reach the      *)
(* algorithm in the order posted, and the pipeline may lose only the       *)
(* oldest of them, and only while more than Keep are pending.  User        *)
(* targets reach it in the order posted too; one may be lost only when a   *)
(* later one is pending.  Without memory (NoMemory) any target may be      *)
(* lost, but none is ever overtaken by a later one of its kind.            *)
(***************************************************************************)
EXTENDS Naturals, FiniteSets

CONSTANTS Targets,   (* what can be posted: records with fields n and kind *)
          Keep,      (* device targets that may be pending without a loss  *)
          NoMemory,  (* whether memory may run out                         *)
          NULL

VARIABLES up,     (* the algorithm is initialised                          *)
          last,   (* number of the target posted last                      *)
          devs,   (* device targets pending                                *)
          users,  (* user targets pending                                  *)
          hand    (* the target the algorithm works on                     *)
chanVars == <<up, last, devs, users, hand>>

Oldest(m, pending) == m \in pending /\ \A x \in pending : m.n <= x.n

Init == up = FALSE /\ last = 0 /\ devs = {} /\ users = {} /\ hand = NULL

Start ==
    /\ ~up /\ up' = TRUE
    /\ UNCHANGED <<last, devs, users, hand>>

Stop == up /\ up' = FALSE /\ last' = 0 /\ devs' = {} /\ users' = {} /\ hand' = NULL

Post(m) ==
    /\ up
    /\ m.n = last + 1 /\ last' = m.n
    /\ \/ m.kind = "dev"  /\ devs' = devs \cup {m}   /\ UNCHANGED users
       \/ m.kind = "user" /\ users' = users \cup {m} /\ UNCHANGED devs
    /\ UNCHANGED <<up, hand>>

DropOldest ==
    /\ up /\ Cardinality(devs) > Keep
    /\ \E m \in devs : Oldest(m, devs) /\ devs' = devs \ {m}
    /\ UNCHANGED <<up, last, users, hand>>

Supersede ==
    /\ up
    /\ \E m \in users : Oldest(m, users) /\ users # {m} /\ users' = users \ {m}
    /\ UNCHANGED <<up, last, devs, hand>>

Lose ==
    /\ up /\ NoMemory
    /\ \E m \in devs \cup users : devs' = devs \ {m} /\ users' = users \ {m}
    /\ UNCHANGED <<up, last, hand>>

Deliver ==
    /\ up /\ hand = NULL
    /\ \/ \E m \in users : /\ Oldest(m, users) /\ hand' = m /\ users' = users \ {m}
                           /\ UNCHANGED devs
       \/ \E m \in devs : /\ Oldest(m, devs) /\ hand' = m /\ devs' = devs \ {m}
                          /\ UNCHANGED users
    /\ UNCHANGED <<up, last>>

Finish == up /\ hand # NULL /\ hand' = NULL /\ UNCHANGED <<up, last, devs, users>>

Next == \/ Start \/ Stop \/ (\E m \in Targets : Post(m))
        \/ DropOldest \/ Supersede \/ Lose \/ Deliver \/ Finish

Spec == Init /\ [][Next]_chanVars
=============================================================================

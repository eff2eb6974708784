------------------------------ MODULE LastGood ------------------------------
(***************************************************************************)
(* What every synchronisation of the backend promises about the data it    *)
(* mirrors: a failed, invalid or unusable upstream answer never removes    *)
(* stored data.  A stored item may be dropped only on the strength of a    *)
(* usable answer that was received for its owner and does not list it, and *)
(* nothing is stored that no answer listed.                                *)
(*                                                                         *)
(* The module knows nothing of feeds, windows, jobs or databases.  The     *)
(* detailed synchronisation modules implement it under a refinement        *)
(* mapping.                                                                *)
(***************************************************************************)
CONSTANTS Owners,   \* what is synchronised on its own: a calendar, a canteen
          Items     \* identities of the stored records

VARIABLES store,    \* the items stored for each owner
          inbox     \* the upstream answers that unfinished runs of the owner hold

vars == <<store, inbox>>

(* An answer is usable or not, and lists the items it vouches for.         *)
Answer == [usable : BOOLEAN, present : SUBSET Items]

Init == /\ store = [o \in Owners |-> {}]
        /\ inbox = [o \in Owners |-> {}]

(* A run of o receives an answer from upstream.                            *)
Receive(o) == /\ \E a \in inbox'[o] : /\ a \in Answer
                                       /\ inbox' = [inbox EXCEPT ![o] = @ \cup {a}]
              /\ UNCHANGED store

(* A usable answer is applied: items it lists stay and may come, items it  *)
(* does not list may go.                                                   *)
Apply(o) == /\ \E a \in inbox[o] :
                 /\ a.usable
                 /\ store[o] \cap a.present \subseteq store'[o]
                 /\ store'[o] \subseteq store[o] \cup a.present
            /\ store' = [store EXCEPT ![o] = store'[o]]
            /\ UNCHANGED inbox

(* Runs end, fail, or die with their process: their answers are forgotten  *)
(* and the store is left as it is.                                         *)
Forget == /\ inbox' \in [Owners -> SUBSET Answer]
          /\ \A o \in Owners : inbox'[o] \subseteq inbox[o]
          /\ UNCHANGED store

Next == \/ \E o \in Owners : Receive(o) \/ Apply(o)
        \/ Forget

Spec == Init /\ [][Next]_vars
=============================================================================

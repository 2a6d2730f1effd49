-------------------------------- MODULE Mirror --------------------------------
(***************************************************************************)
(* What the NamespaceSync and WebhookSync controllers promise, without how *)
(* they do it: the secondary has a copy of what is wanted.  The controller *)
(* looks at what is wanted, and then only brings the copy closer to what   *)
(* it saw: it puts what it saw and removes what it did not see.            *)
(***************************************************************************)
EXTENDS Naturals

CONSTANTS
  Names,      \* names of the copied objects
  Values,     \* what an object can look like
  None,       \* no object of that name
  Protected   \* names that are never removed

VARIABLES
  wanted,     \* what the controller has been told to have on the secondary
  view,       \* what it saw when it last looked
  have,       \* what is in use on the secondary
  leaving,    \* names that a removed object still holds
  foreign     \* how many times others have changed the secondary

vars == <<wanted, view, have, leaving, foreign>>

Contents == [Names -> Values \cup {None}]

Init ==
  /\ wanted \in Contents
  /\ view = [n \in Names |-> None]
  /\ have \in Contents
  /\ leaving = {}
  /\ foreign = 0

(* What is wanted changes.                                                 *)
Change == wanted' \in Contents /\ UNCHANGED <<view, have, leaving, foreign>>

(* Others change the secondary.                                            *)
Foreign(n) ==
  /\ \E v \in Values \cup {None} : have' = [have EXCEPT ![n] = v]
  /\ leaving' \in {leaving, leaving \cup {n}}
  /\ foreign' = foreign + 1
  /\ UNCHANGED <<wanted, view>>

(* A removed object is gone at last.  Nobody promises that it will be.     *)
Release(n) ==
  /\ n \in leaving /\ leaving' = leaving \ {n}
  /\ UNCHANGED <<wanted, view, have, foreign>>

Look == view' = wanted /\ UNCHANGED <<wanted, have, leaving, foreign>>

Put(n) ==
  /\ view[n] # None /\ n \notin leaving
  /\ have' = [have EXCEPT ![n] = view[n]]
  /\ UNCHANGED <<wanted, view, leaving, foreign>>

Remove(n) ==
  /\ view[n] = None /\ n \notin Protected /\ have[n] # None
  /\ have' = [have EXCEPT ![n] = None]
  /\ leaving' \in {leaving, leaving \cup {n}}
  /\ UNCHANGED <<wanted, view, foreign>>

Next ==
  \/ Change \/ Look
  \/ \E n \in Names : Put(n) \/ Remove(n) \/ Release(n) \/ Foreign(n)

Spec == Init /\ [][Next]_vars

(* The controller looks again when it is told something new, and finishes  *)
(* what it has seen to be missing or left over.                            *)
Fairness ==
  /\ WF_vars(Look)
  /\ \A n \in Names : WF_vars(Put(n)) /\ WF_vars(Remove(n))
=============================================================================

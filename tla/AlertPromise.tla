---------------------------- MODULE AlertPromise ----------------------------
(***************************************************************************)
(* What webhook notifications promise, whoever implements them: a source   *)
(* that turns critical while they are on is due one POST, to the URL that  *)
(* was in force at that moment; each POST pays one that is due, whatever   *)
(* becomes of it; and a time of the last POST is shown only after a POST,  *)
(* due or asked for with what is saved.  Nobody promises that one ends.    *)
(***************************************************************************)
EXTENDS Naturals

CONSTANTS
  Source,  \* what may turn critical
  Url,     \* where notifications may go
  None     \* no URL: notifications are off

VARIABLES
  known,   \* the sources known to be critical
  hook,    \* where a turn seen now is announced, or None
  saved,   \* what is saved as such, or None
  due,     \* due[s][u]: the POSTs about s to u that have not ended
  stamped  \* a time of the last POST is shown

pvars == <<known, hook, saved, due, stamped>>

Nothing == [s \in Source |-> [u \in Url |-> 0]]

PInit ==
  /\ known = {} /\ hook = None /\ saved = None
  /\ due = Nothing
  /\ stamped = FALSE

(* What is listed is critical or not; the rest stays as it was known.      *)
Observe(listed, crit) ==
  /\ known' = (known \ listed) \cup crit
  /\ due' = [s \in Source |-> [u \in Url |->
               IF s \in crit \ known /\ u = hook THEN due[s][u] + 1 ELSE due[s][u]]]
  /\ UNCHANGED <<hook, saved, stamped>>

Attempt(s, u) ==
  /\ due[s][u] > 0
  /\ due' = [due EXCEPT ![s][u] = @ - 1]
  /\ stamped' \in {stamped, TRUE}
  /\ UNCHANGED <<known, hook, saved>>

Save ==
  /\ saved' \in Url \cup {None}
  /\ UNCHANGED <<known, hook, due, stamped>>

Apply ==
  /\ hook' \in Url \cup {None}
  /\ UNCHANGED <<known, saved, due, stamped>>

Try ==
  /\ saved # None
  /\ stamped' \in {stamped, TRUE}
  /\ UNCHANGED <<known, hook, saved, due>>

(* A new daemon knows nothing and owes nothing. *)
Renew ==
  /\ known' = {} /\ due' = Nothing
  /\ hook' \in {None, saved}
  /\ UNCHANGED <<saved, stamped>>

PNext ==
  \/ \E listed \in SUBSET Source : \E crit \in SUBSET listed : Observe(listed, crit)
  \/ \E s \in Source, u \in Url : Attempt(s, u)
  \/ Save \/ Apply \/ Try \/ Renew

PSpec == PInit /\ [][PNext]_pvars
=============================================================================

------------------------ MODULE AttestationRegistry ------------------------
(***************************************************************************)
(* What the contract promises to those who read it.  Each (subject, type)  *)
(* pair has a log of records; records are only ever appended; what anyone  *)
(* reads as the current attestation of a pair is the last record of its    *)
(* log.  One step issues records for any number of pairs in the name of    *)
(* one attestor, or revokes one current attestation.                       *)
(***************************************************************************)
EXTENDS Integers, Sequences

CONSTANTS Pair, Attestor, Payload

VARIABLES
  log,      \* the records of each pair, oldest first
  current,  \* the current attestation of each pair that has one
  clock

Record == [attestor : Attestor, payload_hash : Payload, issued_at : Nat,
           expires_at : Nat, status : {"Active", "Revoked"}]

Last(l) == l[Len(l)]

Newest(logs) == [p \in {q \in Pair : logs[q] # << >>} |-> Last(logs[p])]

Init ==
  /\ log = [p \in Pair |-> << >>]
  /\ current = Newest(log)
  /\ clock \in Nat

\* attest and attest_batch
Issue(a) ==
  /\ log' \in [Pair -> Seq(Record)]
  /\ \A p \in Pair :
       /\ Len(log[p]) <= Len(log'[p])
       /\ \A n \in 1..Len(log[p]) : log'[p][n] = log[p][n]
       /\ \A n \in (Len(log[p]) + 1)..Len(log'[p]) :
            /\ log'[p][n].attestor = a
            /\ log'[p][n].issued_at = clock
            /\ log'[p][n].expires_at >= clock
            /\ log'[p][n].status = "Active"
  /\ current' = Newest(log')
  /\ UNCHANGED clock

Revoke(p) ==
  /\ log[p] # << >>
  /\ Last(log[p]).status = "Active"
  /\ log' = [log EXCEPT ![p] =
               Append(log[p], [Last(log[p]) EXCEPT !.status = "Revoked"])]
  /\ current' = Newest(log')
  /\ UNCHANGED clock

Tick == clock' \in Nat /\ clock' >= clock /\ UNCHANGED <<log, current>>

Next ==
  \/ \E a \in Attestor : Issue(a)
  \/ \E p \in Pair : Revoke(p)
  \/ Tick

Spec == Init /\ [][Next]_<<log, current, clock>>

=============================================================================

------------------------------- MODULE AuditLog -------------------------------
(***************************************************************************)
(* What the file-backed audit recorder (services/audit/records.py)         *)
(* promises to whoever reads the records: a list in memory that is served, *)
(* and a log on disk that only grows, holds nothing that was not recorded, *)
(* and is what a restarted server serves.  Between a record and its line   *)
(* in the log the two may differ, and lines may be in another order.       *)
(***************************************************************************)
EXTENDS Integers, Sequences, SequencesExt

CONSTANT AuditRecord

VARIABLES
    records,  \* the records the server answers with
    stored    \* the lines of the log

Init ==
    /\ records = <<>>
    /\ stored = <<>>

Occurrences(log, r) == Cardinality({n \in DOMAIN log : log[n] = r})

Record ==
    /\ Len(records') = Len(records) + 1
    /\ IsPrefix(records, records')
    /\ Last(records') \in AuditRecord
    /\ UNCHANGED stored

\* A record reaches the log once.
Store ==
    /\ \E r \in Range(records) :
          /\ Occurrences(stored, r) < Occurrences(records, r)
          /\ stored' = Append(stored, r)
    /\ UNCHANGED records

Reload ==
    /\ records' = stored
    /\ UNCHANGED stored

Next == Record \/ Store \/ Reload

Spec == Init /\ [][Next]_<<records, stored>>
=============================================================================

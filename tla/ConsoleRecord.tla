---------------------------- MODULE ConsoleRecord ----------------------------
(***************************************************************************)
(* What the audit trail promises about one console: an opening and a       *)
(* closing, each tried once and in that order.  What is tried is kept, or  *)
(* missed for good: never once the panel cannot write, and perhaps before. *)
(* For as long as it can write, a closing follows every opening tried.     *)
(***************************************************************************)
EXTENDS Sequences

VARIABLES record,    \* the entries about this console, oldest first
          missed,    \* the entries that were tried and not kept
          writing    \* the panel runs and its database is open

trail == <<record, missed, writing>>

Tried == {record[i] : i \in DOMAIN record} \cup missed

Init == record = <<>> /\ missed = {} /\ writing = TRUE

Try(entry) ==
  /\ \/ writing /\ record' = Append(record, entry) /\ UNCHANGED missed
     \/ missed' = missed \cup {entry} /\ UNCHANGED record
  /\ UNCHANGED writing

Open == Tried = {} /\ Try("opened")
Close == Tried = {"opened"} /\ Try("closed")
Stop == writing /\ writing' = FALSE /\ UNCHANGED <<record, missed>>

Next == Open \/ Close \/ Stop

Spec == Init /\ [][Next]_trail /\ WF_trail(writing /\ Close)
=============================================================================

--------------------------- MODULE BatteryReports ---------------------------
(***************************************************************************)
(* What the polling of the batteries promises to the status service,       *)
(* however many registers, retries and answers it takes: one report for    *)
(* each status of each battery, in turn; without an error exactly when a   *)
(* whole record of that battery was obtained since the report before; and  *)
(* a shallow record that is replaced at once, or left as it is.            *)
(***************************************************************************)
EXTENDS Integers

CONSTANTS
    NBat,        \* the number of batteries
    Told,        \* the records every field of which a battery has told
    AnyRecord,   \* those, and the ones that were read in part
    NoRecord     \* the shallow record before the first read

Bats == 0 .. NBat - 1

VARIABLES
    due,      \* the status and the battery of the next report
    got,      \* whether its record was obtained
    shallow,  \* the shallow record of each battery
    last      \* the last report

report_vars == <<due, got, shallow, last>>

ReportsInit ==
    /\ due = [what |-> "shallow", bat |-> 0]
    /\ got = FALSE
    /\ shallow = [b \in Bats |-> NoRecord]
    /\ last.err = "ERR"

Obtain ==
    /\ ~got
    /\ got' = TRUE
    /\ \/ /\ due.what = "shallow"
          /\ \E r \in Told["shallow"][due.bat] :
                shallow' = [shallow EXCEPT ![due.bat] = r]
       \/ due.what = "deep" /\ UNCHANGED shallow
    /\ UNCHANGED <<due, last>>

(* What a report says: the record as it stands, and whether it is new.     *)
Says(rec) == [what |-> due.what, bat |-> due.bat,
              err |-> IF got THEN "ESK8_OK" ELSE "ERR", rec |-> rec]

Deliver ==
    /\ \/ /\ due.what = "shallow"
          /\ due' = [due EXCEPT !.what = "deep"]
          /\ last' = Says(shallow[due.bat])
       \/ /\ due.what = "deep"
          /\ due' = [what |-> "shallow", bat |-> (due.bat + 1) % NBat]
          /\ \E r \in IF got THEN Told["deep"][due.bat] ELSE AnyRecord["deep"] :
                last' = Says(r)
    /\ got' = FALSE
    /\ UNCHANGED shallow

ReportsNext == Obtain \/ Deliver

ReportsSpec == ReportsInit /\ [][ReportsNext]_report_vars
=============================================================================

-------------------------------- MODULE Hall --------------------------------
(***************************************************************************)
(* What a restaurant keeps beside its menu: its staff and their accounts,  *)
(* the journal the report is restored from, its tables and the orders made *)
(* at them.  The parts share no variable, so each behaviour moves only one *)
(* of them: what holds of each part holds of all of them together.         *)
(***************************************************************************)
EXTENDS Staff, StaffReport, Tables

VARIABLE part

vars == <<staffVars, reportVars, tablesVars, part>>

Init == /\ StaffInit /\ ReportInit /\ TablesInit
        /\ part \in {"staff", "report", "tables"}

Next ==
  /\ UNCHANGED part
  /\ \/ part = "staff" /\ StaffNext /\ UNCHANGED <<reportVars, tablesVars>>
     \/ part = "report" /\ ReportNext /\ UNCHANGED <<staffVars, tablesVars>>
     \/ part = "tables" /\ TablesNext /\ UNCHANGED <<staffVars, reportVars>>

Spec == Init /\ [][Next]_vars

TypeOK == StaffTypeOK /\ ReportTypeOK /\ TablesTypeOK
=============================================================================

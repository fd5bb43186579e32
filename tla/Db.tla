--------------------------------- MODULE Db ---------------------------------
(***************************************************************************)
(* The database of db/ under one of the two generations of programs that   *)
(* write to it: programs with a DBhelper, or db_operation.cpp.  Their      *)
(* tables have different columns, so that a database serves only one.      *)
(* db_operation.cpp plays an upload, or downloads of a file: upload_stat   *)
(* and download_stat are columns of their own.                             *)
(***************************************************************************)
EXTENDS DbHelper, DbDemo, DbDownload

VARIABLE program \* the generation

vars == <<dbvars, demovars, playvars, program>>

Init == program \in {"helper", "demo", "download"} /\ HelperInit /\ DemoInit /\ PlayInit

Next == \/ /\ program = "helper"
           /\ \E h \in Helpers : HelperStep(h)
           /\ UNCHANGED <<demovars, playvars, program>>
        \/ program = "demo" /\ DemoNext /\ UNCHANGED <<dbvars, playvars, program>>
        \/ /\ program = "download"
           /\ \E p \in Players : PlayStep(p)
           /\ UNCHANGED <<dbvars, demovars, program>>

Spec == Init /\ [][Next]_vars

TypeOK == HelperTypeOK /\ DemoTypeOK /\ PlayTypeOK
=============================================================================

------------------------------- MODULE DbDemo -------------------------------
(***************************************************************************)
(* db/db_operation.cpp: a program that plays the upload of one file in the *)
(* database, one statement after the other.  The global STATUS keeps a     *)
(* failure: every later call returns at once and returns STATUS, which     *)
(* main stores again.  Each main statement "if((STATUS=f())!=0) STATUS=k"  *)
(* is an action; the values of STATUS are reduced to zero and not zero.    *)
(*                                                                         *)
(* A statement may fail before it took effect, or after it (the answer is  *)
(* lost).  The program may end anywhere and be started again.              *)
(***************************************************************************)
EXTENDS Integers

CONSTANT BLOCK_NUM

ASSUME DbDemoAssumption == BLOCK_NUM \in Nat \ {0}

VARIABLES row,     \* the file's row in files: its upload_stat, or NoRow
          created, \* is there a table AAAAA
          stat,    \* its rows: upload_stat of block b, or NoRow
          STATUS,  \* not zero
          line, i  \* main: the statement it comes to, and the block

demovars == <<row, created, stat, STATUS, line, i>>

NoRow   == 2
DemoIds == 0 .. BLOCK_NUM - 1

DemoInit == /\ row = NoRow /\ created = FALSE /\ stat = [b \in DemoIds |-> NoRow]
            /\ STATUS = FALSE /\ line = "initilize" /\ i = 0

\* Mistaken: a call looks at its own statement only.
CallAnyway(ok, effect, none) ==
  \/ ok /\ effect /\ STATUS' = FALSE
  \/ ok /\ effect /\ STATUS' = TRUE
  \/ none /\ STATUS' = TRUE

\* A call of a helper function.  ok: the database accepts the statement.
Call(ok, effect, none) ==
  \/ STATUS /\ none /\ UNCHANGED STATUS
  \/ ~STATUS /\ ok /\ effect /\ STATUS' \in BOOLEAN
  \/ ~STATUS /\ none /\ STATUS' = TRUE

On(from, to) == line = from /\ line' = to

\* The next round of a loop over the blocks, or what follows the loop.
Round(from, again, after) ==
  /\ line = from
  /\ IF i + 1 < BLOCK_NUM THEN line' = again /\ i' = i + 1 ELSE line' = after /\ i' = 0

\* Only what the second of the two calls returns stays in STATUS.
initilize_conn_db ==
  /\ On("initilize", "table")
  /\ STATUS' \in BOOLEAN
  /\ UNCHANGED <<row, created, stat, i>>

db_add_table ==
  /\ On("table", "files")
  /\ Call(~created, created' = TRUE, UNCHANGED created)
  /\ UNCHANGED <<row, stat, i>>

db_add_row_files ==
  /\ On("files", "block")
  /\ Call(row = NoRow, row' = 0, UNCHANGED row)
  /\ UNCHANGED <<created, stat, i>>

\* A row of a block.
db_add_row ==
  /\ On("block", "shown")
  /\ Call(created /\ stat[i] = NoRow, stat' = [stat EXCEPT ![i] = 0], UNCHANGED stat)
  /\ UNCHANGED <<row, created, i>>

\* db_query after db_add_row.
db_query ==
  /\ Round("shown", "block", "update")
  /\ Call(TRUE, TRUE, TRUE)
  /\ UNCHANGED <<row, created, stat>>

\* An UPDATE of no row is no failure.
db_update_upload ==
  /\ On("update", "check")
  /\ Call(created,
          stat' = [b \in DemoIds |-> IF b = i /\ stat[b] # NoRow THEN 1 ELSE stat[b]],
          UNCHANGED stat)
  /\ UNCHANGED <<row, created, i>>

\* True when there is no row with upload_stat 0.
check_upload_true ==
  /\ ~STATUS /\ created /\ \A b \in DemoIds : stat[b] # 0
  /\ On("check", "complete")
  /\ UNCHANGED <<row, created, stat, STATUS, i>>

\* False also when the query fails, which STATUS does not record.
check_upload_false ==
  /\ Round("check", "update", "close")
  /\ UNCHANGED <<row, created, stat, STATUS>>

db_update_files ==
  /\ Round("complete", "update", "close")
  /\ Call(TRUE, row' = (IF row = NoRow THEN row ELSE 1), UNCHANGED row)
  /\ UNCHANGED <<created, stat>>

\* The end of main, or of the process, and a new start.
Restart ==
  /\ STATUS' = FALSE /\ line' = "initilize" /\ i' = 0
  /\ UNCHANGED <<row, created, stat>>

DemoNext == \/ initilize_conn_db \/ db_add_table \/ db_add_row_files \/ db_add_row \/ db_query
            \/ db_update_upload \/ check_upload_true \/ check_upload_false \/ db_update_files
            \/ Restart

-----------------------------------------------------------------------------
DemoTypeOK ==
  /\ row \in 0 .. 2 /\ created \in BOOLEAN /\ stat \in [DemoIds -> 0 .. 2]
  /\ STATUS \in BOOLEAN /\ i \in DemoIds
  /\ line \in {"initilize", "table", "files", "block", "shown", "update", "check", "complete", "close"}

(* files says that the upload is complete only when every block has a row  *)
(* that says so: whichever statements failed, whichever answers were lost, *)
(* and wherever programs ended that ran before.                            *)
DemoComplete == row = 1 => \A b \in DemoIds : stat[b] = 1
=============================================================================

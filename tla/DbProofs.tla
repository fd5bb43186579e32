------------------------------ MODULE DbProofs ------------------------------
(***************************************************************************)
(* What holds of the database for every number of blocks, of programs and  *)
(* of files.                                                               *)
(***************************************************************************)
EXTENDS Db, FiniteSetTheorems, NaturalsInduction, TLAPS

-----------------------------------------------------------------------------
(* db_operation.cpp.  While STATUS is zero, the statements that main has    *)
(* passed took effect.                                                      *)
Inserted(S) == \A b \in S : stat[b] # NoRow

Passed ==
  /\ line = "block" => Inserted({b \in DemoIds : b < i})
  /\ line = "shown" => Inserted({b \in DemoIds : b <= i})
  /\ line \in {"update", "check", "complete"} => Inserted(DemoIds)
  /\ line = "complete" => \A b \in DemoIds : stat[b] = 1

DemoTypes == /\ row \in 0 .. 2 /\ stat \in [DemoIds -> 0 .. 2] /\ i \in DemoIds
             /\ line \in {"initilize", "table", "files"} => i = 0

DemoInv == DemoTypes /\ (~STATUS => Passed) /\ DemoComplete

(* DemoInv holds of an empty database. *)
LEMMA DemoInitInv == DemoInit => DemoInv
<1> SUFFICES ASSUME DemoInit PROVE DemoInv
  OBVIOUS
<1> USE DbDemoAssumption DEF DemoInit, DemoIds, NoRow
<1>1. DemoTypes
  BY DEF DemoTypes
<1>2. Passed /\ DemoComplete
  BY DEF Passed, DemoComplete
<1> QED BY <1>1, <1>2 DEF DemoInv

(* Every statement of main preserves it, and the next start does.           *)
LEMMA DemoNextInv == DemoInv /\ [DemoNext]_demovars => DemoInv'
<1> SUFFICES ASSUME DemoInv, [DemoNext]_demovars PROVE DemoInv'
  OBVIOUS
<1> USE DbDemoAssumption DEF DemoInv, DemoTypes, DemoComplete, DemoIds, NoRow
<1>1. CASE initilize_conn_db
  BY <1>1 DEF initilize_conn_db, On, Passed
<1>2. CASE db_add_table
  <2>1. DemoTypes' /\ DemoComplete'
    BY <1>2 DEF db_add_table, On, Call
  <2>2. ~STATUS' => Passed'
    BY <1>2 DEF db_add_table, On, Call, Passed, Inserted
  <2> QED BY <2>1, <2>2
<1>3. CASE db_add_row_files
  <2>1. DemoTypes' /\ DemoComplete'
    BY <1>3 DEF db_add_row_files, On, Call
  <2>2. ~STATUS' => Passed'
    BY <1>3 DEF db_add_row_files, On, Call, Passed, Inserted
  <2> QED BY <2>1, <2>2
<1>4. CASE db_add_row
  <2>1. DemoTypes' /\ DemoComplete'
    BY <1>4 DEF db_add_row, On, Call
  <2>2. ~STATUS' => Passed'
    BY <1>4 DEF db_add_row, On, Call, Passed, Inserted
  <2> QED BY <2>1, <2>2
<1>5. CASE db_query
  <2>1. DemoTypes' /\ DemoComplete'
    BY <1>5 DEF db_query, Round, Call
  <2>2. ~STATUS' => Passed'
    BY <1>5 DEF db_query, Round, Call, Passed, Inserted
  <2> QED BY <2>1, <2>2
<1>6. CASE db_update_upload
  <2>1. DemoTypes' /\ DemoComplete'
    BY <1>6 DEF db_update_upload, On, Call
  <2>2. ~STATUS' => Passed'
    BY <1>6 DEF db_update_upload, On, Call, Passed, Inserted
  <2> QED BY <2>1, <2>2
<1>7. CASE check_upload_true
  BY <1>7 DEF check_upload_true, On, Passed, Inserted
<1>8. CASE check_upload_false
  BY <1>8 DEF check_upload_false, Round, Passed, Inserted
<1>9. CASE db_update_files
  <2>1. DemoTypes' /\ DemoComplete'
    BY <1>9 DEF db_update_files, Round, Call, Passed
  <2>2. ~STATUS' => Passed'
    BY <1>9 DEF db_update_files, Round, Call, Passed, Inserted
  <2> QED BY <2>1, <2>2
<1>10. CASE Restart
  BY <1>10 DEF Restart, Passed
<1>11. CASE UNCHANGED demovars
  BY <1>11 DEF demovars, Passed, Inserted
<1> QED
  BY <1>1, <1>2, <1>3, <1>4, <1>5, <1>6, <1>7, <1>8, <1>9, <1>10, <1>11 DEF DemoNext

(* db/db_operation.cpp, for every BLOCK_NUM: files says complete only when  *)
(* every block has a row that is marked.                                    *)
THEOREM DemoIsComplete == Spec => []DemoComplete
<1>1. Init => DemoInv
  BY DemoInitInv DEF Init
<1>2. DemoInv /\ [Next]_vars => DemoInv'
  BY DemoNextInv DEF Next, vars, demovars
<1>3. DemoInv => DemoComplete
  BY DEF DemoInv
<1> QED BY <1>1, <1>2, <1>3, PTL DEF Spec

-----------------------------------------------------------------------------
(* DBhelper.  A program that comes to the insert into files has a table.    *)
PCs == {"idle", "dead", "exist", "table", "row", "md5", "upload", "status"}

Programs == [pc : PCs,
             name : Names \cup {""}, i : Int, round : Int, file_cnt : Int, conn : BOOLEAN,
             complete : SUBSET Names]

(* The updates of the record of a program that statements make.             *)
LEMMA ProgramFields ==
  ASSUME NEW p \in Programs
  PROVE  /\ p.i \in Int /\ p.round \in Int /\ p.file_cnt \in Int /\ p.conn \in BOOLEAN
         /\ p.complete \in SUBSET Names
BY DEF Programs, PCs

FileRows == [id : Int, name : Names, block_num : Int]

HelperInv ==
  /\ files \in Seq(FileRows)
  /\ hp \in [Helpers -> Programs]
  /\ \A h \in Helpers : Working(h) => hp[h].name \in Names
  /\ \A h \in Helpers : hp[h].pc = "row" /\ hp[h].conn => hp[h].name \in DOMAIN tables
  /\ RowHasTable

(* It holds of an empty database. *)
LEMMA HelperInitInv == HelperInit => HelperInv
<1> SUFFICES ASSUME HelperInit PROVE HelperInv
  OBVIOUS
<1>1. \A p \in conn_db : p \in Programs /\ p.pc = "idle"
  <2> SUFFICES ASSUME NEW up \in BOOLEAN
               PROVE  [Idle EXCEPT !.conn = up] \in Programs /\ [Idle EXCEPT !.conn = up].pc = "idle"
    BY Zenon DEF conn_db
  <2>1. Idle \in Programs /\ Idle.pc = "idle"
    BY DEF Idle, Programs, PCs
  <2> QED
    BY <2>1 DEF Programs
<1>2. files = <<>> /\ hp \in [Helpers -> conn_db]
  BY DEF HelperInit
<1>3. hp \in [Helpers -> Programs] /\ \A h \in Helpers : hp[h].pc = "idle"
  BY <1>1, <1>2
<1> QED
  BY <1>2, <1>3 DEF HelperInv, Working, RowHasTable

(* A step of program h that keeps the tables, and adds only rows that have  *)
(* one, keeps the invariant.                                                *)
LEMMA ProgramStep ==
  ASSUME HelperInv, NEW h \in Helpers, NEW p \in Programs,
         hp' = [hp EXCEPT ![h] = p],
         p.pc \notin {"idle", "dead"} => p.name \in Names,
         p.pc = "row" /\ p.conn => p.name \in DOMAIN tables',
         DOMAIN tables \subseteq DOMAIN tables',
         files' \in Seq(FileRows), RowHasTable'
  PROVE  HelperInv'
<1>1. hp' \in [Helpers -> Programs] /\ \A g \in Helpers : hp'[g] = IF g = h THEN p ELSE hp[g]
  BY DEF HelperInv
<1>2. \A g \in Helpers : Working(g)' => hp'[g].name \in Names
  BY <1>1 DEF HelperInv, Working
<1>3. \A g \in Helpers : hp'[g].pc = "row" /\ hp'[g].conn => hp'[g].name \in DOMAIN tables'
  BY <1>1 DEF HelperInv
<1> QED BY <1>1, <1>2, <1>3 DEF HelperInv

(* The round of a loop over the blocks, with what it leaves of a program.   *)
LEMMA BlockLoop ==
  ASSUME NEW h \in Helpers, hp[h] \in Programs, NEW then \in PCs, NextBlock(h, then)
  PROVE  \E p \in Programs :
           /\ hp' = [hp EXCEPT ![h] = p]
           /\ p.name = hp[h].name /\ p.conn = hp[h].conn /\ p.complete = hp[h].complete
           /\ IF hp[h].i + 1 = Blocks(hp[h].name) THEN p.pc = then /\ p.i = 0
              ELSE p.pc = hp[h].pc /\ p.i = hp[h].i + 1
<1> DEFINE last == hp[h].i + 1 = Blocks(hp[h].name)
           r == hp[h]
           e == IF last THEN then ELSE hp[h].pc
           k == IF last THEN 0 ELSE hp[h].i + 1
           p == [r EXCEPT !.pc = e, !.i = k]
<1>1. hp' = [hp EXCEPT ![h] = p]
  BY DEF NextBlock
<1>2. r \in Programs /\ e \in PCs
  BY DEF Programs
<1>3. k \in Int
  BY ProgramFields
<1>4. IF last THEN e = then /\ k = 0 ELSE e = hp[h].pc /\ k = hp[h].i + 1
  OBVIOUS
<1> HIDE DEF r, e, k
<1>5. /\ p \in Programs /\ p.pc = e /\ p.i = k /\ p.name = r.name /\ p.conn = r.conn
      /\ p.complete = r.complete
  BY <1>2, <1>3 DEF Programs
<1> QED BY <1>1, <1>4, <1>5 DEF r

(* A statement on the rows of a table keeps the tables. *)
LEMMA TablesStay ==
  ASSUME NEW h \in Helpers, NEW t, OnTable(h, t)
  PROVE  DOMAIN tables' = DOMAIN tables /\ UNCHANGED files
BY DEF OnTable

(* Every statement keeps the tables; only db_add_file_row adds a row, after *)
(* db_add_file_table on the same connection.                                *)
LEMMA HelperNextInv ==
  ASSUME HelperInv, NEW h \in Helpers, HelperStep(h)
  PROVE  HelperInv'
<1>0. /\ hp[h] \in Programs /\ hp \in [Helpers -> Programs]
      /\ files \in Seq(FileRows) /\ RowHasTable
      /\ Working(h) => hp[h].name \in Names
      /\ hp[h].pc = "row" /\ hp[h].conn => hp[h].name \in DOMAIN tables
  BY DEF HelperInv
<1>a. ASSUME NEW p \in Programs, hp' = [hp EXCEPT ![h] = p],
             p.pc \notin {"idle", "dead", "row"}, p.name \in Names,
             UNCHANGED files, DOMAIN tables \subseteq DOMAIN tables'
      PROVE  HelperInv'
  BY <1>0, <1>a, ProgramStep DEF RowHasTable
<1>b. ASSUME NEW p \in Programs, hp' = [hp EXCEPT ![h] = p],
             p.pc \in {"idle", "dead"}, UNCHANGED <<files, tables>>
      PROVE  HelperInv'
  BY <1>0, <1>b, ProgramStep DEF RowHasTable
<1>1. ASSUME NEW n \in Names, Begin(h, n) PROVE HelperInv'
  <2> DEFINE p == [hp[h] EXCEPT !.pc = "exist", !.name = n, !.i = 0, !.round = @ + 1]
  <2>1. p \in Programs /\ p.pc = "exist" /\ p.name = n
    <3> DEFINE r == hp[h]  e == "exist"  z == 0  k == hp[h].round + 1
    <3>1. r \in Programs /\ e \in PCs /\ z \in Int /\ k \in Int
      BY <1>0, ProgramFields DEF PCs
    <3> HIDE DEF r, e, z, k
    <3>2. LET q == [r EXCEPT !.pc = e, !.name = n, !.i = z, !.round = k]
          IN q \in Programs /\ q.pc = e /\ q.name = n
      BY <3>1 DEF Programs
    <3> QED BY <3>2 DEF r, e, z, k
  <2>2. hp' = [hp EXCEPT ![h] = p]
    BY <1>1 DEF Begin
  <2> HIDE DEF p
  <2> QED BY <1>1, <1>a, <2>1, <2>2 DEF Begin
<1>2. ASSUME NEW n \in Names, get_block_num(h, n) PROVE HelperInv'
  <2> DEFINE p == [hp[h] EXCEPT !.pc = "dead"]
  <2>1. p \in Programs /\ p.pc = "dead"
    BY <1>0 DEF Programs, PCs
  <2>2. hp' = [hp EXCEPT ![h] = p]
    BY <1>2 DEF get_block_num, Goto
  <2> HIDE DEF p
  <2> QED BY <1>2, <1>b, <2>1, <2>2 DEF get_block_num, Keep
<1>2a. ASSUME NEW n \in Names, get_block_md5(h, n) PROVE HelperInv'
  <2> DEFINE p == [hp[h] EXCEPT !.pc = "dead"]
  <2>1. p \in Programs /\ p.pc = "dead"
    BY <1>0 DEF Programs, PCs
  <2>2. hp' = [hp EXCEPT ![h] = p]
    BY <1>2a DEF get_block_md5, Goto
  <2> HIDE DEF p
  <2> QED BY <1>2a, <1>b, <2>1, <2>2 DEF get_block_md5, Keep
<1>3. CASE Exists(h)
  <2> DEFINE l == IF hp[h].conn /\ check_file_exist(hp[h].name) THEN "md5" ELSE "table"
             p == [hp[h] EXCEPT !.pc = l]
  <2>1. p \in Programs /\ p.pc \in {"md5", "table"} /\ p.name \in Names
    BY <1>0, <1>3 DEF Programs, PCs, Exists, Working
  <2>2. hp' = [hp EXCEPT ![h] = p]
    BY <1>3 DEF Exists, Goto
  <2> HIDE DEF p
  <2> QED BY <1>3, <1>a, <2>1, <2>2 DEF Exists, Keep
<1>4. CASE hp[h].pc = "table" /\ create_file(h)
  <2> DEFINE p == [hp[h] EXCEPT !.pc = "row"]
  <2>1. p \in Programs /\ p.pc = "row" /\ p.name = hp[h].name /\ p.conn = hp[h].conn
    BY <1>0 DEF Programs, PCs
  <2>2. hp' = [hp EXCEPT ![h] = p] /\ UNCHANGED files
    BY <1>4 DEF create_file, Goto
  <2>3. hp[h].name \in Names
    BY <1>0, <1>4 DEF Working
  <2>4. /\ DOMAIN tables \subseteq DOMAIN tables'
        /\ hp[h].conn => hp[h].name \in DOMAIN tables'
    BY <1>4 DEF create_file, db_add_file_table
  <2> HIDE DEF p
  <2> QED BY <1>0, <2>1, <2>2, <2>3, <2>4, ProgramStep DEF RowHasTable
<1>5. CASE hp[h].pc = "row" /\ create_file(h)
  <2>1. hp[h].name \in Names /\ UNCHANGED tables
    BY <1>0, <1>5 DEF Working, create_file
  <2>2. CASE hp[h].conn
    <3> DEFINE new == [id |-> hp[h].file_cnt, name |-> hp[h].name, block_num |-> Blocks(hp[h].name)]
    <3>1. new \in FileRows /\ new.name \in DOMAIN tables
      <4>1. Blocks(hp[h].name) \in Int
        BY <2>1, DbHelperAssumption DEF Blocks
      <4>2. hp[h].file_cnt \in Int
        BY <1>0, ProgramFields
      <4> QED BY <1>0, <1>5, <2>1, <2>2, <4>1, <4>2 DEF FileRows
    <3>2. files' = Append(files, new)
      BY <1>5, <2>2 DEF create_file, db_add_file_row
    <3> HIDE DEF new
    <3>3. files' \in Seq(FileRows) /\ RowHasTable'
      BY <1>0, <2>1, <3>1, <3>2 DEF RowHasTable
    <3>4. PICK p \in Programs : hp' = [hp EXCEPT ![h] = p] /\ p.pc = "md5" /\ p.name = hp[h].name
      <4> DEFINE r == hp[h]  e == "md5"  k == hp[h].file_cnt + 1
                 p == [r EXCEPT !.pc = e, !.file_cnt = k]
      <4>1. r \in Programs /\ e \in PCs /\ k \in Int
        BY <1>0, ProgramFields DEF PCs
      <4>2. hp' = [hp EXCEPT ![h] = p]
        BY <1>5, <2>2 DEF create_file
      <4> HIDE DEF r, e, k
      <4>3. p \in Programs /\ p.pc = e /\ p.name = r.name
        BY <4>1 DEF Programs
      <4> QED BY <4>2, <4>3 DEF r, e
    <3> QED BY <2>1, <3>3, <3>4, ProgramStep
  <2>3. CASE ~hp[h].conn
    <3> DEFINE p == [hp[h] EXCEPT !.pc = "md5"]
    <3>1. p \in Programs /\ p.pc = "md5" /\ p.name = hp[h].name
      BY <1>0 DEF Programs, PCs
    <3>2. hp' = [hp EXCEPT ![h] = p] /\ UNCHANGED files
      BY <1>5, <2>3 DEF create_file, Goto
    <3> HIDE DEF p
    <3> QED BY <1>a, <2>1, <3>1, <3>2
  <2> QED BY <2>2, <2>3
<1>6. CASE set_block_md5(h)
  <2>1. hp[h].name \in Names /\ UNCHANGED files /\ DOMAIN tables \subseteq DOMAIN tables'
    BY <1>0, <1>6, TablesStay DEF Working, set_block_md5, Keep, OnTable
  <2>2. PICK p \in Programs : /\ hp' = [hp EXCEPT ![h] = p]
                              /\ p.pc \in {"md5", "upload"} /\ p.name = hp[h].name
    BY <1>0, <1>6, BlockLoop DEF set_block_md5, PCs
  <2> QED BY <1>a, <2>1, <2>2
<1>7. CASE Uploaded(h)
  <2>1. hp[h].name \in Names /\ UNCHANGED files /\ DOMAIN tables \subseteq DOMAIN tables'
    BY <1>0, <1>7, TablesStay DEF Working, Uploaded, Keep, OnTable
  <2>2. PICK p \in Programs : /\ hp' = [hp EXCEPT ![h] = p]
                              /\ p.pc \in {"upload", "status"} /\ p.name = hp[h].name
    BY <1>0, <1>7, BlockLoop DEF Uploaded, PCs
  <2> QED BY <1>a, <2>1, <2>2
<1>8. CASE Stop(h)
  <2> DEFINE p == [hp[h] EXCEPT !.pc = "status"]
  <2>1. p \in Programs /\ p.pc = "status" /\ p.name = hp[h].name
    BY <1>0 DEF Programs, PCs
  <2>2. hp' = [hp EXCEPT ![h] = p]
    BY <1>8 DEF Stop, Goto
  <2> HIDE DEF p
  <2> QED BY <1>0, <1>8, <1>a, <2>1, <2>2 DEF Stop, Keep, Working
<1>9. CASE Check(h)
  <2> DEFINE r == hp[h]  e == "idle"  z == 0
             c == IF HasTable(h) /\ check_upload_status(tables[hp[h].name])
                  THEN hp[h].complete \cup {hp[h].name} ELSE hp[h].complete
             p == [r EXCEPT !.pc = e, !.i = z, !.complete = c]
  <2>1. c \in SUBSET Names
    BY <1>0, <1>9, ProgramFields DEF Check, Working
  <2>2. r \in Programs /\ e \in PCs /\ z \in Int
    BY <1>0 DEF PCs
  <2>3. hp' = [hp EXCEPT ![h] = p] /\ UNCHANGED <<files, tables>>
    BY <1>9 DEF Check, Keep
  <2> HIDE DEF r, e, z, c
  <2>4. p \in Programs /\ p.pc = e
    BY <2>1, <2>2 DEF Programs
  <2> HIDE DEF p
  <2> QED BY <1>b, <2>3, <2>4 DEF e
<1>10. CASE LoseConnection(h)
  <2> DEFINE p == [hp[h] EXCEPT !.conn = FALSE]
  <2>1. p \in Programs /\ p.pc = hp[h].pc /\ p.name = hp[h].name /\ ~p.conn
    BY <1>0 DEF Programs
  <2>2. hp' = [hp EXCEPT ![h] = p] /\ UNCHANGED <<files, tables>>
    BY <1>10 DEF LoseConnection, Keep
  <2>3. hp[h].name \in Names
    BY <1>0, <1>10 DEF LoseConnection
  <2> HIDE DEF p
  <2> QED BY <1>0, <2>1, <2>2, <2>3, ProgramStep DEF RowHasTable
<1>11. CASE End(h)
  <2> DEFINE p == [hp[h] EXCEPT !.pc = "dead"]
  <2>1. p \in Programs /\ p.pc = "dead" /\ p.name = hp[h].name
    BY <1>0 DEF Programs, PCs
  <2>2. hp' = [hp EXCEPT ![h] = p]
    BY <1>11 DEF End, Goto
  <2> HIDE DEF p
  <2> QED BY <1>0, <1>11, <1>b, <2>1, <2>2 DEF End, Keep, Working
<1> QED
  BY <1>1, <1>2, <1>2a, <1>3, <1>4, <1>5, <1>6, <1>7, <1>8, <1>9, <1>10, <1>11
     DEF HelperStep, create_file

(* DBhelper, for any number of programs and files, and whichever end        *)
(* between two statements: a row of files has its table.                    *)
THEOREM RowsHaveTables == Spec => []RowHasTable
<1>1. Init => HelperInv
  BY HelperInitInv DEF Init
<1>2. HelperInv /\ [Next]_vars => HelperInv'
  <2> SUFFICES ASSUME HelperInv, [Next]_vars PROVE HelperInv'
    OBVIOUS
  <2>1. ASSUME NEW h \in Helpers, HelperStep(h) PROVE HelperInv'
    BY <2>1, HelperNextInv
  <2>2. CASE UNCHANGED dbvars
    BY <2>2 DEF dbvars, HelperInv, RowHasTable, Working
  <2> QED BY <2>1, <2>2 DEF Next, vars
<1>3. HelperInv => RowHasTable
  BY DEF HelperInv
<1> QED BY <1>1, <1>2, <1>3, PTL DEF Spec

-----------------------------------------------------------------------------
(* The rows of a table belong to the blocks of its file, one for each MD5.  *)
BlockRows(n) == {Row(k, Md5s[n][k + 1], s) : k \in 0 .. Blocks(n) - 1, s \in {0, 1}}

GoodTable(n, t) == t \subseteq BlockRows(n) /\ \A x, y \in t : x.block_md5 = y.block_md5 => x = y

HasRow(n, j) == \E x \in tables[n] : x.block_md5 = Md5s[n][j]

IsMarked(n, j) == \E x \in tables[n] : x.block_md5 = Md5s[n][j] /\ x.upload_stat = 1

Done(n) == n \in DOMAIN tables /\ Rows(n) # {} /\ \A j \in 1 .. Blocks(n) : IsMarked(n, j)

(* What a program has seen and done on the connection that it still has.    *)
Stage(p) ==
  /\ p.pc \in {"exist", "table", "row"} => p.i = 0
  /\ p.pc \in {"md5", "upload"} => p.i \in 0 .. Blocks(p.name) - 1
  /\ p.conn =>
       /\ p.pc \in {"table", "row"} /\ ~raced => Rows(p.name) = {}
       /\ p.pc \in {"md5", "upload", "status"} => p.name \in DOMAIN tables /\ Rows(p.name) # {}
       /\ p.pc = "md5" => \A j \in 1 .. p.i : HasRow(p.name, j)
       /\ p.pc \in {"upload", "status"} => \A j \in 1 .. Blocks(p.name) : HasRow(p.name, j)

GoodTables == \A n \in DOMAIN tables : n \in Names /\ GoodTable(n, tables[n])

OneRow == \A n \in Names : \A k, j \in Rows(n) : k = j

HelperOrder ==
  /\ GoodTables
  /\ \A h \in Helpers : Stage(hp[h]) /\ \A n \in hp[h].complete : Done(n)
  /\ ~raced => OneRow /\ \A g, h \in Helpers : g # h /\ Working(g) /\ Working(h) => hp[g].name # hp[h].name

(* Tables and rows are never taken away, and marks neither.                 *)
Grow ==
  /\ DOMAIN tables \subseteq DOMAIN tables'
  /\ \A n \in DOMAIN tables : \A x \in tables[n] :
       \E y \in tables'[n] : y.block_md5 = x.block_md5 /\ (x.upload_stat = 1 => y.upload_stat = 1)
  /\ \A n \in Names : Rows(n) \subseteq Rows(n)'
  /\ raced => raced'

(* So a row that a program has seen, and a file that is done, stay.         *)
LEMMA GrowKeeps ==
  ASSUME Grow
  PROVE  /\ \A n \in DOMAIN tables : \A j : (HasRow(n, j) => HasRow(n, j)') /\ (IsMarked(n, j) => IsMarked(n, j)')
         /\ \A n \in Names : Done(n) => Done(n)'
<1>1. ASSUME NEW n \in DOMAIN tables, NEW j, HasRow(n, j) PROVE HasRow(n, j)'
  <2>1. PICK x \in tables[n] : x.block_md5 = Md5s[n][j]
    BY <1>1 DEF HasRow
  <2>2. PICK y \in tables'[n] : y.block_md5 = x.block_md5
    BY <2>1 DEF Grow
  <2> QED BY <2>1, <2>2 DEF HasRow
<1>2. ASSUME NEW n \in DOMAIN tables, NEW j, IsMarked(n, j) PROVE IsMarked(n, j)'
  <2>1. PICK x \in tables[n] : x.block_md5 = Md5s[n][j] /\ x.upload_stat = 1
    BY <1>2 DEF IsMarked
  <2>2. PICK y \in tables'[n] : y.block_md5 = x.block_md5 /\ y.upload_stat = 1
    BY <2>1 DEF Grow
  <2> QED BY <2>1, <2>2 DEF IsMarked
<1>3. ASSUME NEW n \in Names, Done(n) PROVE Done(n)'
  <2>1. n \in DOMAIN tables' /\ Rows(n)' # {}
    BY <1>3 DEF Done, Grow
  <2>2. n \in DOMAIN tables /\ \A j \in 1 .. Blocks(n) : IsMarked(n, j)
    BY <1>3 DEF Done
  <2>3. ASSUME NEW j \in 1 .. Blocks(n) PROVE IsMarked(n, j)'
    BY <2>2, <1>2
  <2> QED BY <2>1, <2>3 DEF Done, Blocks
<1> QED BY <1>1, <1>2, <1>3

(* What a program has seen of a file stays true whatever another one does,  *)
(* unless that one inserts the row of this file.                            *)
LEMMA StageStays ==
  ASSUME Grow, NEW p \in Programs, Stage(p), p.pc \notin {"idle", "dead"} => p.name \in Names,
         p.pc \in {"table", "row"} /\ ~raced' => Rows(p.name)' = Rows(p.name)
  PROVE  Stage(p)'
<1>1. /\ p.pc \in {"exist", "table", "row"} => p.i = 0
      /\ p.pc \in {"md5", "upload"} => p.i \in 0 .. Blocks(p.name) - 1
  BY DEF Stage
<1>2. ASSUME p.conn, p.pc \in {"table", "row"}, ~raced' PROVE Rows(p.name)' = {}
  BY <1>2 DEF Stage, Grow
<1>3. ASSUME p.conn, p.pc \in {"md5", "upload", "status"} PROVE p.name \in DOMAIN tables' /\ Rows(p.name)' # {}
  BY <1>3 DEF Stage, Grow
<1>4. ASSUME p.conn, p.pc = "md5", NEW j \in 1 .. p.i PROVE HasRow(p.name, j)'
  BY <1>4, GrowKeeps DEF Stage
<1>5. ASSUME p.conn, p.pc \in {"upload", "status"}, NEW j \in 1 .. Blocks(p.name) PROVE HasRow(p.name, j)'
  BY <1>5, GrowKeeps DEF Stage
<1> QED BY <1>1, <1>2, <1>3, <1>4, <1>5 DEF Stage

(* A step of program h to p that takes nothing away keeps the order.        *)
LEMMA OrderStep ==
  ASSUME HelperInv, HelperOrder, NEW h \in Helpers, NEW p \in Programs, hp' = [hp EXCEPT ![h] = p],
         Grow, GoodTables', Stage(p)', \A n \in p.complete : n \in hp[h].complete \/ Done(n)',
         ~raced' => OneRow',
         ~raced' => \A n \in Names : (n = hp[h].name /\ Working(h)) \/ Rows(n)' = Rows(n),
         ~raced' /\ p.pc \notin {"idle", "dead"} =>
            \/ Working(h) /\ p.name = hp[h].name
            \/ \A g \in Helpers \ {h} : Working(g) => hp[g].name # p.name
  PROVE  HelperOrder'
<1>1. \A g \in Helpers : hp'[g] = (IF g = h THEN p ELSE hp[g]) /\ hp[g] \in Programs
  BY DEF HelperInv
<1>2. ASSUME NEW g \in Helpers PROVE Stage(hp[g])'
  <2>1. CASE g = h
    <3>1. hp'[g] = p
      BY <1>1, <2>1
    <3> QED BY <3>1
  <2>2. CASE g # h
    <3>1. PICK q \in Programs : q = hp[g] /\ q = hp'[g]
      BY <1>1, <2>2
    <3>2. Stage(q) /\ (q.pc \notin {"idle", "dead"} => q.name \in Names)
      BY <3>1 DEF HelperOrder, HelperInv, Working
    <3>3. q.pc \in {"table", "row"} /\ ~raced' => Rows(q.name)' = Rows(q.name)
      BY <2>2, <3>1, <3>2 DEF HelperOrder, Working, Grow
    <3>4. Stage(q)'
      BY <3>2, <3>3, StageStays
    <3> QED BY <3>1, <3>4
  <2> QED BY <2>1, <2>2
<1>3. ASSUME NEW g \in Helpers, NEW n \in hp'[g].complete PROVE Done(n)'
  <2>1. n \in hp[g].complete \/ Done(n)'
    BY <1>1, <1>3
  <2>2. n \in hp[g].complete => n \in Names /\ Done(n)
    BY <1>1 DEF HelperOrder, Programs
  <2> QED BY <2>1, <2>2, GrowKeeps
<1>4. ASSUME ~raced', NEW f \in Helpers, NEW g \in Helpers, f # g, Working(f)', Working(g)'
      PROVE  hp'[f].name # hp'[g].name
  <2>1. \A q \in Helpers : q # h => hp'[q] = hp[q] /\ (Working(q)' <=> Working(q))
    BY <1>1 DEF Working
  <2>2. hp'[h] = p /\ (Working(h)' <=> p.pc \notin {"idle", "dead"})
    BY <1>1 DEF Working
  <2>3. ~raced
    BY <1>4 DEF Grow
  <2> QED BY <1>4, <2>1, <2>2, <2>3 DEF HelperOrder
<1> QED BY <1>2, <1>3, <1>4 DEF HelperOrder

(* A step that touches no table keeps the order when p is true to it.       *)
LEMMA QuietStep ==
  ASSUME HelperInv, HelperOrder, NEW h \in Helpers, NEW p \in Programs, hp' = [hp EXCEPT ![h] = p],
         UNCHANGED <<files, tables, raced>>, Stage(p),
         \A n \in p.complete : n \in hp[h].complete \/ Done(n),
         p.pc \notin {"idle", "dead"} => Working(h) /\ p.name = hp[h].name
  PROVE  HelperOrder'
<1>1. \A n \in Names : Rows(n)' = Rows(n)
  BY DEF Rows
<1>2. Grow
  BY <1>1 DEF Grow
<1>3. GoodTables' /\ Stage(p)' /\ (~raced' => OneRow')
  <2>1. GoodTables' /\ (~raced' => OneRow')
    BY <1>1 DEF HelperOrder, GoodTables, OneRow
  <2>2. Stage(p)'
    BY DEF Stage, HasRow, Rows
  <2> QED BY <2>1, <2>2
<1>4. \A n \in p.complete : n \in hp[h].complete \/ Done(n)'
  <2>1. \A n \in p.complete : n \in Names
    BY DEF Programs
  <2> QED BY <2>1, <1>2, GrowKeeps
<1> QED BY <1>1, <1>2, <1>3, <1>4, OrderStep

(* Adding a row keeps a good table good.                                    *)
LEMMA RowAdded ==
  ASSUME NEW n \in Names, NEW t, GoodTable(n, t), NEW k \in 0 .. Blocks(n) - 1
  PROVE  LET u == db_add_block_row(t, k, Md5s[n][k + 1]) IN
         GoodTable(n, u) /\ t \subseteq u /\ \E x \in u : x.block_md5 = Md5s[n][k + 1]
<1> DEFINE m == Md5s[n][k + 1]
           r == Row(k, m, 0)
           u == db_add_block_row(t, k, m)
<1> SUFFICES GoodTable(n, u) /\ t \subseteq u /\ \E x \in u : x.block_md5 = m
  OBVIOUS
<1>1. r \in BlockRows(n) /\ r.block_md5 = m
  BY DEF BlockRows, Row
<1>2. CASE \E x \in t : x.block_md5 = m
  <2>1. u = t
    BY <1>2 DEF db_add_block_row
  <2> HIDE DEF u
  <2> QED BY <1>2, <2>1
<1>3. CASE ~\E x \in t : x.block_md5 = m
  <2>1. u = t \cup {r}
    BY <1>3 DEF db_add_block_row
  <2> HIDE DEF u, r
  <2>2. GoodTable(n, u)
    BY <1>1, <1>3, <2>1 DEF GoodTable
  <2> QED BY <1>1, <2>1, <2>2
<1> QED BY <1>2, <1>3

(* Marking the rows of an id keeps the table good, and every mark in it.    *)
LEMMA RowsMarked ==
  ASSUME NEW n \in Names, NEW t, GoodTable(n, t), NEW k
  PROVE  LET u == set_block_uploaded(t, k) IN
         /\ GoodTable(n, u)
         /\ \A x \in t : \E y \in u : y.block_md5 = x.block_md5 /\ (x.upload_stat = 1 => y.upload_stat = 1)
<1> DEFINE f(x) == IF x.id = k THEN [x EXCEPT !.upload_stat = 1] ELSE x
           u == set_block_uploaded(t, k)
<1>1. u = {f(x) : x \in t}
  BY DEF set_block_uploaded
<1>2. ASSUME NEW x \in t
      PROVE  /\ f(x) \in BlockRows(n) /\ f(x).block_md5 = x.block_md5
             /\ x.upload_stat = 1 => f(x).upload_stat = 1
  <2>1. PICK m \in 0 .. Blocks(n) - 1, s \in {0, 1} : x = Row(m, Md5s[n][m + 1], s)
    BY DEF GoodTable, BlockRows
  <2>2. /\ x = Row(m, Md5s[n][m + 1], s) /\ x.block_md5 = Md5s[n][m + 1] /\ x.upload_stat = s
        /\ [x EXCEPT !.upload_stat = 1] = Row(m, Md5s[n][m + 1], 1)
        /\ Row(m, Md5s[n][m + 1], 1).block_md5 = Md5s[n][m + 1] /\ Row(m, Md5s[n][m + 1], 1).upload_stat = 1
    BY <2>1 DEF Row
  <2>3. f(x) = Row(m, Md5s[n][m + 1], 1) \/ (f(x) = Row(m, Md5s[n][m + 1], s) /\ f(x) = x)
    <3>1. CASE x.id = k
      BY <2>2, <3>1
    <3>2. CASE x.id # k
      BY <2>2, <3>2
    <3> QED BY <3>1, <3>2
  <2> HIDE DEF f
  <2>4. f(x) \in BlockRows(n)
    BY <2>3 DEF BlockRows
  <2> QED BY <2>2, <2>3, <2>4
<1> HIDE DEF f, u
<1>3. u \subseteq BlockRows(n)
  BY <1>1, <1>2
<1>4. ASSUME NEW y \in u, NEW z \in u, y.block_md5 = z.block_md5 PROVE y = z
  <2>1. PICK v \in t : y = f(v)
    BY <1>1
  <2>2. PICK w \in t : z = f(w)
    BY <1>1
  <2>3. v = w
    BY <1>2, <1>4, <2>1, <2>2 DEF GoodTable
  <2> QED BY <2>1, <2>2, <2>3
<1>5. \A x \in t : \E y \in u : y.block_md5 = x.block_md5 /\ (x.upload_stat = 1 => y.upload_stat = 1)
  BY <1>1, <1>2
<1> QED BY <1>3, <1>4, <1>5 DEF GoodTable, u

(* A statement on the table of a file leaves the other tables alone.        *)
LEMMA TableStep ==
  ASSUME HelperOrder, NEW h \in Helpers, NEW t, HasTable(h), OnTable(h, t), hp[h].name \in Names,
         GoodTable(hp[h].name, t),
         \A x \in tables[hp[h].name] :
           \E y \in t : y.block_md5 = x.block_md5 /\ (x.upload_stat = 1 => y.upload_stat = 1)
  PROVE  /\ Grow /\ GoodTables' /\ tables'[hp[h].name] = t /\ DOMAIN tables' = DOMAIN tables
         /\ \A n \in Names : Rows(n)' = Rows(n)
<1> DEFINE m == hp[h].name
<1>1. m \in DOMAIN tables /\ tables' = [tables EXCEPT ![m] = t] /\ UNCHANGED <<files, raced>>
  BY DEF HasTable, OnTable
<1> HIDE DEF m
<1>2. /\ DOMAIN tables' = DOMAIN tables /\ tables'[m] = t
      /\ \A n \in DOMAIN tables : n # m => tables'[n] = tables[n]
  BY <1>1
<1>3. \A n \in Names : Rows(n)' = Rows(n)
  BY <1>1 DEF Rows
<1>4. ASSUME NEW n \in DOMAIN tables, NEW x \in tables[n]
      PROVE  \E y \in tables'[n] : y.block_md5 = x.block_md5 /\ (x.upload_stat = 1 => y.upload_stat = 1)
  <2>1. CASE n = m
    BY <1>2, <2>1 DEF m
  <2>2. CASE n # m
    BY <1>2, <2>2
  <2> QED BY <2>1, <2>2
<1>5. Grow
  BY <1>1, <1>2, <1>3, <1>4 DEF Grow
<1>6. ASSUME NEW n \in DOMAIN tables' PROVE n \in Names /\ GoodTable(n, tables'[n])
  <2>1. CASE n = m
    BY <1>2, <2>1 DEF m
  <2>2. CASE n # m
    BY <1>2, <2>2 DEF HelperOrder, GoodTables
  <2> QED BY <2>1, <2>2
<1>7. GoodTables'
  BY <1>6 DEF GoodTables
<1> QED BY <1>2, <1>3, <1>5, <1>7 DEF m

(* A file has a block at least.                                             *)
LEMMA SomeBlocks == \A n \in Names : Blocks(n) \in Nat \ {0} /\ Md5s[n] \in Seq(Nat)
BY DbHelperAssumption DEF Blocks

(* Every statement of a program keeps the order.                            *)
LEMMA OrderNext ==
  ASSUME HelperInv, HelperOrder, NEW h \in Helpers, HelperStep(h)
  PROVE  HelperOrder'
<1> DEFINE r == hp[h]
<1>0. /\ r \in Programs /\ Stage(r) /\ RowHasTable /\ GoodTables
      /\ Working(h) => r.name \in Names
      /\ r.pc = "row" /\ r.conn => r.name \in DOMAIN tables
  BY DEF HelperInv, HelperOrder
\* the program ends, or is killed
<1>a. ASSUME hp' = [hp EXCEPT ![h] = [r EXCEPT !.pc = "dead"]], UNCHANGED <<files, tables, raced>>
      PROVE  HelperOrder'
  <2> DEFINE p == [r EXCEPT !.pc = "dead"]
  <2>1. p \in Programs /\ p.pc = "dead" /\ p.complete = r.complete
    BY <1>0 DEF Programs, PCs
  <2>2. hp' = [hp EXCEPT ![h] = p]
    BY <1>a
  <2> HIDE DEF p
  <2>3. Stage(p)
    BY <2>1 DEF Stage
  <2> QED BY <1>a, <2>1, <2>2, <2>3, QuietStep
<1>1. ASSUME NEW n \in Names, Begin(h, n) PROVE HelperOrder'
  <2> DEFINE p == [hp[h] EXCEPT !.pc = "exist", !.name = n, !.i = 0, !.round = @ + 1]
  <2>1. p \in Programs /\ p.pc = "exist" /\ p.name = n /\ p.i = 0 /\ p.complete = r.complete
    <3> DEFINE e == "exist"  z == 0  k == hp[h].round + 1
    <3>1. r \in Programs /\ e \in PCs /\ z \in Int /\ k \in Int
      BY <1>0, ProgramFields DEF PCs
    <3> HIDE DEF r, e, z, k
    <3>2. LET q == [r EXCEPT !.pc = e, !.name = n, !.i = z, !.round = k]
          IN q \in Programs /\ q.pc = e /\ q.name = n /\ q.i = z /\ q.complete = r.complete
      BY <3>1 DEF Programs
    <3> QED BY <3>2 DEF r, e, z, k
  <2>2. hp' = [hp EXCEPT ![h] = p] /\ UNCHANGED <<files, tables>>
    BY <1>1 DEF Begin
  <2>3. /\ raced => raced'
        /\ ~raced' => \A g \in Helpers \ {h} : Working(g) => hp[g].name # n
    BY <1>1 DEF Begin
  <2>4. PICK q \in Programs : q = p
    BY <2>1
  <2> HIDE DEF p
  <2>5. \A m \in Names : Rows(m)' = Rows(m)
    BY <2>2 DEF Rows
  <2>6. Grow
    BY <2>2, <2>3, <2>5 DEF Grow
  <2>7. Stage(q)'
    BY <2>1, <2>4 DEF Stage
  <2>8. GoodTables' /\ (~raced' => OneRow')
    BY <2>2, <2>3, <2>5 DEF HelperOrder, GoodTables, OneRow
  <2> QED BY <2>1, <2>2, <2>3, <2>4, <2>5, <2>6, <2>7, <2>8, OrderStep
<1>2. ASSUME NEW n \in Names, get_block_num(h, n) \/ get_block_md5(h, n) PROVE HelperOrder'
  BY <1>2, <1>a DEF get_block_num, get_block_md5, Goto, Keep
<1>3. CASE Exists(h)
  <2> DEFINE l == IF r.conn /\ check_file_exist(r.name) THEN "md5" ELSE "table"
             p == [r EXCEPT !.pc = l]
  <2>0. Working(h) /\ r.pc = "exist" /\ r.name \in Names
    BY <1>0, <1>3 DEF Exists, Working
  <2>1. /\ p \in Programs /\ p.pc = l /\ p.name = r.name /\ p.conn = r.conn /\ p.i = r.i
        /\ p.complete = r.complete
    BY <1>0 DEF Programs, PCs
  <2>2. hp' = [hp EXCEPT ![h] = p] /\ UNCHANGED <<files, tables, raced>>
    BY <1>3 DEF Exists, Goto, Keep
  <2> HIDE DEF p
  <2>3. p.i = 0
    BY <1>0, <2>0, <2>1 DEF Stage
  <2>4. CASE r.conn /\ check_file_exist(r.name)
    <3>1. Rows(r.name) # {}
      BY <2>4, FS_EmptySet DEF check_file_exist
    <3>2. r.name \in DOMAIN tables
      BY <1>0, <3>1 DEF RowHasTable, Rows
    <3>3. Blocks(r.name) \in Nat \ {0}
      BY <2>0, SomeBlocks
    <3>4. Stage(p)
      BY <2>1, <2>3, <2>4, <3>1, <3>2, <3>3 DEF Stage
    <3> QED BY <2>0, <2>1, <2>2, <2>4, <3>4, QuietStep
  <2>5. CASE ~(r.conn /\ check_file_exist(r.name))
    <3>1. r.conn /\ ~raced => Rows(r.name) = {}
      <4> SUFFICES ASSUME r.conn, ~raced, NEW k \in Rows(r.name) PROVE FALSE
        OBVIOUS
      <4>1. Rows(r.name) = {k}
        BY <2>0 DEF HelperOrder, OneRow
      <4>2. Cardinality(Rows(r.name)) = 1
        BY <4>1, FS_Singleton
      <4> QED BY <2>5, <4>2 DEF check_file_exist
    <3>2. p.pc = "table"
      BY <2>1, <2>5
    <3>3. Stage(p)
      BY <2>1, <2>3, <3>1, <3>2 DEF Stage
    <3> QED BY <2>0, <2>1, <2>2, <3>2, <3>3, QuietStep
  <2> QED BY <2>4, <2>5
<1>4. CASE r.pc = "table" /\ create_file(h)
  <2> DEFINE p == [r EXCEPT !.pc = "row"]
  <2>0. Working(h) /\ r.name \in Names
    BY <1>0, <1>4 DEF Working
  <2>1. /\ p \in Programs /\ p.pc = "row" /\ p.name = r.name /\ p.conn = r.conn /\ p.i = r.i
        /\ p.complete = r.complete
    BY <1>0 DEF Programs, PCs
  <2>2. /\ hp' = [hp EXCEPT ![h] = p] /\ UNCHANGED <<files, raced>>
        /\ IF r.conn THEN db_add_file_table(r.name) ELSE UNCHANGED tables
    BY <1>4 DEF create_file, Goto
  <2>3. PICK q \in Programs : q = p
    BY <2>1
  <2> HIDE DEF p
  <2>4. \A m \in Names : Rows(m)' = Rows(m)
    BY <2>2 DEF Rows
  <2>5. /\ DOMAIN tables \subseteq DOMAIN tables' /\ DOMAIN tables' \subseteq DOMAIN tables \cup {r.name}
        /\ \A n \in DOMAIN tables : tables'[n] = tables[n]
        /\ \A n \in DOMAIN tables' : n \notin DOMAIN tables => tables'[n] = {}
    <3>1. CASE r.conn /\ r.name \notin DOMAIN tables
      <4>1. tables' = [m \in DOMAIN tables \cup {r.name} |-> IF m = r.name THEN {} ELSE tables[m]]
        BY <2>2, <3>1 DEF db_add_file_table
      <4> QED BY <3>1, <4>1
    <3>2. CASE ~(r.conn /\ r.name \notin DOMAIN tables)
      <4>1. tables' = tables
        BY <2>2, <3>2 DEF db_add_file_table
      <4> QED BY <4>1
    <3> QED BY <3>1, <3>2
  <2>6. Grow
    BY <2>2, <2>4, <2>5 DEF Grow
  <2>7. Stage(q)'
    <3>1. q.i = 0 /\ (q.conn /\ ~raced => Rows(q.name) = {})
      BY <1>0, <1>4, <2>1, <2>3 DEF Stage
    <3>2. Rows(q.name)' = Rows(q.name) /\ q.pc = "row" /\ raced' = raced
      BY <2>0, <2>1, <2>2, <2>3, <2>4
    <3> QED BY <3>1, <3>2 DEF Stage
  <2>8. GoodTables'
    <3>1. \A n : GoodTable(n, {})
      BY DEF GoodTable
    <3> QED BY <1>0, <2>0, <2>5, <3>1 DEF GoodTables
  <2>9. ~raced' => OneRow'
    BY <2>2, <2>4 DEF HelperOrder, OneRow
  <2> QED BY <2>0, <2>1, <2>2, <2>3, <2>4, <2>6, <2>7, <2>8, <2>9, OrderStep
<1>5. CASE r.pc = "row" /\ create_file(h)
  <2>0. Working(h) /\ r.name \in Names /\ UNCHANGED <<tables, raced>> /\ r.i = 0
    BY <1>0, <1>5 DEF Working, create_file, Stage
  <2>1. CASE r.conn
    <3> DEFINE new == [id |-> r.file_cnt, name |-> r.name, block_num |-> Blocks(r.name)]
               k == Len(files) + 1
    <3>1. files' = Append(files, new) /\ files \in Seq(FileRows)
      BY <1>5, <2>1 DEF create_file, db_add_file_row, HelperInv
    <3>2. /\ Len(files) \in Nat /\ DOMAIN files' = 1 .. k /\ files'[k].name = r.name
          /\ \A j \in DOMAIN files : files'[j] = files[j]
          /\ DOMAIN files = 1 .. Len(files)
      <4>1. new.name = r.name
        OBVIOUS
      <4> HIDE DEF new
      <4> QED BY <3>1, <4>1
    <3>3. \A m \in Names : Rows(m)' = IF m = r.name THEN Rows(m) \cup {k} ELSE Rows(m)
      BY <3>2 DEF Rows
    <3> HIDE DEF k
    <3>4. PICK q \in Programs : /\ hp' = [hp EXCEPT ![h] = q] /\ q.pc = "md5" /\ q.name = r.name
                                /\ q.i = r.i /\ q.conn = r.conn /\ q.complete = r.complete
      <4> DEFINE e == "md5"  c == r.file_cnt + 1
                 p == [r EXCEPT !.pc = e, !.file_cnt = c]
      <4>1. r \in Programs /\ e \in PCs /\ c \in Int
        BY <1>0, ProgramFields DEF PCs
      <4>2. hp' = [hp EXCEPT ![h] = p]
        BY <1>5, <2>1 DEF create_file
      <4> HIDE DEF r, e, c
      <4>3. /\ p \in Programs /\ p.pc = e /\ p.name = r.name /\ p.i = r.i /\ p.conn = r.conn
            /\ p.complete = r.complete
        BY <4>1 DEF Programs
      <4> QED BY <4>2, <4>3 DEF e
    <3>5. Grow
      BY <2>0, <3>3 DEF Grow
    <3>6. Stage(q)'
      <4>1. Rows(q.name)' # {} /\ q.name \in DOMAIN tables' /\ Blocks(q.name) \in Nat \ {0}
        BY <1>0, <1>5, <2>0, <2>1, <3>3, <3>4, SomeBlocks
      <4> QED BY <2>0, <3>4, <4>1 DEF Stage
    <3>7. GoodTables'
      BY <1>0, <2>0 DEF GoodTables
    <3>8. ~raced' => OneRow'
      <4>1. ~raced => Rows(r.name) = {}
        BY <1>0, <1>5, <2>1 DEF Stage
      <4> QED BY <2>0, <3>3, <4>1 DEF HelperOrder, OneRow
    <3> QED BY <2>0, <3>3, <3>4, <3>5, <3>6, <3>7, <3>8, OrderStep
  <2>2. CASE ~r.conn
    <3> DEFINE p == [r EXCEPT !.pc = "md5"]
    <3>1. /\ p \in Programs /\ p.pc = "md5" /\ p.name = r.name /\ p.conn = r.conn /\ p.i = r.i
          /\ p.complete = r.complete
      BY <1>0 DEF Programs, PCs
    <3>2. hp' = [hp EXCEPT ![h] = p] /\ UNCHANGED files
      BY <1>5, <2>2 DEF create_file, Goto
    <3> HIDE DEF p
    <3>3. Blocks(r.name) \in Nat \ {0}
      BY <2>0, SomeBlocks
    <3>4. Stage(p)
      BY <2>0, <2>2, <3>1, <3>3 DEF Stage
    <3> QED BY <2>0, <3>1, <3>2, <3>4, QuietStep
  <2> QED BY <2>1, <2>2
<1>6. CASE set_block_md5(h) \/ Uploaded(h)
  <2>0. /\ Working(h) /\ r.name \in Names /\ r.pc \in {"md5", "upload"}
        /\ r.i \in 0 .. Blocks(r.name) - 1 /\ Blocks(r.name) \in Nat \ {0}
    BY <1>0, <1>6, SomeBlocks DEF Working, set_block_md5, Uploaded, Stage
  <2> DEFINE then == IF r.pc = "md5" THEN "upload" ELSE "status"
  <2>1. PICK p \in Programs :
           /\ hp' = [hp EXCEPT ![h] = p]
           /\ p.name = r.name /\ p.conn = r.conn /\ p.complete = r.complete
           /\ IF r.i + 1 = Blocks(r.name) THEN p.pc = then /\ p.i = 0
              ELSE p.pc = r.pc /\ p.i = r.i + 1
    <3>1. NextBlock(h, then) /\ then \in PCs
      BY <1>6 DEF set_block_md5, Uploaded, PCs
    <3> HIDE DEF then
    <3> QED BY <1>0, <3>1, BlockLoop
  <2>2. /\ p.pc \in {"md5", "upload"} => p.i \in 0 .. Blocks(p.name) - 1
        /\ p.pc \in {"md5", "upload", "status"}
    BY <2>0, <2>1
  <2>3. CASE ~r.conn
    <3>1. UNCHANGED <<files, tables, raced>>
      BY <1>6, <2>3 DEF set_block_md5, Uploaded, HasTable, Keep
    <3>2. Stage(p)
      BY <2>1, <2>2, <2>3 DEF Stage
    <3> QED BY <2>0, <2>1, <3>1, <3>2, QuietStep
  <2>4. CASE r.conn
    <3>1. HasTable(h) /\ Rows(r.name) # {} /\ r.name \in DOMAIN tables
      BY <1>0, <2>0, <2>4 DEF Stage, HasTable
    <3> DEFINE t == tables[r.name]
               u == IF r.pc = "md5" THEN db_add_block_row(t, r.i, Md5s[r.name][r.i + 1])
                    ELSE set_block_uploaded(t, r.i)
    <3>2. OnTable(h, u)
      BY <1>6, <3>1 DEF set_block_md5, Uploaded
    <3>3. /\ GoodTable(r.name, u)
          /\ \A x \in t : \E y \in u : y.block_md5 = x.block_md5 /\ (x.upload_stat = 1 => y.upload_stat = 1)
          /\ r.pc = "md5" => \E x \in u : x.block_md5 = Md5s[r.name][r.i + 1]
      <4>1. GoodTable(r.name, t)
        BY <1>0, <3>1 DEF GoodTables
      <4>2. CASE r.pc = "md5"
        <5>1. u = db_add_block_row(t, r.i, Md5s[r.name][r.i + 1])
          BY <4>2
        <5> HIDE DEF t, u
        <5> QED BY <2>0, <4>1, <5>1, RowAdded
      <4>3. CASE r.pc # "md5"
        <5>1. u = set_block_uploaded(t, r.i)
          BY <4>3
        <5> HIDE DEF t, u
        <5> QED BY <2>0, <4>1, <4>3, <5>1, RowsMarked
      <4> QED BY <4>2, <4>3
    <3>4. /\ Grow /\ GoodTables' /\ tables'[r.name] = u /\ DOMAIN tables' = DOMAIN tables
          /\ \A n \in Names : Rows(n)' = Rows(n)
      <4> HIDE DEF u
      <4> QED BY <2>0, <3>1, <3>2, <3>3, TableStep
    <3>5. raced' = raced
      BY <3>2 DEF OnTable
    <3> HIDE DEF u
    <3>6. r.pc = "md5" => \A j \in 1 .. r.i + 1 : HasRow(p.name, j)'
      <4>0. p.name \in DOMAIN tables
        BY <2>1, <3>1
      <4>1. PICK k \in Nat : k = r.i + 1
        BY <2>0
      <4>4. r.pc = "md5" => HasRow(p.name, k)'
        BY <2>1, <3>3, <3>4, <4>1 DEF HasRow
      <4>2. ASSUME r.pc = "md5", NEW j \in 1 .. r.i PROVE HasRow(p.name, j)'
        <5>1. HasRow(p.name, j)
          BY <1>0, <2>1, <2>4, <4>2 DEF Stage
        <5> QED BY <3>4, <4>0, <5>1, GrowKeeps
      <4>3. \A j \in 1 .. r.i + 1 : j \in 1 .. r.i \/ j = k
        BY <2>0, <4>1
      <4> QED BY <4>2, <4>3, <4>4
    <3>7. r.pc = "upload" => \A j \in 1 .. Blocks(p.name) : HasRow(p.name, j)'
      <4> SUFFICES ASSUME r.pc = "upload", NEW j \in 1 .. Blocks(p.name) PROVE HasRow(p.name, j)'
        OBVIOUS
      <4>1. HasRow(p.name, j) /\ p.name \in DOMAIN tables
        BY <1>0, <2>1, <2>4, <3>1 DEF Stage
      <4> QED BY <3>4, <4>1, GrowKeeps
    <3>8. /\ p.pc = "md5" => \A j \in 1 .. p.i : HasRow(p.name, j)'
          /\ p.pc \in {"upload", "status"} => \A j \in 1 .. Blocks(p.name) : HasRow(p.name, j)'
      BY <2>0, <2>1, <3>6, <3>7
    <3>9. Stage(p)'
      <4>1. p.name \in DOMAIN tables' /\ Rows(p.name)' # {}
        BY <2>0, <2>1, <3>1, <3>4
      <4> QED BY <2>2, <3>8, <4>1 DEF Stage
    <3>10. ~raced' => OneRow'
      BY <3>4, <3>5 DEF HelperOrder, OneRow
    <3> QED BY <2>0, <2>1, <3>4, <3>9, <3>10, OrderStep
  <2> QED BY <2>3, <2>4
<1>7. CASE Stop(h)
  <2> DEFINE p == [r EXCEPT !.pc = "status"]
  <2>1. /\ p \in Programs /\ p.pc = "status" /\ p.name = r.name /\ p.conn = r.conn
        /\ p.complete = r.complete
    BY <1>0 DEF Programs, PCs
  <2>2. hp' = [hp EXCEPT ![h] = p] /\ UNCHANGED <<files, tables, raced>> /\ r.pc = "upload"
    BY <1>7 DEF Stop, Goto, Keep
  <2> HIDE DEF p
  <2>3. Stage(p)
    BY <1>0, <2>1, <2>2 DEF Stage
  <2> QED BY <2>1, <2>2, <2>3, QuietStep DEF Working
<1>8. CASE Check(h)
  <2>0. r.pc = "status" /\ r.name \in Names
    BY <1>0, <1>8 DEF Check, Working
  <2> DEFINE c == IF HasTable(h) /\ check_upload_status(tables[r.name])
                  THEN r.complete \cup {r.name} ELSE r.complete
             e == "idle"  z == 0
             p == [r EXCEPT !.pc = e, !.i = z, !.complete = c]
  <2>1. c \in SUBSET Names
    BY <1>0, <2>0, ProgramFields
  <2>2. r \in Programs /\ e \in PCs /\ z \in Int
    BY <1>0 DEF PCs
  <2>3. hp' = [hp EXCEPT ![h] = p] /\ UNCHANGED <<files, tables, raced>>
    BY <1>8 DEF Check, Keep
  <2>4. \A n \in c : n \in r.complete \/ Done(n)
    <3> SUFFICES ASSUME HasTable(h), check_upload_status(tables[r.name]) PROVE Done(r.name)
      OBVIOUS
    <3>1. /\ r.name \in DOMAIN tables /\ Rows(r.name) # {}
          /\ \A j \in 1 .. Blocks(r.name) : HasRow(r.name, j)
      BY <1>0, <2>0 DEF Stage, HasTable
    <3>2. \A x \in tables[r.name] : x.upload_stat = 1
      <4>1. \A x \in BlockRows(r.name) : x.upload_stat \in {0, 1}
        BY DEF BlockRows, Row
      <4> QED BY <1>0, <3>1, <4>1 DEF GoodTables, GoodTable, check_upload_status
    <3> QED BY <3>1, <3>2 DEF Done, HasRow, IsMarked
  <2> HIDE DEF r, e, z, c
  <2>5. p \in Programs /\ p.pc = e /\ p.complete = c
    BY <2>1, <2>2 DEF Programs
  <2> HIDE DEF p
  <2>6. Stage(p)
    BY <2>5 DEF Stage, e
  <2> QED BY <2>3, <2>4, <2>5, <2>6, QuietStep DEF e, r
<1>9. CASE LoseConnection(h)
  <2> DEFINE p == [r EXCEPT !.conn = FALSE]
  <2>1. /\ p \in Programs /\ p.pc = r.pc /\ p.name = r.name /\ ~p.conn /\ p.i = r.i
        /\ p.complete = r.complete
    BY <1>0 DEF Programs
  <2>2. hp' = [hp EXCEPT ![h] = p] /\ UNCHANGED <<files, tables, raced>> /\ Working(h)
    BY <1>9 DEF LoseConnection, Keep
  <2> HIDE DEF p
  <2>3. Stage(p)
    BY <1>0, <2>1 DEF Stage
  <2> QED BY <2>1, <2>2, <2>3, QuietStep
<1>10. CASE End(h)
  BY <1>10, <1>a DEF End, Goto, Keep
<1> QED
  BY <1>1, <1>2, <1>3, <1>4, <1>5, <1>6, <1>7, <1>8, <1>9, <1>10 DEF HelperStep, create_file

(* And an empty database has it.                                            *)
LEMMA OrderInit == HelperInit => HelperOrder
<1> SUFFICES ASSUME HelperInit PROVE HelperOrder
  OBVIOUS
<1>1. \A p \in conn_db : p.pc = "idle" /\ p.complete = {} /\ Stage(p)
  <2> SUFFICES ASSUME NEW up \in BOOLEAN
               PROVE  LET p == [Idle EXCEPT !.conn = up] IN p.pc = "idle" /\ p.complete = {} /\ Stage(p)
    BY Zenon DEF conn_db
  <2> DEFINE p == [Idle EXCEPT !.conn = up]
  <2>1. p.pc = "idle" /\ p.complete = {}
    BY DEF Idle
  <2> HIDE DEF p
  <2>2. Stage(p)
    BY <2>1 DEF Stage
  <2> QED BY <2>1, <2>2 DEF p
<1>2. files = <<>> /\ DOMAIN tables = {} /\ hp \in [Helpers -> conn_db] /\ raced = FALSE
  BY DEF HelperInit
<1>3. \A h \in Helpers : hp[h].pc = "idle" /\ hp[h].complete = {} /\ Stage(hp[h])
  BY <1>1, <1>2
<1>4. \A n \in Names : Rows(n) = {}
  BY <1>2 DEF Rows
<1> QED BY <1>2, <1>3, <1>4 DEF HelperOrder, GoodTables, OneRow, Working

(* The inductive invariant of the helpers.                                  *)
THEOREM HelpersStayInOrder == Spec => [](HelperInv /\ HelperOrder)
<1>1. Init => HelperInv /\ HelperOrder
  BY HelperInitInv, OrderInit DEF Init
<1>2. HelperInv /\ HelperOrder /\ [Next]_vars => HelperInv' /\ HelperOrder'
  <2> SUFFICES ASSUME HelperInv, HelperOrder, [Next]_vars PROVE HelperInv' /\ HelperOrder'
    OBVIOUS
  <2>1. ASSUME NEW h \in Helpers, HelperStep(h) PROVE HelperInv' /\ HelperOrder'
    BY <2>1, HelperNextInv, OrderNext
  <2>2. CASE UNCHANGED dbvars
    <3>1. HelperInv'
      BY <2>2 DEF dbvars, HelperInv, RowHasTable, Working
    <3>2. HelperOrder'
      BY <2>2 DEF dbvars, HelperOrder, GoodTables, OneRow, Rows, Stage, HasRow, Done, IsMarked, Working
    <3> QED BY <3>1, <3>2
  <2> QED BY <2>1, <2>2 DEF Next, vars
<1> QED BY <1>1, <1>2, PTL DEF Spec

(* DBhelper: a program is told that an upload is complete only when all the *)
(* MD5s of the file have marked rows.                                       *)
THEOREM CompleteFilesAreMarked == Spec => []CompleteIsMarked
<1>1. HelperOrder => CompleteIsMarked
  BY DEF HelperOrder, CompleteIsMarked, Done, IsMarked
<1> QED BY <1>1, HelpersStayInOrder, PTL

-----------------------------------------------------------------------------
(* Reading the blocks back.                                                 *)

(* A set of naturals that is not empty has a least element.                 *)
LEMMA Below ==
  ASSUME NEW S \in SUBSET Nat, S # {}
  PROVE  \E m \in S : \A k \in S : m <= k
<1> DEFINE R == OpToRel(<, Nat)
<1>1. IsWellFoundedOn(R, Nat)
  BY NatLessThanWellFounded
<1>2. \A x, y \in Nat : <<x, y>> \in R <=> x < y
  BY DEF OpToRel
<1> HIDE DEF R
<1>3. PICK m \in S : \A y \in S : ~(<<y, m>> \in R)
  BY <1>1, WFMin
<1>4. ASSUME NEW y \in S PROVE m <= y
  <2>1. m \in Nat /\ y \in Nat /\ ~(<<y, m>> \in R)
    BY <1>3
  <2> QED BY <1>2, <2>1
<1> QED BY <1>4

(* A strictly increasing sequence of numbers below n, of length n, counts.  *)
LEMMA Counting ==
  ASSUME NEW n \in Nat, NEW f \in [1 .. n -> 0 .. n - 1],
         \A k, j \in 1 .. n : k < j => f[k] < f[j]
  PROVE  \A k \in 1 .. n : f[k] = k - 1
<1>1. \A k \in 1 .. n : f[k] >= k - 1
  <2> SUFFICES ASSUME NEW b \in 1 .. n, f[b] < b - 1 PROVE FALSE
    OBVIOUS
  <2> DEFINE S == {k \in 1 .. n : f[k] < k - 1}
  <2>1. S \in SUBSET Nat /\ b \in S
    OBVIOUS
  <2>2. PICK m \in S : \A k \in S : m <= k
    BY <2>1, Below
  <2>3. m \in 2 .. n /\ f[m] < m - 1 /\ f[m] \in 0 .. n - 1
    BY <2>2
  <2>4. m - 1 \in 1 .. n /\ m - 1 \notin S
    BY <2>2, <2>3
  <2>5. f[m - 1] >= m - 2 /\ f[m - 1] \in 0 .. n - 1
    BY <2>4
  <2>6. f[m - 1] < f[m]
    BY <2>3, <2>4
  <2> QED BY <2>3, <2>5, <2>6
<1>2. \A k \in 1 .. n : f[k] <= k - 1
  <2> SUFFICES ASSUME NEW b \in 1 .. n, f[b] > b - 1 PROVE FALSE
    OBVIOUS
  <2> DEFINE S == {d \in 0 .. n - 1 : f[n - d] > n - d - 1}
  <2>1. S \in SUBSET Nat /\ n - b \in S
    OBVIOUS
  <2>2. PICK m \in S : \A k \in S : m <= k
    BY <2>1, Below
  <2>3. m \in 1 .. n - 1 /\ f[n - m] > n - m - 1 /\ n - m \in 1 .. n /\ f[n - m] \in 0 .. n - 1
    BY <2>2
  <2>4. m - 1 \in 0 .. n - 1 /\ m - 1 \notin S
    <3> HIDE DEF S
    <3> QED BY <2>2, <2>3
  <2>5. n - (m - 1) = n - m + 1 /\ n - m + 1 \in 1 .. n
    BY <2>3
  <2>6. f[n - m + 1] <= n - m /\ f[n - m + 1] \in 0 .. n - 1
    BY <2>4, <2>5
  <2>7. f[n - m] < f[n - m + 1]
    BY <2>3, <2>5
  <2> QED BY <2>3, <2>6, <2>7
<1> QED BY <1>1, <1>2

(* ORDER BY id: of a table with one row for each block, in the order of the *)
(* blocks.                                                                  *)
LEMMA RowsInOrder ==
  ASSUME NEW n \in Names, NEW t, GoodTable(n, t), IsInjective(Md5s[n]),
         \A j \in 1 .. Blocks(n) : \E x \in t : x.block_md5 = Md5s[n][j]
  PROVE  /\ \A x \in t : x.id \in 0 .. Blocks(n) - 1 /\ x.block_md5 = Md5s[n][x.id + 1]
         /\ \A j \in 0 .. Blocks(n) - 1 : \E x \in t : x.id = j
         /\ get_file_block_md5(t) = Md5s[n]
<1> DEFINE N == Blocks(n)
           M == Md5s[n]
<1>0. N \in Nat \ {0} /\ M \in Seq(Nat) /\ N = Len(M) /\ DOMAIN M = 1 .. N
  BY SomeBlocks DEF Blocks
<1>1. \A x \in t : x.id \in 0 .. N - 1 /\ x.block_md5 = M[x.id + 1]
  <2>1. \A k \in 0 .. N - 1, s \in {0, 1} : Row(k, M[k + 1], s).id = k /\ Row(k, M[k + 1], s).block_md5 = M[k + 1]
    BY DEF Row
  <2> QED BY <2>1 DEF GoodTable, BlockRows
<1> HIDE DEF M, N
<1>2. \A k, j \in 1 .. N : M[k] = M[j] => k = j
  BY <1>0 DEF IsInjective, M
<1>3. \A j \in 0 .. N - 1 : \E x \in t : x.id = j
  <2> SUFFICES ASSUME NEW j \in 0 .. N - 1 PROVE \E x \in t : x.id = j
    OBVIOUS
  <2>1. PICK x \in t : x.block_md5 = M[j + 1]
    BY <1>0 DEF M, N
  <2>2. x.id \in 0 .. N - 1 /\ M[x.id + 1] = M[j + 1]
    BY <1>1, <2>1
  <2>3. x.id + 1 = j + 1
    BY <1>0, <1>2, <2>2
  <2> QED BY <2>2, <2>3
<1>4. \A x, y \in t : x.id = y.id => x = y
  BY <1>1 DEF GoodTable
<1>5. ExistsBijection(0 .. N - 1, t)
  <2> DEFINE g == [j \in 0 .. N - 1 |-> CHOOSE x \in t : x.id = j]
  <2>1. g \in [0 .. N - 1 -> t] /\ \A j \in 0 .. N - 1 : g[j].id = j
    BY <1>3
  <2> HIDE DEF g
  <2>2. \A j, k \in 0 .. N - 1 : g[j] = g[k] => j = k
    BY <2>1
  <2>3. \A x \in t : \E j \in 0 .. N - 1 : g[j] = x
    BY <1>1, <1>4, <2>1
  <2>4. g \in Bijection(0 .. N - 1, t)
    BY <2>1, <2>2, <2>3 DEF Bijection, Injection, Surjection, IsInjective
  <2> QED BY <2>4 DEF ExistsBijection
<1>6. Cardinality(t) = N
  <2>1. IsFiniteSet(0 .. N - 1) /\ Cardinality(0 .. N - 1) = N
    <3>1. 0 \in Int /\ N - 1 \in Int /\ ~(0 > N - 1) /\ N - 1 - 0 + 1 = N
      BY <1>0
    <3> QED BY <3>1, FS_Interval
  <2> QED BY <1>5, <2>1, FS_Bijection
<1> DEFINE Sorted(s) == \A k, j \in DOMAIN s : k < j => s[k].id < s[j].id
           at == [k \in 1 .. N |-> CHOOSE x \in t : x.id = k - 1]
<1>7. at \in [1 .. N -> t] /\ Sorted(at)
  <2>1. \A k \in 1 .. N : at[k] \in t /\ at[k].id = k - 1
    BY <1>0, <1>3
  <2> HIDE DEF at
  <2>2. at = [k \in 1 .. N |-> at[k]]
    BY DEF at
  <2> QED BY <1>0, <2>1, <2>2
<1> HIDE DEF at
<1> DEFINE s == ById(t)
<1>8. s \in [1 .. N -> t] /\ Sorted(s)
  BY <1>6, <1>7 DEF ById
<1> HIDE DEF s
<1>9. \A k \in 1 .. N : s[k].id = k - 1
  <2> DEFINE f == [k \in 1 .. N |-> s[k].id]
  <2>1. f \in [1 .. N -> 0 .. N - 1] /\ \A k, j \in 1 .. N : k < j => f[k] < f[j]
    BY <1>1, <1>8
  <2>2. \A k \in 1 .. N : f[k] = k - 1
    <3> HIDE DEF f
    <3> QED BY <1>0, <2>1, Counting
  <2> QED BY <2>2
<1>10. ASSUME NEW k \in 1 .. N PROVE s[k].block_md5 = M[k]
  <2>1. s[k] \in t /\ s[k].id = k - 1
    BY <1>8, <1>9
  <2>2. s[k].block_md5 = M[s[k].id + 1]
    BY <1>1, <2>1
  <2>3. (k - 1) + 1 = k
    BY <1>0
  <2> QED BY <2>1, <2>2, <2>3
<1>11. get_file_block_md5(t) = [k \in DOMAIN s |-> s[k].block_md5]
  BY DEF get_file_block_md5, s
<1>12. get_file_block_md5(t) = M
  <2>1. DOMAIN s = 1 .. N
    BY <1>8
  <2>2. M = [k \in 1 .. N |-> M[k]]
    BY <1>0
  <2> QED BY <1>10, <1>11, <2>1, <2>2
<1> QED BY <1>1, <1>3, <1>12 DEF M, N

(* DBhelper: a file that is complete is there for the other programs, and,  *)
(* if its blocks differ, they read its MD5s in the order of the blocks.     *)
THEOREM CompleteFilesReadBack == Spec => []CompleteReadsBack
<1>1. HelperInv /\ HelperOrder => CompleteReadsBack
  <2> SUFFICES ASSUME HelperInv, HelperOrder, NEW h \in Helpers, NEW n \in hp[h].complete
               PROVE  /\ IF raced THEN Rows(n) # {} ELSE check_file_exist(n)
                      /\ IsInjective(Md5s[n]) =>
                           /\ get_file_block_md5(tables[n]) = Md5s[n]
                           /\ get_block_id_string(tables[n]) = 0 .. Blocks(n) - 1
    BY DEF CompleteReadsBack
  <2>1. n \in Names /\ Done(n)
    BY DEF HelperInv, HelperOrder, Programs
  <2>2. IF raced THEN Rows(n) # {} ELSE check_file_exist(n)
    <3>1. Rows(n) # {}
      BY <2>1 DEF Done
    <3>2. ASSUME ~raced PROVE check_file_exist(n)
      <4>1. PICK k \in Rows(n) : TRUE
        BY <3>1
      <4>2. Rows(n) = {k}
        BY <2>1, <3>2 DEF HelperOrder, OneRow
      <4> QED BY <4>2, FS_Singleton DEF check_file_exist
    <3> QED BY <3>1, <3>2
  <2>3. ASSUME IsInjective(Md5s[n])
        PROVE  /\ get_file_block_md5(tables[n]) = Md5s[n]
               /\ get_block_id_string(tables[n]) = 0 .. Blocks(n) - 1
    <3> DEFINE t == tables[n]
    <3>1. GoodTable(n, t)
      BY <2>1 DEF HelperOrder, GoodTables, Done
    <3>2. \A j \in 1 .. Blocks(n) : \E x \in t : x.block_md5 = Md5s[n][j] /\ x.upload_stat = 1
      BY <2>1 DEF Done, IsMarked
    <3>3. \A j \in 1 .. Blocks(n) : \E x \in t : x.block_md5 = Md5s[n][j]
      BY <3>2
    <3> HIDE DEF t
    <3>4. /\ \A x \in t : x.id \in 0 .. Blocks(n) - 1 /\ x.block_md5 = Md5s[n][x.id + 1]
          /\ get_file_block_md5(t) = Md5s[n]
      BY <2>1, <2>3, <3>1, <3>3, RowsInOrder
    <3>5. ASSUME NEW j \in 0 .. Blocks(n) - 1 PROVE \E x \in t : x.id = j /\ x.upload_stat = 1
      <4>1. Blocks(n) \in Nat /\ DOMAIN Md5s[n] = 1 .. Blocks(n)
        BY <2>1, SomeBlocks DEF Blocks
      <4>2. PICK x \in t : x.block_md5 = Md5s[n][j + 1] /\ x.upload_stat = 1
        BY <3>2, <4>1
      <4>3. Md5s[n][x.id + 1] = Md5s[n][j + 1] /\ x.id + 1 \in 1 .. Blocks(n) /\ j + 1 \in 1 .. Blocks(n)
            /\ x.id \in Int
        BY <3>4, <4>1, <4>2
      <4>4. x.id + 1 = j + 1
        BY <2>3, <4>1, <4>3 DEF IsInjective
      <4> QED BY <4>2, <4>3, <4>4
    <3>6. get_block_id_string(t) = 0 .. Blocks(n) - 1
      BY <3>4, <3>5 DEF get_block_id_string, Marked
    <3> QED BY <3>4, <3>6 DEF t
  <2> QED BY <2>2, <2>3
<1> QED BY <1>1, HelpersStayInOrder, PTL

-----------------------------------------------------------------------------
(* The downloads of db_operation.cpp.  While STATUS is zero, the blocks that *)
(* main has not come to are awaited, so that db_finish_download follows the *)
(* last block only.                                                         *)
PlayPCs == {"ended", "request", "reset", "block", "shown", "check", "finish"}

Plays == [pc : PlayPCs, STATUS : BOOLEAN, i : 0 .. BLOCKS - 1, open : BOOLEAN, round : Int]

Open == {p \in Players : pl[p].open}

Awaits(x, left) ==
  /\ x.pc \in {"request", "reset"} => x.i = 0
  /\ x.pc = "request" => ~x.open
  /\ x.pc = "finish" => ~x.STATUS /\ x.i = BLOCKS - 1
  /\ ~x.STATUS => /\ x.pc \in {"reset", "block", "shown", "check", "finish"} => x.open
                  /\ x.pc = "block" => x.i .. BLOCKS - 1 \subseteq left
                  /\ x.pc \in {"shown", "check"} => x.i + 1 .. BLOCKS - 1 \subseteq left

PlayInv ==
  /\ pl \in [Players -> Plays] /\ requests \in Int
  /\ ~overlapped => /\ requests >= Cardinality(Open)
                    /\ \A p, q \in Players : pl[p].pc # "ended" /\ pl[q].pc # "ended" => p = q
                    /\ \A p \in Players : Awaits(pl[p], awaited)

(* A program that comes to x, while the others have ended, keeps the count  *)
(* when requests grows with the open downloads, and shrinks at most with    *)
(* them.                                                                    *)
LEMMA PlayMoves ==
  ASSUME PlayInv, NEW p \in Players, NEW x \in Plays, pl' = [pl EXCEPT ![p] = x],
         pl[p].pc # "ended" \/ x.pc = "ended" \/ overlapped' \/ \A q \in Players \ {p} : pl[q].pc = "ended",
         awaited' = awaited \/ pl[p].pc # "ended", overlapped => overlapped', requests' \in Int,
         ~overlapped' => /\ Awaits(x, awaited')
                         /\ requests' >= requests + (IF x.open /\ ~pl[p].open THEN 1 ELSE 0)
                                         - (IF ~x.open /\ pl[p].open THEN 1 ELSE 0)
  PROVE  PlayInv'
<1>1. pl' \in [Players -> Plays] /\ \A q \in Players : pl'[q] = IF q = p THEN x ELSE pl[q]
  BY DEF PlayInv
<1> SUFFICES ASSUME ~overlapped'
             PROVE  /\ requests' >= Cardinality(Open')
                    /\ \A q, r \in Players : pl'[q].pc # "ended" /\ pl'[r].pc # "ended" => q = r
                    /\ \A q \in Players : Awaits(pl'[q], awaited')
  BY <1>1 DEF PlayInv
<1>2. requests >= Cardinality(Open) /\ requests \in Int
  BY DEF PlayInv
<1>3. IsFiniteSet(Open) /\ Cardinality(Open) \in Nat
  <2>1. Open \subseteq Players
    BY DEF Open
  <2> QED BY <2>1, DbDownloadAssumption, FS_Subset, FS_CardinalityType
<1>4. requests' >= Cardinality(Open')
  <2>1. CASE x.open /\ ~pl[p].open
    <3>1. Open' = Open \cup {p} /\ p \notin Open
      BY <1>1, <2>1 DEF Open
    <3>2. Cardinality(Open') = Cardinality(Open) + 1
      BY <1>3, <3>1, FS_AddElement
    <3> QED BY <1>2, <1>3, <2>1, <3>2
  <2>2. CASE ~x.open /\ pl[p].open
    <3>1. Open' = Open \ {p} /\ p \in Open
      BY <1>1, <2>2 DEF Open
    <3>2. Cardinality(Open') = Cardinality(Open) - 1
      BY <1>3, <3>1, FS_RemoveElement
    <3> QED BY <1>2, <1>3, <2>2, <3>2
  <2>3. CASE x.open <=> pl[p].open
    <3>1. Open' = Open
      BY <1>1, <2>3 DEF Open
    <3> QED BY <1>2, <1>3, <2>3, <3>1
  <2> QED BY <2>1, <2>2, <2>3
<1>5. \A q, r \in Players : pl'[q].pc # "ended" /\ pl'[r].pc # "ended" => q = r
  BY <1>1 DEF PlayInv
<1>6. ASSUME NEW q \in Players PROVE Awaits(pl'[q], awaited')
  <2>1. CASE q = p
    BY <1>1, <2>1
  <2>2. CASE q # p
    <3>1. pl'[q] = pl[q] /\ Awaits(pl[q], awaited)
      BY <1>1, <2>2 DEF PlayInv
    <3>2. CASE pl[q].pc = "ended"
      BY <3>1, <3>2 DEF Awaits
    <3>3. CASE pl[q].pc # "ended"
      <4>1. pl[p].pc = "ended" /\ awaited' = awaited
        BY <2>2, <3>3 DEF PlayInv
      <4> QED BY <3>1, <4>1 DEF Awaits
    <3> QED BY <3>2, <3>3
  <2> QED BY <2>1, <2>2
<1> QED BY <1>4, <1>5, <1>6

(* A download that goes on to another line is a download.                   *)
LEMMA PlayFields ==
  ASSUME NEW x \in Plays, NEW l \in PlayPCs, NEW o \in BOOLEAN
  PROVE  LET y == [x EXCEPT !.pc = l]
             z == [x EXCEPT !.pc = l, !.open = o] IN
         /\ y \in Plays /\ y.STATUS = x.STATUS /\ y.pc = l /\ y.i = x.i /\ y.open = x.open
         /\ z \in Plays /\ z.STATUS = x.STATUS /\ z.pc = l /\ z.i = x.i /\ z.open = o
BY DEF Plays

(* The next round of the loop, or its end.                                  *)
LEMMA NextRoundFields ==
  ASSUME NEW x \in Plays
  PROVE  LET y == NextRound(x) IN
         /\ y \in Plays /\ y.STATUS = x.STATUS /\ y.open = x.open
         /\ IF x.i + 1 < BLOCKS THEN y.pc = "block" /\ y.i = x.i + 1 ELSE y.pc = "ended"
<1>1. CASE x.i + 1 < BLOCKS
  <2> DEFINE y == [x EXCEPT !.pc = "block", !.i = @ + 1]
  <2>1. x.i + 1 \in 0 .. BLOCKS - 1
    BY <1>1, DbDownloadAssumption DEF Plays
  <2>2. y \in Plays /\ y.STATUS = x.STATUS /\ y.open = x.open /\ y.pc = "block" /\ y.i = x.i + 1
    BY <2>1 DEF Plays, PlayPCs
  <2>3. NextRound(x) = y
    BY <1>1 DEF NextRound
  <2> QED BY <1>1, <2>2, <2>3
<1>2. CASE ~(x.i + 1 < BLOCKS)
  <2> DEFINE y == [x EXCEPT !.pc = "ended"]
  <2>1. y \in Plays /\ y.STATUS = x.STATUS /\ y.open = x.open /\ y.pc = "ended"
    BY DEF Plays, PlayPCs
  <2>2. NextRound(x) = y
    BY <1>2 DEF NextRound
  <2> QED BY <1>2, <2>1, <2>2
<1> QED BY <1>1, <1>2

(* x is what a statement comes to when it takes effect.                     *)
Reached(x, left) ==
  /\ x.pc \notin {"request", "finish"} /\ (x.pc = "reset" => x.i = 0)
  /\ x.pc \in {"reset", "block", "shown", "check"} => x.open
  /\ x.pc = "block" => x.i .. BLOCKS - 1 \subseteq left
  /\ x.pc \in {"shown", "check"} => x.i + 1 .. BLOCKS - 1 \subseteq left

Grown(x, y) == (IF y.open /\ ~x.open THEN 1 ELSE 0) - (IF ~y.open /\ x.open THEN 1 ELSE 0)

(* A statement of p, in the words of PlayMoves.                             *)
LEMMA Tried ==
  ASSUME PlayInv, NEW p \in Players, NEW x \in Plays, pl[p].pc # "ended",
         UNCHANGED overlapped, requests' \in Int,
         x.pc \notin {"request", "finish"}, ~overlapped /\ x.pc = "reset" => x.i = 0,
         \/ /\ \E s \in BOOLEAN : pl' = [pl EXCEPT ![p] = [x EXCEPT !.STATUS = s]]
            /\ ~overlapped => Reached(x, awaited') /\ requests' >= requests + Grown(pl[p], x)
         \/ /\ pl' = [pl EXCEPT ![p] = [x EXCEPT !.STATUS = TRUE, !.open = pl[p].open]]
            /\ UNCHANGED <<requests, awaited>>
  PROVE  PlayInv'
<1>0. pl[p] \in Plays /\ pl[p].open \in BOOLEAN
  BY DEF PlayInv, Plays
<1>1. ASSUME NEW s \in BOOLEAN, pl' = [pl EXCEPT ![p] = [x EXCEPT !.STATUS = s]],
             ~overlapped => Reached(x, awaited') /\ requests' >= requests + Grown(pl[p], x)
      PROVE  PlayInv'
  <2> DEFINE y == [x EXCEPT !.STATUS = s]
  <2>1. y \in Plays /\ y.open = x.open /\ y.pc = x.pc /\ y.i = x.i
    BY DEF Plays
  <2>2. pl' = [pl EXCEPT ![p] = y]
    BY <1>1
  <2> HIDE DEF y
  <2>3. ~overlapped => Awaits(y, awaited')
    BY <1>1, <2>1 DEF Awaits, Reached
  <2> QED BY <1>1, <2>1, <2>2, <2>3, PlayMoves DEF Grown
<1>2. ASSUME pl' = [pl EXCEPT ![p] = [x EXCEPT !.STATUS = TRUE, !.open = pl[p].open]],
             UNCHANGED <<requests, awaited>>
      PROVE  PlayInv'
  <2> DEFINE o == pl[p].open
             z == [x EXCEPT !.STATUS = TRUE, !.open = o]
  <2>1. z \in Plays /\ z.open = pl[p].open /\ z.STATUS = TRUE /\ z.pc = x.pc /\ z.i = x.i
    <3>1. o \in BOOLEAN
      BY <1>0
    <3> HIDE DEF o
    <3>2. z \in Plays /\ z.open = o /\ z.STATUS = TRUE /\ z.pc = x.pc /\ z.i = x.i
      BY <3>1 DEF Plays
    <3> QED BY <3>2 DEF o
  <2>2. pl' = [pl EXCEPT ![p] = z]
    BY <1>2
  <2> HIDE DEF z
  <2>3. ~overlapped => Awaits(z, awaited')
    BY <2>1 DEF Awaits
  <2>4. requests' >= requests + (IF z.open /\ ~pl[p].open THEN 1 ELSE 0)
                             - (IF ~z.open /\ pl[p].open THEN 1 ELSE 0)
    <3>1. requests' = requests /\ requests \in Int
      BY <1>2 DEF PlayInv
    <3> QED BY <2>1, <3>1
  <2> QED BY <1>2, <2>1, <2>2, <2>3, <2>4, PlayMoves
<1> QED BY <1>1, <1>2, Zenon

(* No download has begun at first.                                          *)
LEMMA PlayInitInv == PlayInit => PlayInv
<1> SUFFICES ASSUME PlayInit PROVE PlayInv
  OBVIOUS
<1>1. NotStarted \in Plays /\ NotStarted.pc = "ended" /\ ~NotStarted.open
  BY DbDownloadAssumption DEF NotStarted, Plays, PlayPCs
<1>2. pl = [p \in Players |-> NotStarted] /\ requests = 0
  BY DEF PlayInit
<1> HIDE DEF NotStarted
<1>3. Open = {}
  BY <1>1, <1>2 DEF Open
<1>4. Cardinality(Open) = 0
  BY <1>3, FS_EmptySet
<1>5. \A p \in Players : Awaits(pl[p], awaited)
  BY <1>1, <1>2 DEF Awaits
<1> QED BY <1>1, <1>2, <1>4, <1>5 DEF PlayInv

(* Every statement of a download keeps the count.                           *)
LEMMA PlayNextInv ==
  ASSUME PlayInv, NEW p \in Players, PlayStep(p)
  PROVE  PlayInv'
<1> DEFINE r == pl[p]
<1>0. /\ r \in Plays /\ requests \in Int /\ (~overlapped => Awaits(r, awaited))
      /\ r.open \in BOOLEAN /\ r.STATUS \in BOOLEAN /\ r.i \in 0 .. BLOCKS - 1
  BY DEF PlayInv, Plays
<1> USE DEF At
<1>1. CASE StartPlay(p)
  <2>1. PICK s \in BOOLEAN : pl' = [pl EXCEPT ![p] = [NotStarted EXCEPT !.pc = "request", !.STATUS = s,
                                                       !.round = pl[p].round + 1]]
    BY <1>1 DEF StartPlay
  <2> DEFINE k == pl[p].round + 1
             x == [NotStarted EXCEPT !.pc = "request", !.STATUS = s, !.round = k]
  <2>2. k \in Int
    BY <1>0 DEF Plays
  <2> HIDE DEF k
  <2>3. x \in Plays /\ x.pc = "request" /\ ~x.open /\ x.i = 0
    <3>1. NotStarted \in Plays /\ NotStarted.i = 0 /\ ~NotStarted.open
      BY DbDownloadAssumption DEF NotStarted, Plays, PlayPCs
    <3> HIDE DEF NotStarted
    <3> QED BY <2>2, <3>1 DEF Plays, PlayPCs
  <2>4. pl' = [pl EXCEPT ![p] = x]
    BY <2>1 DEF k
  <2> HIDE DEF x
  <2>5. Awaits(x, awaited')
    BY <2>3 DEF Awaits
  <2>6. requests' = requests /\ awaited' = awaited /\ (overlapped => overlapped')
        /\ (overlapped' \/ \A q \in Players \ {p} : pl[q].pc = "ended")
    BY <1>1 DEF StartPlay
  <2>7. requests' >= requests + (IF x.open /\ ~pl[p].open THEN 1 ELSE 0)
                             - (IF ~x.open /\ pl[p].open THEN 1 ELSE 0)
    BY <1>0, <2>3, <2>6
  <2> QED BY <1>0, <2>3, <2>4, <2>5, <2>6, <2>7, PlayMoves
<1>2. CASE r.pc = "request" /\ db_new_download(p)
  <2> DEFINE x == [r EXCEPT !.pc = "reset", !.open = TRUE]
  <2>1. x \in Plays /\ x.pc = "reset" /\ x.i = r.i /\ x.open
    BY <1>0 DEF Plays, PlayPCs
  <2>2. Statement(p, x, requests' = requests + 1, UNCHANGED requests) /\ UNCHANGED <<awaited, overlapped>>
    BY <1>2 DEF db_new_download
  <2>3. ~overlapped => x.i = 0 /\ ~r.open
    BY <1>0, <1>2, <2>1 DEF Awaits
  <2> HIDE DEF x
  <2>4. ~overlapped => Reached(x, awaited')
    BY <2>1, <2>3 DEF Reached
  <2>5. requests + 1 >= requests + Grown(pl[p], x)
    BY <1>0, <2>1 DEF Grown
  <2>6. requests' \in Int
    BY <1>0, <2>2 DEF Statement
  <2> QED BY <1>2, <2>1, <2>2, <2>3, <2>4, <2>5, <2>6, Tried DEF Statement
<1>3. CASE r.pc = "reset" /\ db_new_download(p)
  <2> DEFINE x == [r EXCEPT !.pc = "block"]
  <2>1. x \in Plays /\ x.pc = "block" /\ x.i = r.i /\ x.open = r.open
    BY <1>0 DEF Plays, PlayPCs
  <2>2. Statement(p, x, awaited' = 0 .. BLOCKS - 1, UNCHANGED awaited) /\ UNCHANGED <<requests, overlapped>>
    BY <1>3 DEF db_new_download
  <2> HIDE DEF x
  <2>3. ~overlapped /\ ~r.STATUS => Reached(x, 0 .. BLOCKS - 1)
    BY <1>0, <1>3, <2>1, DbDownloadAssumption DEF Awaits, Reached
  <2>5. requests' >= requests + Grown(pl[p], x)
    BY <1>0, <2>1, <2>2 DEF Grown
  <2> QED BY <1>0, <1>3, <2>1, <2>2, <2>3, <2>5, Tried DEF Statement
<1>4. CASE db_update_download(p)
  <2> DEFINE x == [r EXCEPT !.pc = "shown"]
             left == awaited \ {r.i}
  <2>1. x \in Plays /\ x.pc = "shown" /\ x.i = r.i /\ x.open = r.open
    BY <1>0 DEF Plays, PlayPCs
  <2>2. /\ Statement(p, x, awaited' = left, UNCHANGED awaited) /\ UNCHANGED <<requests, overlapped>>
        /\ r.pc = "block"
    BY <1>4 DEF db_update_download
  <2> HIDE DEF x
  <2>3. ~overlapped /\ ~r.STATUS => Reached(x, left)
    BY <1>0, <2>1, <2>2, DbDownloadAssumption DEF Awaits, Reached
  <2>5. requests' >= requests + Grown(pl[p], x)
    BY <1>0, <2>1, <2>2 DEF Grown
  <2> HIDE DEF left
  <2> QED BY <1>0, <2>1, <2>2, <2>3, <2>5, Tried DEF Statement
<1>5. CASE ShowTable(p)
  <2> DEFINE x == [r EXCEPT !.pc = "check"]
  <2>1. x \in Plays /\ x.pc = "check" /\ x.i = r.i /\ x.open = r.open
    BY <1>0 DEF Plays, PlayPCs
  <2>2. Statement(p, x, TRUE, TRUE) /\ UNCHANGED <<requests, awaited, overlapped>> /\ r.pc = "shown"
    BY <1>5 DEF ShowTable
  <2> HIDE DEF x
  <2>3. ~overlapped /\ ~r.STATUS => Reached(x, awaited)
    BY <1>0, <2>1, <2>2, DbDownloadAssumption DEF Awaits, Reached
  <2>5. requests' >= requests + Grown(pl[p], x)
    BY <1>0, <2>1, <2>2 DEF Grown
  <2> QED BY <1>0, <2>1, <2>2, <2>3, <2>5, Tried DEF Statement
<1>6. CASE check_download(p)
  <2>1. UNCHANGED <<requests, awaited, overlapped>> /\ r.pc = "check"
    BY <1>6 DEF check_download
  <2>2. CASE ~r.STATUS /\ awaited = {} /\ pl' = [pl EXCEPT ![p].pc = "finish"]
    <3> DEFINE x == [r EXCEPT !.pc = "finish"]
    <3>1. x \in Plays /\ x.pc = "finish" /\ x.i = r.i /\ x.open = r.open /\ x.STATUS = r.STATUS
      BY <1>0 DEF Plays, PlayPCs
    <3>2. pl' = [pl EXCEPT ![p] = x]
      BY <2>2
    <3> HIDE DEF x
    <3>3. ~overlapped => Awaits(x, awaited)
      <4> SUFFICES ASSUME ~overlapped PROVE Awaits(x, awaited)
        OBVIOUS
      <4>1. r.open /\ r.i + 1 .. BLOCKS - 1 \subseteq {}
        BY <1>0, <2>1, <2>2 DEF Awaits
      <4>2. r.i = BLOCKS - 1
        <5>1. r.i + 1 \notin r.i + 1 .. BLOCKS - 1
          BY <4>1
        <5> QED BY <5>1, <1>0, DbDownloadAssumption
      <4> QED BY <2>2, <3>1, <4>1, <4>2 DEF Awaits
    <3>4. requests' >= requests + (IF x.open /\ ~pl[p].open THEN 1 ELSE 0)
                               - (IF ~x.open /\ pl[p].open THEN 1 ELSE 0)
      BY <1>0, <2>1, <3>1
    <3> QED BY <1>0, <2>1, <3>1, <3>2, <3>3, <3>4, PlayMoves
  <2>3. CASE pl' = [pl EXCEPT ![p] = NextRound(@)]
    <3> DEFINE x == NextRound(r)
    <3>1. /\ x \in Plays /\ x.STATUS = r.STATUS /\ x.open = r.open
          /\ IF r.i + 1 < BLOCKS THEN x.pc = "block" /\ x.i = r.i + 1 ELSE x.pc = "ended"
      BY <1>0, NextRoundFields
    <3>2. pl' = [pl EXCEPT ![p] = x]
      BY <2>3
    <3> HIDE DEF x
    <3>3. ~overlapped => Awaits(x, awaited)
      BY <1>0, <2>1, <3>1 DEF Awaits
    <3>4. requests' >= requests + (IF x.open /\ ~pl[p].open THEN 1 ELSE 0)
                               - (IF ~x.open /\ pl[p].open THEN 1 ELSE 0)
      BY <1>0, <2>1, <3>1
    <3> QED BY <1>0, <2>1, <3>1, <3>2, <3>3, <3>4, PlayMoves
  <2> QED BY <1>6, <2>2, <2>3 DEF check_download
<1>7. CASE db_finish_download(p)
  <2> DEFINE y == NextRound(r)
             x == [y EXCEPT !.open = FALSE]
  <2>1. /\ y \in Plays /\ y.open = r.open
        /\ IF r.i + 1 < BLOCKS THEN y.pc = "block" /\ y.i = r.i + 1 ELSE y.pc = "ended"
    BY <1>0, NextRoundFields
  <2>2. /\ Statement(p, x, requests' = requests - 1, UNCHANGED requests) /\ UNCHANGED <<awaited, overlapped>>
        /\ r.pc = "finish"
    BY <1>7 DEF db_finish_download
  <2> HIDE DEF y
  <2>3. x \in Plays /\ x.pc = y.pc /\ x.i = y.i /\ ~x.open
    BY <2>1 DEF Plays
  <2> HIDE DEF x
  <2>4. ~overlapped => r.open /\ x.pc = "ended"
    BY <1>0, <2>1, <2>2, <2>3, DbDownloadAssumption DEF Awaits
  <2>5. ~overlapped => Reached(x, awaited) /\ requests - 1 >= requests + Grown(pl[p], x)
    BY <1>0, <2>3, <2>4 DEF Reached, Grown
  <2>6. requests' \in Int
    BY <1>0, <2>2 DEF Statement
  <2>7. x.pc \in {"block", "ended"}
    BY <2>1, <2>3
  <2> QED BY <1>0, <2>2, <2>3, <2>5, <2>6, <2>7, Tried DEF Statement
<1>8. CASE EndPlay(p)
  <2> DEFINE x == [r EXCEPT !.pc = "ended"]
  <2>1. x \in Plays /\ x.pc = "ended" /\ x.open = r.open
    BY <1>0 DEF Plays, PlayPCs
  <2>2. pl' = [pl EXCEPT ![p] = x] /\ UNCHANGED <<requests, awaited, overlapped>>
    BY <1>8 DEF EndPlay
  <2> HIDE DEF x
  <2>3. Awaits(x, awaited')
    BY <2>1 DEF Awaits
  <2>4. requests' >= requests + (IF x.open /\ ~pl[p].open THEN 1 ELSE 0)
                             - (IF ~x.open /\ pl[p].open THEN 1 ELSE 0)
    BY <1>0, <2>1, <2>2
  <2> QED BY <1>0, <2>1, <2>2, <2>3, <2>4, PlayMoves
<1> QED BY <1>1, <1>2, <1>3, <1>4, <1>5, <1>6, <1>7, <1>8 DEF PlayStep, db_new_download

(* The downloads of db_operation.cpp, for any number of blocks and          *)
(* programs, whichever statements fail and whichever answers are lost:      *)
(* while downloads do not overlap, files counts every open one.             *)
THEOREM DownloadsAreCounted == Spec => []RequestsAreCounted
<1>1. Init => PlayInv
  BY PlayInitInv DEF Init
<1>2. PlayInv /\ [Next]_vars => PlayInv'
  <2> SUFFICES ASSUME PlayInv, [Next]_vars PROVE PlayInv'
    OBVIOUS
  <2>1. ASSUME NEW p \in Players, PlayStep(p) PROVE PlayInv'
    BY <2>1, PlayNextInv
  <2>2. CASE UNCHANGED playvars
    BY <2>2 DEF playvars, PlayInv, Open
  <2> QED BY <2>1, <2>2 DEF Next, vars
<1>3. PlayInv => RequestsAreCounted
  BY DEF PlayInv, RequestsAreCounted, Open
<1> QED BY <1>1, <1>2, <1>3, PTL DEF Spec
=============================================================================

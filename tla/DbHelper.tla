------------------------------ MODULE DbHelper ------------------------------
(***************************************************************************)
(* DBhelper (db/mysql_operation.h; mysql_operation_copy.h is an older copy *)
(* of it): the tables that are to replace the maps of the proxy.  Programs *)
(* with a helper each work on one database, statement by statement, in the *)
(* order that db/main.cpp shows: does the file exist, create it, insert    *)
(* the MD5s of its blocks, mark the blocks that were uploaded, is the      *)
(* upload complete (main.cpp asks before the inserts, too, where the       *)
(* answer is true for the empty table).  A statement that fails is         *)
(* reported on the terminal and the program goes on.  Programs end at any  *)
(* statement.                                                              *)
(*                                                                         *)
(* Every statement is a transaction of its own (InnoDB, autocommit).  A    *)
(* connection that is lost is not opened again: all later statements fail. *)
(***************************************************************************)
EXTENDS Integers, Sequences, FiniteSets, Functions

CONSTANTS Helpers, \* programs, each with a DBhelper of its own
          Rounds,  \* bound: how often a program takes up a file
          Names,   \* names of files
          Md5s     \* Md5s[n]: the MD5s of the blocks of the file n, as numbers

ASSUME DbHelperAssumption == Rounds \in Nat /\ \A n \in Names : Md5s[n] \in Seq(Nat) \ {<<>>}

VARIABLES files,  \* the table files: its rows, in the order of the inserts
          tables, \* the tables of the files: sets of rows with the key block_md5
          hp,     \* hp[h]: where program h is
          raced   \* two programs worked on one name at the same time

dbvars == <<files, tables, hp, raced>>

Idle == [pc |-> "idle", name |-> "", i |-> 0, round |-> 0, file_cnt |-> 0, conn |-> FALSE,
         complete |-> {}]

\* A helper connects when it is made; an error is reported and ignored.
conn_db == {[Idle EXCEPT !.conn = up] : up \in BOOLEAN}

Blocks(n) == Len(Md5s[n])

-----------------------------------------------------------------------------
(* The statements, on a connection that is up.                              *)
Rows(n) == {i \in DOMAIN files : files[i].name = n}

check_file_exist(n) == Cardinality(Rows(n)) = 1

db_add_file_table(n) ==
  tables' = IF n \in DOMAIN tables THEN tables
            ELSE [m \in DOMAIN tables \cup {n} |-> IF m = n THEN {} ELSE tables[m]]

db_add_file_row(h) ==
  files' = Append(files, [id |-> hp[h].file_cnt, name |-> hp[h].name, block_num |-> Blocks(hp[h].name)])

Row(i, md5, stat) == [id |-> i, block_md5 |-> md5, upload_stat |-> stat]

\* Mistaken: a row with the key is replaced.
db_add_block_row_replaces(t, i, md5) == {x \in t : x.block_md5 # md5} \cup {Row(i, md5, 0)}

\* A row with the key is left alone, the statement fails.
db_add_block_row(t, i, md5) ==
  IF \E x \in t : x.block_md5 = md5 THEN t ELSE t \cup {Row(i, md5, 0)}

set_block_uploaded(t, i) == {IF x.id = i THEN [x EXCEPT !.upload_stat = 1] ELSE x : x \in t}

check_upload_status(t) == {x \in t : x.upload_stat = 0} = {}

\* Mistaken: without ORDER BY the rows come in the order of the key.
ByKey(t) == CHOOSE s \in [1 .. Cardinality(t) -> t] :
              \A i, j \in DOMAIN s : i < j => s[i].block_md5 < s[j].block_md5

\* ORDER BY id ASC
ById(t) == CHOOSE s \in [1 .. Cardinality(t) -> t] :
             \A i, j \in DOMAIN s : i < j => s[i].id < s[j].id

get_file_block_md5(t) == LET rows == ById(t) IN [i \in DOMAIN rows |-> rows[i].block_md5]

\* WHERE id = i
BlockRow(t, i) == {x \in t : x.id = i}

Marked(t) == {x \in t : x.upload_stat = 1}

get_block_id_string(t) == {x.id : x \in Marked(t)}

-----------------------------------------------------------------------------
Goto(h, pc)    == hp' = [hp EXCEPT ![h].pc = pc]
Keep           == UNCHANGED <<files, tables, raced>>
OnTable(h, t)  == tables' = [tables EXCEPT ![hp[h].name] = t] /\ UNCHANGED <<files, raced>>
HasTable(h)    == hp[h].conn /\ hp[h].name \in DOMAIN tables

Working(h) == hp[h].pc \notin {"idle", "dead"}

\* A program takes up a file it has not completed.
Begin(h, n) ==
  /\ hp[h].pc = "idle" /\ n \notin hp[h].complete /\ hp[h].round < Rounds
  /\ hp' = [hp EXCEPT ![h].pc = "exist", ![h].name = n, ![h].i = 0, ![h].round = @ + 1]
  /\ raced' = (raced \/ \E g \in Helpers \ {h} : Working(g) /\ hp[g].name = n)
  /\ UNCHANGED <<files, tables>>

\* A failed query is taken for a file that does not exist.
Exists(h) ==
  /\ hp[h].pc = "exist"
  /\ Goto(h, IF hp[h].conn /\ check_file_exist(hp[h].name) THEN "md5" ELSE "table")
  /\ Keep

\* Mistaken: create_file inserts the row first.
CreateRowFirst(h) ==
  \/ /\ hp[h].pc = "table"
     /\ IF hp[h].conn
        THEN db_add_file_row(h) /\ hp' = [hp EXCEPT ![h].pc = "row", ![h].file_cnt = @ + 1]
        ELSE UNCHANGED files /\ Goto(h, "row")
     /\ UNCHANGED <<tables, raced>>
  \/ /\ hp[h].pc = "row"
     /\ IF hp[h].conn THEN db_add_file_table(hp[h].name) ELSE UNCHANGED tables
     /\ Goto(h, "md5")
     /\ UNCHANGED <<files, raced>>

\* create_file: the table, then the row, whether or not there is a table.
create_file(h) ==
  \/ /\ hp[h].pc = "table"
     /\ IF hp[h].conn THEN db_add_file_table(hp[h].name) ELSE UNCHANGED tables
     /\ Goto(h, "row")
     /\ UNCHANGED <<files, raced>>
  \/ /\ hp[h].pc = "row"
     /\ IF hp[h].conn
        THEN db_add_file_row(h) /\ hp' = [hp EXCEPT ![h].pc = "md5", ![h].file_cnt = @ + 1]
        ELSE UNCHANGED files /\ Goto(h, "md5")
     /\ UNCHANGED <<tables, raced>>

\* The loop over the blocks that pc is in, one statement for each.
NextBlock(h, then) ==
  LET last == hp[h].i + 1 = Blocks(hp[h].name) IN
  hp' = [hp EXCEPT ![h].pc = IF last THEN then ELSE @, ![h].i = IF last THEN 0 ELSE @ + 1]

set_block_md5(h) ==
  /\ hp[h].pc = "md5"
  /\ IF HasTable(h)
     THEN OnTable(h, db_add_block_row(tables[hp[h].name], hp[h].i, Md5s[hp[h].name][hp[h].i + 1]))
     ELSE Keep
  /\ NextBlock(h, "upload")

Uploaded(h) ==
  /\ hp[h].pc = "upload"
  /\ IF HasTable(h) THEN OnTable(h, set_block_uploaded(tables[hp[h].name], hp[h].i)) ELSE Keep
  /\ NextBlock(h, "status")

\* Nothing more is uploaded now.
Stop(h) == hp[h].pc = "upload" /\ Goto(h, "status") /\ Keep

\* The answer is kept in complete.
Check(h) ==
  /\ hp[h].pc = "status"
  /\ hp' = [hp EXCEPT ![h].pc = "idle",
       ![h].i = 0,
       ![h].complete = IF HasTable(h) /\ check_upload_status(tables[hp[h].name])
                       THEN @ \cup {hp[h].name} ELSE @]
  /\ Keep

\* get_block_num: the first row is used whether or not there is one.
get_block_num(h, n) ==
  /\ hp[h].pc = "idle" /\ hp[h].conn /\ Rows(n) = {}
  /\ Goto(h, "dead")
  /\ Keep

\* get_block_md5, too.
get_block_md5(h, n) ==
  /\ hp[h].pc = "idle" /\ hp[h].conn /\ n \in DOMAIN tables
  /\ \E i \in 0 .. Blocks(n) - 1 : BlockRow(tables[n], i) = {}
  /\ Goto(h, "dead")
  /\ Keep

LoseConnection(h) == /\ Working(h) /\ hp[h].conn
                     /\ hp' = [hp EXCEPT ![h].conn = FALSE]
                     /\ Keep

End(h) == Working(h) /\ Goto(h, "dead") /\ Keep

HelperStep(h) == \/ \E n \in Names : Begin(h, n) \/ get_block_num(h, n) \/ get_block_md5(h, n)
                 \/ Exists(h) \/ create_file(h) \/ set_block_md5(h) \/ Uploaded(h) \/ Stop(h) \/ Check(h)
                 \/ LoseConnection(h) \/ End(h)

HelperInit == /\ files = <<>> /\ tables = [n \in {} |-> {}]
              /\ hp \in [Helpers -> conn_db] /\ raced = FALSE

-----------------------------------------------------------------------------
HelperTypeOK ==
  /\ \A i \in DOMAIN files : files[i].name \in Names /\ files[i].id \in Nat
  /\ \A n \in DOMAIN tables : /\ n \in Names
                              /\ \A x \in tables[n] : x.id \in 0 .. Blocks(n) - 1 /\ x.upload_stat \in {0, 1}
  /\ \A h \in Helpers : /\ hp[h].pc \in {"idle", "dead", "exist", "table", "row", "md5", "upload", "status"}
                        /\ Working(h) => hp[h].i \in 0 .. Blocks(hp[h].name) - 1

(* Programs may end between the two statements of create_file, and race to *)
(* create one file: a row of files always has its table.                   *)
RowHasTable == \A i \in DOMAIN files : files[i].name \in DOMAIN tables

(* A program is told that an upload is complete only when every MD5 of the  *)
(* file has a row that is marked: after programs that ended half-way, races *)
(* and blocks with equal MD5s too.                                          *)
CompleteIsMarked ==
  \A h \in Helpers : \A n \in hp[h].complete : \A i \in 1 .. Blocks(n) :
    \E x \in tables[n] : x.block_md5 = Md5s[n][i] /\ x.upload_stat = 1

(* What the other programs are told of a file that is complete: it exists   *)
(* (it has one row, or several if programs raced to create it), and, if its *)
(* blocks all differ, all of them are uploaded, with the MD5s in the order  *)
(* of the blocks, although the table is stored in the order of the MD5s.    *)
CompleteReadsBack ==
  \A h \in Helpers : \A n \in hp[h].complete :
    /\ IF raced THEN Rows(n) # {} ELSE check_file_exist(n)
    /\ IsInjective(Md5s[n]) => /\ get_file_block_md5(tables[n]) = Md5s[n]
                               /\ get_block_id_string(tables[n]) = 0 .. Blocks(n) - 1
=============================================================================

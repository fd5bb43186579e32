----------------------------- MODULE DbDownload -----------------------------
(***************************************************************************)
(* The downloads of db/db_operation.cpp: db_new_download, db_update_       *)
(* download, check_download and db_finish_download, in the order in which  *)
(* main plays a download (lines 117 to 134, which are commented out).      *)
(* Programs play downloads of one file that is in the database; they end   *)
(* at any statement and are started again.  Statements fail as in DbDemo,  *)
(* and each program has its own STATUS.                                    *)
(***************************************************************************)
EXTENDS Integers, FiniteSets

CONSTANTS Players,     \* programs
          PlayRounds,  \* bound: how often each is started
          BLOCKS       \* blocks of the file

ASSUME DbDownloadAssumption == BLOCKS \in Nat \ {0} /\ PlayRounds \in Nat /\ IsFiniteSet(Players)

VARIABLES requests,   \* download_stat of the file's row in files
          awaited,    \* the blocks with download_stat = 1
          pl,         \* pl[p]: where program p is
          overlapped  \* two programs played at the same time

playvars == <<requests, awaited, pl, overlapped>>

\* open: its request is counted, and it has not finished.
NotStarted == [pc |-> "ended", STATUS |-> FALSE, i |-> 0, open |-> FALSE, round |-> 0]

PlayInit == /\ requests = 0 /\ awaited = {} /\ overlapped = FALSE
            /\ pl = [p \in Players |-> NotStarted]

-----------------------------------------------------------------------------
\* Mistaken: a call looks at its own statement only.
StatementAnyway(p, x, effect, none) ==
  \/ effect /\ \E s \in BOOLEAN : pl' = [pl EXCEPT ![p] = [x EXCEPT !.STATUS = s]]
  \/ none /\ pl' = [pl EXCEPT ![p] = [x EXCEPT !.STATUS = TRUE, !.open = pl[p].open]]

\* A statement of program p, which is x when it took effect; none of it when
\* STATUS is not zero.  It may fail, before or after it took effect.
Statement(p, x, effect, none) ==
  \/ ~pl[p].STATUS /\ effect /\ \E s \in BOOLEAN : pl' = [pl EXCEPT ![p] = [x EXCEPT !.STATUS = s]]
  \/ none /\ pl' = [pl EXCEPT ![p] = [x EXCEPT !.STATUS = TRUE, !.open = pl[p].open]]

At(p, pc) == pl[p].pc = pc

\* A program is started; it connects, or STATUS is not zero.
StartPlay(p) ==
  /\ At(p, "ended") /\ pl[p].round < PlayRounds
  /\ \E s \in BOOLEAN : pl' = [pl EXCEPT ![p] = [NotStarted EXCEPT !.pc = "request", !.STATUS = s,
                                                   !.round = pl[p].round + 1]]
  /\ overlapped' = (overlapped \/ \E q \in Players \ {p} : ~At(q, "ended"))
  /\ UNCHANGED <<requests, awaited>>

\* db_new_download: one more request, then all blocks are awaited.
db_new_download(p) ==
  \/ /\ At(p, "request")
     /\ Statement(p, [pl[p] EXCEPT !.pc = "reset", !.open = TRUE],
                  requests' = requests + 1, UNCHANGED requests)
     /\ UNCHANGED <<awaited, overlapped>>
  \/ /\ At(p, "reset")
     /\ Statement(p, [pl[p] EXCEPT !.pc = "block"], awaited' = 0 .. BLOCKS - 1, UNCHANGED awaited)
     /\ UNCHANGED <<requests, overlapped>>

db_update_download(p) ==
  /\ At(p, "block")
  /\ Statement(p, [pl[p] EXCEPT !.pc = "shown"], awaited' = awaited \ {pl[p].i}, UNCHANGED awaited)
  /\ UNCHANGED <<requests, overlapped>>

\* db_query, whose result is shown.
ShowTable(p) ==
  /\ At(p, "shown")
  /\ Statement(p, [pl[p] EXCEPT !.pc = "check"], TRUE, TRUE)
  /\ UNCHANGED <<requests, awaited, overlapped>>

\* The next block, or the end of main.
NextRound(x) ==
  IF x.i + 1 < BLOCKS THEN [x EXCEPT !.pc = "block", !.i = @ + 1] ELSE [x EXCEPT !.pc = "ended"]

\* False when a block is awaited, and when the query fails.
check_download(p) ==
  /\ At(p, "check")
  /\ \/ /\ ~pl[p].STATUS /\ awaited = {}
        /\ pl' = [pl EXCEPT ![p].pc = "finish"]
     \/ pl' = [pl EXCEPT ![p] = NextRound(@)]
  /\ UNCHANGED <<requests, awaited, overlapped>>

\* A db_query follows; when it fails, STATUS is what it is when the answer to
\* this statement is lost.
db_finish_download(p) ==
  /\ At(p, "finish")
  /\ Statement(p, [NextRound(pl[p]) EXCEPT !.open = FALSE],
               requests' = requests - 1, UNCHANGED requests)
  /\ UNCHANGED <<awaited, overlapped>>

EndPlay(p) ==
  /\ ~At(p, "ended")
  /\ pl' = [pl EXCEPT ![p].pc = "ended"]
  /\ UNCHANGED <<requests, awaited, overlapped>>

PlayStep(p) == \/ StartPlay(p) \/ db_new_download(p) \/ db_update_download(p) \/ ShowTable(p)
               \/ check_download(p) \/ db_finish_download(p) \/ EndPlay(p)

-----------------------------------------------------------------------------
PlayTypeOK ==
  /\ requests \in Int /\ awaited \subseteq 0 .. BLOCKS - 1 /\ overlapped \in BOOLEAN
  /\ \A p \in Players : /\ pl[p].pc \in {"ended", "request", "reset", "block", "shown", "check", "finish"}
                        /\ pl[p].i \in 0 .. BLOCKS - 1

(* Downloads that do not overlap, statements that fail before or after they *)
(* took effect, programs that end anywhere: files never counts fewer        *)
(* requests than downloads that were begun and not finished.  The sticky    *)
(* STATUS is what keeps a download whose blocks were not reset from         *)
(* finishing at its first block, and again at every later one.              *)
RequestsAreCounted ==
  ~overlapped => requests >= Cardinality({p \in Players : pl[p].open})
=============================================================================

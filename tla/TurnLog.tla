------------------------------ MODULE TurnLog ------------------------------
(***************************************************************************)
(* What TurnGateway promises about one handset session: a log of completed *)
(* turns that grows one keypress at a time for one caller until it ends,   *)
(* whose entries are never changed, only all forgotten together when their *)
(* retention ends; and every answer handed out is an entry of that log.    *)
(* TurnGateway implements this specification.                              *)
(***************************************************************************)
EXTENDS Integers, Sequences

CONSTANTS Requests, Entries, None

VARIABLES
  log,      \* sequence of the turns in force
  age,      \* how many times the log was forgotten
  archive,  \* every <<age, entry>> ever logged
  answers   \* request -> the entry it was answered with, or None

logVars == <<log, age, archive, answers>>

LogInit ==
  /\ log = <<>>
  /\ age = 0
  /\ archive = {}
  /\ answers = [r \in Requests |-> None]

\* e continues the log: the first entry has the empty transcript, each later
\* one the previous transcript and one input more, from the same caller, and
\* nothing follows an END.
Continues(e) ==
  /\ Len(e.transcript) = Len(log)
  /\ Len(log) > 0 =>
       LET last == log[Len(log)] IN
         /\ e.caller = last.caller
         /\ ~last.response.end
         /\ SubSeq(e.transcript, 1, Len(log) - 1) = last.transcript

LogTurn(e) ==
  /\ Continues(e)
  /\ log' = Append(log, e)
  /\ archive' = archive \cup {<<age, e>>}
  /\ UNCHANGED <<age, answers>>

Forget ==
  /\ log' = <<>>
  /\ age' = age + 1
  /\ UNCHANGED <<archive, answers>>

\* An answer is given once, from the archive: nothing is made up.
AnswerFrom(r, e) ==
  /\ answers[r] = None
  /\ \E a \in 0..age : <<a, e>> \in archive
  /\ answers' = [answers EXCEPT ![r] = e]
  /\ UNCHANGED <<log, age, archive>>

LogNext ==
  \/ \E e \in Entries : LogTurn(e)
  \/ Forget
  \/ \E r \in Requests, e \in Entries : AnswerFrom(r, e)

LogSpec == LogInit /\ [][LogNext]_logVars
=============================================================================

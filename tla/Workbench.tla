------------------------------ MODULE Workbench ------------------------------
(***************************************************************************)
(* The local workbench (LocalWorkbench.js) behind its HTTP server          *)
(* (WorkbenchServer.js): requests create, inspect, drive, reset and close  *)
(* synthetic sessions.  One operation at a time works on a session, by its *)
(* busy flag; inspection takes no flag and looks again after its read.     *)
(*                                                                         *)
(* A machine is a number, fresh for each installation.  `stored' is the    *)
(* moment of a machine's storage: how many turns have made their writes in *)
(* it, and whether it holds the session.                                   *)
(***************************************************************************)
EXTENDS Naturals, FiniteSets

CONSTANTS
  Ids,          \* session identifiers, randomUUID
  Requests,     \* requests the server may be working on at a time
  MaxSessions,
  MaxMachines,  \* bounds on the installations and
  MaxSends      \* on the turns of a session

ASSUME BenchAssumption == MaxSessions \in Nat

VARIABLES
  sessions,  \* the map's keys
  record,    \* of each id: busy, machine (0 before its installation), totalTurns
  stored,    \* of each id: [machine, turns, there], its storage
  machines,  \* the number of machines created
  request,   \* what each request is doing
  server,    \* "open", "draining", "closing", "closed" or "failed"
  toClose    \* the sessions that its close has still to close
benchVars == <<sessions, record, stored, machines, request, server, toClose>>

Waiting == [op |-> "none"]
Arrived == [op |-> "arrived"]
NewStorage(m) == [machine |-> m, turns |-> 0, there |-> FALSE]
Blank == [busy |-> FALSE, machine |-> 0, turns |-> 0]

Found(id) == id \in sessions /\ record[id].machine # 0  \* _record
Starts(c, next) ==
  request[c] = Arrived /\ server # "closed" /\ request' = [request EXCEPT ![c] = next]
Proceeds(c, next) == request' = [request EXCEPT ![c] = next]
Busy(id, flag) == record' = [record EXCEPT ![id].busy = flag]

\* A request arrives; its body is read before the workbench is called, and
\* may be refused.
Arrive(c) ==
  /\ server = "open" /\ request[c] = Waiting
  /\ Proceeds(c, Arrived)
  /\ UNCHANGED <<sessions, record, stored, machines, server, toClose>>

Refuse(c) ==
  /\ request[c] = Arrived /\ Proceeds(c, Waiting)
  /\ UNCHANGED <<sessions, record, stored, machines, server, toClose>>

-----------------------------------------------------------------------------
(* createSession                                                           *)

\* Capacity is reserved before the factory is awaited.
Create(c, id) ==
  /\ Starts(c, [op |-> "install", id |-> id])
  /\ Cardinality(sessions) < MaxSessions
  /\ id \notin sessions /\ record[id] = Blank
  /\ sessions' = sessions \cup {id}
  /\ Busy(id, TRUE)
  /\ UNCHANGED <<stored, machines, server, toClose>>

Reading(id, own) ==
  [op |-> "inspect", id |-> id, machine |-> record'[id].machine,
   turns |-> record'[id].turns, read |-> FALSE, stored |-> NewStorage(0), own |-> own]

\* The machine is installed, the session free, and inspected for the answer.
Created(c) ==
  LET id == request[c].id IN
  /\ request[c].op = "install"
  /\ machines < MaxMachines /\ machines' = machines + 1
  /\ record' = [record EXCEPT ![id] = [busy |-> FALSE, machine |-> machines + 1, turns |-> 0]]
  /\ stored' = [stored EXCEPT ![id] = NewStorage(machines + 1)]
  /\ Proceeds(c, Reading(id, TRUE))
  /\ UNCHANGED <<sessions, server, toClose>>

CreateFails(c) ==
  /\ request[c].op = "install"
  /\ sessions' = sessions \ {request[c].id}
  /\ Proceeds(c, Waiting)
  /\ UNCHANGED <<record, stored, machines, server, toClose>>

-----------------------------------------------------------------------------
(* inspect                                                                 *)

Inspect(c, id) ==
  /\ Found(id) /\ ~record[id].busy
  /\ UNCHANGED <<sessions, record, stored, machines, server, toClose>>
  /\ Starts(c, Reading(id, FALSE))

\* The storage is read; its answer arrives later.
Read(c) ==
  /\ request[c].op = "inspect" /\ ~request[c].read
  /\ Proceeds(c, [request[c] EXCEPT !.read = TRUE, !.stored = stored[request[c].id]])
  /\ UNCHANGED <<sessions, record, stored, machines, server, toClose>>

SteadyMachine(r) ==  \* mutant: turns are not compared
  ~record[r.id].busy /\ record[r.id].machine = r.machine
Steady(r) ==
  /\ ~record[r.id].busy /\ record[r.id].machine = r.machine
  /\ record[r.id].turns = r.turns

\* The snapshot is answered, or refused because the session was worked on.
\* A refused creation takes the session away again.
Inspected(c) ==
  LET r == request[c] IN
  /\ r.op = "inspect" /\ r.read
  /\ Proceeds(c, IF Steady(r) THEN [op |-> "answer", stored |-> r.stored,
                                     machine |-> r.machine, turns |-> record[r.id].turns]
                  ELSE Waiting)
  /\ sessions' = IF r.own /\ ~Steady(r) THEN sessions \ {r.id} ELSE sessions
  /\ UNCHANGED <<record, stored, machines, server, toClose>>

Delivered(c) ==
  /\ request[c].op = "answer" /\ Proceeds(c, Waiting)
  /\ UNCHANGED <<sessions, record, stored, machines, server, toClose>>

-----------------------------------------------------------------------------
(* send, reset, replay and closeSession                                    *)

Begin(c, id, op) ==
  /\ Starts(c, [op |-> op, id |-> id])
  /\ Found(id) /\ ~record[id].busy
  /\ Busy(id, TRUE)
  /\ UNCHANGED <<sessions, stored, machines, server, toClose>>

\* The operation ends, whether it succeeds or throws.
Finishes(c) ==
  /\ request[c].op \in {"send", "sent", "reset", "reinstall", "replay", "close"}
  /\ Busy(request[c].id, FALSE)
  /\ Proceeds(c, Waiting)
  /\ UNCHANGED <<sessions, stored, machines, server, toClose>>

\* The machine makes the turn's writes, none if it fails early, and then the
\* observer records its event.  A session that was there and is gone takes
\* no turn.
Stores(c) ==
  LET id == request[c].id IN
  /\ request[c].op = "send" /\ record[id].turns < MaxSends
  /\ stored[id].there \/ record[id].turns = 0
  /\ \E there \in {TRUE, stored[id].there} :
       stored' = [stored EXCEPT ![id].turns = @ + 1, ![id].there = there]
  /\ Proceeds(c, [request[c] EXCEPT !.op = "stored"])
  /\ UNCHANGED <<sessions, record, machines, server, toClose>>

Traced(c) ==
  LET id == request[c].id IN
  /\ request[c].op = "stored"
  /\ record' = [record EXCEPT ![id].turns = @ + 1]
  /\ Proceeds(c, [request[c] EXCEPT !.op = "sent"])
  /\ UNCHANGED <<sessions, stored, machines, server, toClose>>

\* endSession: the stored session is removed, for a new machine or for good.
Gone(id) == [stored EXCEPT ![id].there = FALSE]

Removed(c) ==
  /\ request[c].op = "reset"
  /\ Proceeds(c, [request[c] EXCEPT !.op = "reinstall"])
  /\ stored' = Gone(request[c].id)
  /\ UNCHANGED <<sessions, record, machines, server, toClose>>

Reinstalled(c) ==
  LET id == request[c].id IN
  /\ request[c].op = "reinstall" /\ machines < MaxMachines
  /\ machines' = machines + 1
  /\ record' = [record EXCEPT ![id] = [busy |-> FALSE, machine |-> machines + 1, turns |-> 0]]
  /\ stored' = [stored EXCEPT ![id] = NewStorage(machines + 1)]
  /\ Proceeds(c, Waiting)
  /\ UNCHANGED <<sessions, server, toClose>>

Closed(c) ==
  /\ request[c].op = "close"
  /\ sessions' = sessions \ {request[c].id}
  /\ stored' = Gone(request[c].id)
  /\ Busy(request[c].id, FALSE)
  /\ Proceeds(c, Waiting)
  /\ UNCHANGED <<machines, server, toClose>>

\* External: the stored session expires.
StoredExpires(id) ==
  /\ stored[id].there /\ stored' = Gone(id)
  /\ UNCHANGED <<sessions, record, machines, request, server, toClose>>

-----------------------------------------------------------------------------
(* The server's close: no new request, those at work end, and the sessions *)
(* are closed one after the other; one that cannot be stops it.            *)

Drain ==
  /\ server = "open" /\ server' = "draining"
  /\ UNCHANGED <<sessions, record, stored, machines, request, toClose>>

DrainedAtOnce == server = "draining"  \* mutant
Drained == server = "draining" /\ \A c \in Requests : request[c] = Waiting

Closing ==
  /\ Drained /\ server' = "closing" /\ toClose' = sessions
  /\ UNCHANGED <<sessions, record, stored, machines, request>>

CloseNext ==
  /\ server = "closing"
  /\ \/ /\ toClose = {} /\ server' = "closed"
        /\ UNCHANGED <<sessions, stored, toClose>>
     \/ \E id \in toClose :
          \/ /\ Found(id) /\ ~record[id].busy
             /\ sessions' = sessions \ {id} /\ toClose' = toClose \ {id}
             /\ stored' = Gone(id)
             /\ UNCHANGED server
          \/ server' = "failed" /\ UNCHANGED <<sessions, stored, toClose>>
  /\ UNCHANGED <<record, machines, request>>

BenchInit ==
  /\ sessions = {} /\ machines = 0 /\ server = "open" /\ toClose = {}
  /\ record = [id \in Ids |-> Blank] /\ stored = [id \in Ids |-> NewStorage(0)]
  /\ request = [c \in Requests |-> Waiting]

BenchNext ==
  \/ \E c \in Requests :
       \/ \E id \in Ids :
            \/ Create(c, id) \/ Inspect(c, id)
            \/ \E op \in {"send", "reset", "replay", "close"} : Begin(c, id, op)
       \/ Arrive(c) \/ Refuse(c) \/ Created(c) \/ CreateFails(c) \/ Read(c) \/ Inspected(c) \/ Delivered(c)
       \/ Stores(c) \/ Traced(c) \/ Removed(c) \/ Reinstalled(c) \/ Closed(c) \/ Finishes(c)
  \/ \E id \in Ids : StoredExpires(id)
  \/ Drain \/ Closing \/ CloseNext

BenchSpec == BenchInit /\ [][BenchNext]_benchVars

-----------------------------------------------------------------------------
(* Properties                                                              *)

\* An inspection that is answered shows one moment of the session: the
\* stored session it read belongs to the machine and the turns it reports,
\* although turns, resets and closes may run between its read and its end.
InspectsOneMoment ==
  \A c \in Requests : request[c].op = "answer" =>
    /\ request[c].stored.machine = request[c].machine
    /\ request[c].stored.turns = request[c].turns

\* The reserved and installed sessions never exceed the limit, and when the
\* server has closed none is left, also none that was being created.
SessionsAccounted ==
  /\ Cardinality(sessions) <= MaxSessions
  /\ server = "closed" => sessions = {}

\* Two clients and the close of the server may interleave in any way.
BenchSound == InspectsOneMoment /\ SessionsAccounted
=============================================================================

------------------------------ MODULE Ingester ------------------------------
(***************************************************************************)
(* pkg/criteria's Ingester, which makes a node of every event of a log and *)
(* joins it by a FOLLOWED_BY edge to the event before it in its workflow,  *)
(* and the command that feeds it a file line by line.  The events before   *)
(* are known from a map in memory, updated before the node is stored; the  *)
(* store may refuse the node, or the edge alone; and a new process reads   *)
(* the file from its first line with an empty map.                         *)
(*                                                                         *)
(* The command is a crew of one; the Ingester's mutex admits larger ones.  *)
(***************************************************************************)
EXTENDS Naturals, Sequences, FiniteSets

CONSTANTS
  Workers,      \* goroutines that may call IngestNDJSONEvent
  Workflows,    \* names of workflows
  EventIds,     \* event IDs
  Uses,         \* the crews of workers considered, each with an event file
  MayFail,      \* whether the store may refuse a write
  None          \* no event, or an event's blank workflow

Event == [workflow : Workflows \cup {None}, id : EventIds]

ASSUME IngestAssumption ==
  /\ None \notin Workflows \cup EventIds
  /\ Uses \subseteq [crew : SUBSET Workers, log : Seq(Event)]
  /\ MayFail \in BOOLEAN

VARIABLES
  crew,         \* the workers
  log,          \* the file
  read,         \* how many of its lines this process has read
  last,         \* lastEventByWorkflow
  call,         \* what each worker is in the middle of
  nodes,        \* IDs of the events in the store
  edges,        \* [source, target] of its FOLLOWED_BY edges
  failed        \* IDs of the events that Remember ever returned an error for

use == <<crew, log>>
store == <<nodes, edges, failed>>
vars == <<use, read, last, call, store>>

Lines == 1..Len(log)
Edge == [source : EventIds, target : EventIds]

\* "parsed" has line `line' in hand, "linked" also the edges to store with it.
Call == [stage : {"idle", "parsed", "linked"}, line : Nat, edges : SUBSET Edge]
Idle == [stage |-> "idle", line |-> 0, edges |-> {}]

\* A worker that is not idle has a line it has read.
TypeOK ==
  /\ crew \subseteq Workers
  /\ log \in Seq(Event)
  /\ read \in 0..Len(log)
  /\ last \in [Workflows -> EventIds \cup {None}]
  /\ call \in [Workers -> Call]
  /\ \A k \in Workers : call[k].stage # "idle" => call[k].line \in 1..read
  /\ nodes \subseteq EventIds /\ failed \subseteq EventIds
  /\ edges \subseteq Edge

Init ==
  /\ \E u \in Uses : crew = u.crew /\ log = u.log
  /\ read = 0
  /\ last = [w \in Workflows |-> None]
  /\ call = [k \in Workers |-> Idle]
  /\ nodes = {} /\ edges = {} /\ failed = {}

-----------------------------------------------------------------------------
\* The command's loop: the next line of the file, parsed.
ReadLine(k) ==
  /\ k \in crew /\ call[k] = Idle
  /\ read < Len(log)
  /\ read' = read + 1
  /\ call' = [call EXCEPT ![k].stage = "parsed", ![k].line = read + 1]
  /\ UNCHANGED <<use, last, store>>

event(k) == log[call[k].line]

\* The edge from the event before, unless that is this event itself.
EdgesFrom(prev, id) ==
  IF prev \in {None, id} THEN {} ELSE {[source |-> prev, target |-> id]}

Link_forgets(k) ==
  /\ call[k].stage = "parsed" /\ event(k).workflow # None
  /\ call' = [call EXCEPT ![k].stage = "linked",
                          ![k].edges = EdgesFrom(last[event(k).workflow], event(k).id)]
  /\ last' = [last EXCEPT ![event(k).workflow] = IF @ = None THEN event(k).id ELSE @]
  /\ UNCHANGED <<use, read, store>>

\* Under ing.mu: look the event before up and take its place.
Link(k) ==
  /\ call[k].stage = "parsed" /\ event(k).workflow # None
  /\ call' = [call EXCEPT ![k].stage = "linked",
                          ![k].edges = EdgesFrom(last[event(k).workflow], event(k).id)]
  /\ last' = [last EXCEPT ![event(k).workflow] = event(k).id]
  /\ UNCHANGED <<use, read, store>>

\* An event of no workflow follows nothing.
LinkNothing(k) ==
  /\ call[k].stage = "parsed" /\ event(k).workflow = None
  /\ call' = [call EXCEPT ![k].stage = "linked"]
  /\ UNCHANGED <<use, read, last, store>>

Return(k) == call' = [call EXCEPT ![k] = Idle]

\* engine.Remember: the node, then its edge.
Remember(k) ==
  /\ call[k].stage = "linked"
  /\ nodes' = nodes \cup {event(k).id}
  /\ edges' = edges \cup call[k].edges
  /\ Return(k)
  /\ UNCHANGED <<use, read, last, failed>>

RememberFails_undoes(k) ==
  /\ MayFail
  /\ call[k].stage = "linked"
  /\ nodes' \in {nodes, nodes \cup {event(k).id}}
  /\ failed' = failed \cup {event(k).id}
  /\ \E prev \in {e.source : e \in call[k].edges} :
       last' = [last EXCEPT ![event(k).workflow] = prev]
  /\ Return(k)
  /\ UNCHANGED <<use, read, edges>>

\* It fails at either; the command logs a warning and reads on, and the map
\* still names the event.
RememberFails(k) ==
  /\ MayFail
  /\ call[k].stage = "linked"
  /\ nodes' \in {nodes, nodes \cup {event(k).id}}
  /\ failed' = failed \cup {event(k).id}
  /\ Return(k)
  /\ UNCHANGED <<use, read, last, edges>>

\* The command reads with one worker, and it alone is run again on its file.
IsCommand == \E k \in Workers : crew = {k}

Restart_keepsMap ==
  /\ IsCommand
  /\ read' = 0
  /\ call' = [k \in Workers |-> Idle]
  /\ UNCHANGED <<use, last, store>>

Restart_keepsWorker ==
  /\ IsCommand
  /\ read' = 0
  /\ last' = [w \in Workflows |-> None]
  /\ UNCHANGED <<use, call, store>>

\* The process ends, at whatever point, and the command is run again on the
\* same file.
Restart ==
  /\ IsCommand
  /\ read' = 0
  /\ last' = [w \in Workflows |-> None]
  /\ call' = [k \in Workers |-> Idle]
  /\ UNCHANGED <<use, store>>

Next ==
  \/ \E k \in Workers :
       \/ ReadLine(k) \/ Link(k) \/ LinkNothing(k)
       \/ Remember(k) \/ RememberFails(k)
  \/ Restart

Spec == Init /\ [][Next]_vars

-----------------------------------------------------------------------------
(* The edges and the log.                                                  *)

Of(i, w) == log[i].workflow = w

\* Line j is the next of its workflow after line i.
NextOf(i, j) ==
  /\ i < j
  /\ log[i].workflow # None /\ Of(j, log[i].workflow)
  /\ \A m \in Lines : i < m /\ m < j => ~Of(m, log[i].workflow)

Steps ==
  {e \in Edge : /\ e.source # e.target
                /\ \E i, j \in Lines : /\ NextOf(i, j)
                                       /\ e.source = log[i].id /\ e.target = log[j].id}

AtEnd == read = Len(log) /\ \A k \in Workers : call[k] = Idle

\* Whatever fails, and whatever the command reads again after a restart, its
\* edges join two events of which one came right after the other in its
\* workflow; none skips an event that could not be stored.
EdgesAreSteps == IsCommand => edges \subseteq Steps

\* If moreover nothing ever failed, then at the end of the file the store has
\* every event and every such edge.
StoreIsTheLog ==
  IsCommand /\ AtEnd /\ failed = {} =>
    nodes = {log[i].id : i \in Lines} /\ edges = Steps

\* An edge of the command has a missing end only because storing that event failed, never
\* because of a restart between two steps.
DanglingMeansFailed ==
  IsCommand => \A e \in edges : {e.source, e.target} \subseteq nodes \cup failed

\* In the files that several workers share, no event ID comes twice.
DistinctIds ==
  \A u \in Uses : (\E k \in Workers : u.crew = {k}) \/
    \A i, j \in 1..Len(u.log) : u.log[i].id = u.log[j].id => i = j

\* Workers that overtake one another do not fork a workflow: an event has one
\* successor and one predecessor at most (under DistinctIds).
NoFork ==
  ~IsCommand => \A e, f \in edges : e.source = f.source \/ e.target = f.target => e = f

\* If nothing failed, at the end they have made one chain of each workflow, in
\* the order in which they came by the mutex (under DistinctIds).
IsChain(ids, links) ==
  \E s \in [1..Len(log) -> EventIds] : LET n == Cardinality(ids) IN
    /\ ids = {s[i] : i \in 1..n}
    /\ links = {[source |-> s[i], target |-> s[i + 1]] : i \in 1..n - 1}

WorkflowIsAChain ==
  ~IsCommand /\ AtEnd /\ failed = {} =>
    \A w \in Workflows : LET ids == {log[i].id : i \in {m \in Lines : Of(m, w)}} IN
      IsChain(ids, {e \in edges : e.source \in ids})
=============================================================================

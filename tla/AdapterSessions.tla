--------------------------- MODULE AdapterSessions ---------------------------
(***************************************************************************)
(* pkg/adapter's CriteriaDBAdapter: the requests of a workflow host open   *)
(* and close one engine that all of them share, and execute on a handle    *)
(* they copied under a.mu and use after they released it.  The store is a  *)
(* bbolt file, which one process at a time can hold open, or a PostgreSQL  *)
(* database, which any number can; another process (the command line, a    *)
(* second adapter) uses it too.                                            *)
(*                                                                         *)
(* Operations of the engine are single steps here: MemoryEngineView shows  *)
(* that this is what its callers see.  A memory is a node or an edge as it *)
(* was remembered; an engine and a store are the sets of those they hold.  *)
(***************************************************************************)
EXTENDS FiniteSets, Naturals

CONSTANTS
  Requests,     \* goroutines of the host, one request at a time each
  Engines,      \* handles of engines; one that nothing refers to is reused
  Memories,     \* what can be remembered, each once
  MaxLeaks,     \* bound on the stores that a failing LoadAll leaves open
  None

ASSUME AdapterAssumption ==
  /\ None \notin Requests \cup Engines
  /\ MaxLeaks \in Nat

VARIABLES
  amu,          \* the request holding a.mu between two steps
  engine,       \* a.engine
  isOpen,       \* the engines whose store this process has open
  leaked,       \* those it also has open, that LoadAll failed for
  cache,        \* the maps of each engine
  exclusive,    \* the store is TRUE: a bbolt file, FALSE: in PostgreSQL
  disk,         \* what is in it
  other,        \* whether another process has the store open
  acked,        \* what was acknowledged: here, and by the other process
  call          \* what each request is in the middle of

handles == <<isOpen, leaked>>
store == <<exclusive, disk, other>>
vars == <<amu, engine, handles, cache, store, acked, call>>

Acked == [here : SUBSET Memories, elsewhere : SUBSET Memories]

\* "open", "execute" and "close" wait for a.mu, "opening" is in NewMemoryEngine,
\* "using" has copied a handle, when `known' was acknowledged.
Nothing == [here |-> {}, elsewhere |-> {}]
Call == [stage  : {"idle", "open", "execute", "close", "opening"},
         handle : {None},
         known  : {Nothing}]
        \cup [stage : {"using"}, handle : Engines, known : Acked]

Idle == [stage |-> "idle", handle |-> None, known |-> Nothing]

\* Only an engine is ever used, and only memories are kept.
TypeOK ==
  /\ amu \in Requests \cup {None}
  /\ engine \in Engines \cup {None}
  /\ isOpen \subseteq Engines /\ leaked \subseteq Engines
  /\ cache \in [Engines -> SUBSET Memories]
  /\ exclusive \in BOOLEAN
  /\ disk \subseteq Memories
  /\ other \in BOOLEAN
  /\ acked \in Acked
  /\ call \in [Requests -> Call]

Init ==
  /\ amu = None /\ engine = None
  /\ isOpen = {} /\ leaked = {}
  /\ exclusive \in BOOLEAN
  /\ cache = [g \in Engines |-> {}]
  /\ disk = {} /\ other = FALSE
  /\ acked = Nothing
  /\ call = [r \in Requests |-> Idle]

Arrive(r) == \E stage \in {"open", "execute", "close"} :
  /\ call[r] = Idle
  /\ call' = [call EXCEPT ![r].stage = stage]
  /\ UNCHANGED <<amu, engine, handles, cache, store, acked>>

Answer(r) == call' = [call EXCEPT ![r] = Idle]

-----------------------------------------------------------------------------
(* OpenSession keeps a.mu while the engine is being made.                  *)

\* a.engine is there already: this session shares it.
JoinSession(r) ==
  /\ call[r].stage = "open" /\ amu = None
  /\ engine # None
  /\ Answer(r)
  /\ UNCHANGED <<amu, engine, handles, cache, store, acked>>

BeginOpen_noLock(r) ==
  /\ call[r].stage = "open" /\ amu = None
  /\ engine = None
  /\ call' = [call EXCEPT ![r].stage = "opening"]
  /\ UNCHANGED <<amu, engine, handles, cache, store, acked>>

BeginOpen(r) ==
  /\ call[r].stage = "open" /\ amu = None
  /\ engine = None
  /\ amu' = r
  /\ call' = [call EXCEPT ![r].stage = "opening"]
  /\ UNCHANGED <<engine, handles, cache, store, acked>>

\* bbolt.Open gets the file lock only if nobody, not even this process, has it.
StoreIsFree == exclusive => isOpen \cup leaked = {} /\ ~other

Unused == Engines \ (isOpen \cup leaked \cup {engine} \cup {call[r].handle : r \in Requests})

NewEngine_noLoad(r) == \E g \in Unused :
  /\ call[r].stage = "opening" /\ StoreIsFree
  /\ engine' = g
  /\ isOpen' = isOpen \cup {g}
  /\ cache' = [cache EXCEPT ![g] = {}]
  /\ amu' = None
  /\ Answer(r)
  /\ UNCHANGED <<leaked, store, acked>>

NewEngine(r) == \E g \in Unused :
  /\ call[r].stage = "opening" /\ StoreIsFree
  /\ engine' = g
  /\ isOpen' = isOpen \cup {g}
  /\ cache' = [cache EXCEPT ![g] = disk]
  /\ amu' = None
  /\ Answer(r)
  /\ UNCHANGED <<leaked, store, acked>>

OpenFails_noUnlock(r) ==
  /\ call[r].stage = "opening"
  /\ ~exclusive \/ ~StoreIsFree
  /\ Answer(r)
  /\ UNCHANGED <<amu, engine, handles, cache, store, acked>>

\* The file lock is not to be had within 3 s, or PostgreSQL not within 10 s.
OpenFails(r) ==
  /\ call[r].stage = "opening"
  /\ ~exclusive \/ ~StoreIsFree
  /\ amu' = None
  /\ Answer(r)
  /\ UNCHANGED <<engine, handles, cache, store, acked>>

\* LoadAll fails: NewMemoryEngine returns, and its store stays open until the
\* end of the process (a mapped file keeps its lock, a pool its connections).
LoadFails(r) == \E g \in Unused :
  /\ call[r].stage = "opening" /\ StoreIsFree
  /\ Cardinality(leaked) < MaxLeaks
  /\ leaked' = leaked \cup {g}
  /\ amu' = None
  /\ Answer(r)
  /\ UNCHANGED <<engine, isOpen, cache, store, acked>>

-----------------------------------------------------------------------------
(* Execute uses the handle it copied, whatever becomes of a.engine.        *)

Refuse(r) ==
  /\ call[r].stage = "execute" /\ amu = None
  /\ engine = None
  /\ Answer(r)
  /\ UNCHANGED <<amu, engine, handles, cache, store, acked>>

TakeHandle_unchecked(r) ==
  /\ call[r].stage = "execute" /\ amu = None
  /\ call' = [call EXCEPT ![r] = [stage |-> "using", handle |-> engine, known |-> acked]]
  /\ UNCHANGED <<amu, engine, handles, cache, store, acked>>

TakeHandle(r) ==
  /\ call[r].stage = "execute" /\ amu = None
  /\ engine # None
  /\ call' = [call EXCEPT ![r] = [stage |-> "using", handle |-> engine, known |-> acked]]
  /\ UNCHANGED <<amu, engine, handles, cache, store, acked>>

Remember_closed(r) == \E m \in Memories \ disk :
  /\ call[r].stage = "using"
  /\ disk' = IF call[r].handle \in isOpen THEN disk \cup {m} ELSE disk
  /\ cache' = [cache EXCEPT ![call[r].handle] = @ \cup {m}]
  /\ acked' = [acked EXCEPT !.here = @ \cup {m}]
  /\ Answer(r)
  /\ UNCHANGED <<amu, engine, handles, exclusive, other>>

\* remember and remember_relation.
Remember(r) == \E m \in Memories \ disk :
  /\ call[r].stage = "using"
  /\ call[r].handle \in isOpen
  /\ disk' = disk \cup {m}
  /\ cache' = [cache EXCEPT ![call[r].handle] = @ \cup {m}]
  /\ acked' = [acked EXCEPT !.here = @ \cup {m}]
  /\ Answer(r)
  /\ UNCHANGED <<amu, engine, handles, exclusive, other>>

\* recall and fact_lookup, which answer from the handle's maps even after it
\* was closed; and remember when its store is closed or fails.
Recall(r) ==
  /\ call[r].stage = "using"
  /\ Answer(r)
  /\ UNCHANGED <<amu, engine, handles, cache, store, acked>>

-----------------------------------------------------------------------------
(* CloseSession closes the engine of all sessions.                         *)

CloseSession_keepsHandle(r) ==
  /\ call[r].stage = "close" /\ amu = None
  /\ isOpen' = isOpen \ {engine}
  /\ Answer(r)
  /\ UNCHANGED <<amu, engine, leaked, cache, store, acked>>

CloseSession(r) ==
  /\ call[r].stage = "close" /\ amu = None
  /\ isOpen' = isOpen \ {engine}
  /\ engine' = None
  /\ Answer(r)
  /\ UNCHANGED <<amu, leaked, cache, store, acked>>

-----------------------------------------------------------------------------
(* The end of the host, and the other process.                             *)

Kill ==
  /\ amu' = None /\ engine' = None /\ isOpen' = {} /\ leaked' = {}
  /\ call' = [r \in Requests |-> Idle]
  /\ UNCHANGED <<cache, store, acked>>

OtherOpens ==
  /\ ~other /\ StoreIsFree
  /\ other' = TRUE
  /\ UNCHANGED <<amu, engine, handles, cache, exclusive, disk, acked, call>>

OtherRemembers == \E m \in Memories \ disk :
  /\ other
  /\ disk' = disk \cup {m}
  /\ acked' = [acked EXCEPT !.elsewhere = @ \cup {m}]
  /\ UNCHANGED <<amu, engine, handles, cache, exclusive, other, call>>

OtherCloses ==
  /\ other
  /\ other' = FALSE
  /\ UNCHANGED <<amu, engine, handles, cache, exclusive, disk, acked, call>>

\* What a request does when it gets a.mu, and after that.
Lock(r) ==
  JoinSession(r) \/ BeginOpen(r) \/ Refuse(r) \/ TakeHandle(r) \/ CloseSession(r)
Proceed(r) ==
  NewEngine(r) \/ OpenFails(r) \/ LoadFails(r) \/ Remember(r) \/ Recall(r)

Next ==
  \/ \E r \in Requests : Arrive(r) \/ Lock(r) \/ Proceed(r)
  \/ Kill \/ OtherOpens \/ OtherRemembers \/ OtherCloses

Spec == Init /\ [][Next]_vars

\* A sync.Mutex does not pass by a goroutine that keeps waiting for it (it
\* hands over to one that has waited a millisecond), and a goroutine that does
\* not wait goes on: opening has a deadline, the engine's calls return.
Fairness == \A r \in Requests : SF_vars(Lock(r)) /\ WF_vars(Proceed(r))
FairSpec == Spec /\ Fairness

-----------------------------------------------------------------------------
\* A request that has copied its handle finds what this adapter had
\* acknowledged before, even if other sessions close and reopen the engine
\* in the meantime.
ReadsOwnWrites ==
  \A r \in Requests : call[r].stage = "using" =>
    call[r].known.here \subseteq cache[call[r].handle]

\* With bbolt it also finds what other processes had acknowledged: an engine
\* in use keeps them out.  (PostgreSQL does not; engines load at start only.)
ReadsOthersWrites ==
  exclusive => \A r \in Requests : call[r].stage = "using" =>
    call[r].known.elsewhere \subseteq cache[call[r].handle]

\* Nothing is acknowledged on a handle that was closed after it was copied:
\* what was acknowledged is in the store.
AckedReachStore == acked.here \cup acked.elsewhere \subseteq disk

\* However sessions are opened and closed at the same time, the one engine ever
\* open is the one that CloseSession will close (but for the stores of engines
\* that never came to be).
OpenIsCurrent == isOpen \subseteq {engine}

\* Every request is answered, those behind an OpenSession that waits for the
\* file lock of another process too.
EveryRequestReturns ==
  \A r \in Requests : call[r].stage # "idle" ~> call[r].stage = "idle"
=============================================================================

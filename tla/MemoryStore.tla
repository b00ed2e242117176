---------------------------- MODULE MemoryStore ----------------------------
(***************************************************************************)
(* benchmark/memory.py: the log of memory events of one repository, role   *)
(* and namespace, which controllers with a connection each append to, and  *)
(* the events that live and benchmark views recall.  An append reads the   *)
(* clock, then the newest hash, and commits in a third step;               *)
(* benchmark/source_memory.py appends commits with the times they had.     *)
(*                                                                         *)
(* An event is known by its place in the log, which stands for its id and  *)
(* its hash: both are digests of all its fields.                           *)
(***************************************************************************)
EXTENDS Integers, Sequences, FiniteSets

CONSTANTS
    Writers,        \* connections to the store
    Facts,          \* what a controller may validate
    Lags,           \* how long before a call it was observed what the call reports
    Commits,        \* timestamps of the commits an import selects, oldest first
    None,           \* a field without a value, and a snapshot that is refused
    SnapshotLimits, \* the max_events that snapshots are asked for with
    Start, MaxTime, \* bounds of the clock, in seconds
    MaxEvents       \* bound on the length of the log

Times == 0 .. MaxTime
Publications == {"private", "publishable"}
Invalidations == {"superseded", "tombstoned"}
Recalls == {"evidence_only", "quarantined"}
Contents == {fact.content : fact \in Facts}

ASSUME MemoryAssumption ==
    /\ Start \in Nat /\ MaxTime \in Nat /\ MaxEvents \in Nat /\ SnapshotLimits \subseteq Nat
    /\ Start <= MaxTime
    /\ None \notin Int
    /\ Facts \subseteq [content : Contents, publication : Publications,
                        recall : Recalls, expires : Times \cup {None}]
    /\ Lags \subseteq Nat
    /\ Commits \in Seq(0 .. Start) /\ Commits # <<>>

VARIABLES
    events,  \* memory_events in the order of their commits
    now,     \* the clock
    call     \* writer -> [drafts, step]: what its call has yet to append

vars == <<events, now, call>>

Idle == [drafts |-> <<>>, step |-> "idle"]

-----------------------------------------------------------------------------
(* The events that the operations append.  created is read by the append.  *)

Observation(content, observed) ==
    [content |-> content, status |-> "observed", authority |-> "untrusted",
     publication |-> "private", recall |-> "quarantined", parent |-> None,
     observed |-> observed, created |-> None, expires |-> None, previous |-> None]

Validation(fact, parent, observed) ==
    [content |-> fact.content, status |-> "validated", authority |-> "trusted",
     publication |-> fact.publication, recall |-> fact.recall, parent |-> parent,
     observed |-> observed, created |-> None, expires |-> fact.expires, previous |-> None]

Marker(target, status, observed) ==
    [content |-> None, status |-> status, authority |-> "trusted",
     publication |-> "private", recall |-> "quarantined", parent |-> target,
     observed |-> observed, created |-> None, expires |-> None, previous |-> None]

\* A successor keeps what it replaces may be used for, but not its expiry.
Successor(target, content, observed) ==
    Validation([content |-> content, publication |-> events[target].publication,
                recall |-> events[target].recall, expires |-> None], target, observed)

\* Mutant: the old event is invalidated before its successor is there.
SupersedeMarkerFirst(target, content, observed) ==
    <<Marker(target, "superseded", observed), Successor(target, content, observed)>>

Supersession(target, content, observed) ==
    <<Successor(target, content, observed), Marker(target, "superseded", observed)>>

\* A commit is imported with its own time, as observed and as created.
SourceCommit(i) ==
    [Validation([content |-> "source_commit", publication |-> "publishable",
                 recall |-> "evidence_only", expires |-> None], None, Commits[i])
     EXCEPT !.created = Commits[i]]

-----------------------------------------------------------------------------
(* The calls.                                                              *)

Init ==
    /\ events = <<>>
    /\ now = Start
    /\ call = [w \in Writers |-> Idle]

ObservedTimes == {now - lag : lag \in {l \in Lags : l <= now}}

\* A call that the bound leaves no room for is not begun.
Begin(w, drafts) ==
    /\ call[w] = Idle
    /\ Len(events) + Len(drafts) <= MaxEvents
    /\ call' = [call EXCEPT ![w] = [drafts |-> drafts, step |-> "clock"]]
    /\ UNCHANGED <<events, now>>

Observe(w) ==
    \E content \in Contents, observed \in ObservedTimes :
        Begin(w, <<Observation(content, observed)>>)

Validate(w) ==
    \E fact \in Facts, observed \in ObservedTimes :
        Begin(w, <<Validation(fact, None, observed)>>)

\* The validated copy of an observation, of which the row itself never changes.
Promote(w) ==
    \E target \in DOMAIN events, fact \in Facts :
        /\ events[target].status = "observed"
        /\ events[target].authority = "untrusted"
        /\ Begin(w, <<Validation([fact EXCEPT !.content = events[target].content,
                                              !.expires = None],
                                 target, events[target].observed)>>)

Tombstone(w) ==
    \E target \in DOMAIN events, observed \in ObservedTimes :
        Begin(w, <<Marker(target, "tombstoned", observed)>>)

\* What is checked is the status the row was appended with.
Supersede(w) ==
    \E target \in DOMAIN events, content \in Contents, observed \in ObservedTimes :
        /\ events[target].status = "validated"
        /\ Begin(w, Supersession(target, content, observed))

\* event_count of the store.
StoreIsEmpty == events = <<>>

ImportSource(w) ==
    /\ StoreIsEmpty
    /\ Begin(w, [i \in DOMAIN Commits |-> SourceCommit(i)])

-----------------------------------------------------------------------------
(* _append, once for every draft of the call.                              *)

CreatedAt(draft) == IF draft.created = None THEN now ELSE draft.created

Expired(draft) == draft.expires # None /\ draft.expires <= CreatedAt(draft)

\* The draft of w with its fields set, and the next step of the append.
SetDraft(w, draft, step) ==
    call' = [call EXCEPT ![w] = [drafts |-> [call[w].drafts EXCEPT ![1] = draft],
                                 step |-> step]]

ReadClock(w) ==
    /\ call[w].step = "clock"
    /\ LET draft == Head(call[w].drafts)
       IN  /\ ~Expired(draft)
           /\ SetDraft(w, [draft EXCEPT !.created = CreatedAt(draft)], "hash")
    /\ UNCHANGED <<events, now>>

\* expires_at must be later than created_at.
RefuseExpired(w) ==
    /\ call[w].step = "clock"
    /\ Expired(Head(call[w].drafts))
    /\ call' = [call EXCEPT ![w] = Idle]
    /\ UNCHANGED <<events, now>>

\* _previous_hash, a statement of its own.
ReadPreviousHash(w) ==
    /\ call[w].step = "hash"
    /\ SetDraft(w, [Head(call[w].drafts) EXCEPT
                      !.previous = IF events = <<>> THEN None ELSE Len(events)], "insert")
    /\ UNCHANGED <<events, now>>

\* The INSERT and its commit: the id, a digest of the fields, is UNIQUE.
Insert(w) ==
    /\ call[w].step = "insert"
    /\ Len(events) < MaxEvents
    /\ LET draft == Head(call[w].drafts)
           rest == Tail(call[w].drafts)
       IN  /\ \A e \in DOMAIN events : events[e] # draft
           /\ events' = Append(events, draft)
           /\ call' = [call EXCEPT ![w] = IF rest = <<>> THEN Idle
                                          ELSE [drafts |-> rest, step |-> "clock"]]
    /\ UNCHANGED now

\* The process dies, or the database is locked or has the id: the call ends.
Abandon(w) ==
    /\ call[w] # Idle
    /\ call' = [call EXCEPT ![w] = Idle]
    /\ UNCHANGED <<events, now>>

Tick ==
    /\ now < MaxTime
    /\ now' = now + 1
    /\ UNCHANGED <<events, call>>

Step(w) ==
    \/ Observe(w) \/ Validate(w) \/ Promote(w) \/ Tombstone(w) \/ Supersede(w)
    \/ ImportSource(w)
    \/ ReadClock(w) \/ RefuseExpired(w) \/ ReadPreviousHash(w) \/ Insert(w)
    \/ Abandon(w)

Next == Tick \/ \E w \in Writers : Step(w)

Spec == Init /\ [][Next]_vars

-----------------------------------------------------------------------------
(* The two readings of the log.  Both providers ask for every trusted      *)
(* authority; the ranking and the cut to max_items are left out.           *)

Invalidates(m, e) ==
    events[m].parent = e /\ events[m].status \in Invalidations

\* What may be recalled at a time, whatever its state.
Recallable(e, time, public) ==
    /\ events[e].status = "validated"
    /\ events[e].authority = "trusted"
    /\ events[e].recall # "quarantined"
    /\ events[e].expires = None \/ events[e].expires > time
    /\ public => events[e].publication = "publishable"

\* _eligible_events: the whole log counts.
LiveEvents(public) ==
    {e \in DOMAIN events :
        Recallable(e, now, public) /\ ~ \E m \in DOMAIN events : Invalidates(m, e)}

\* Mutants: the time of the append is not asked for; a public snapshot loses the markers.
SourceByObserved(frozen, public) ==
    {e \in DOMAIN events :
        /\ events[e].authority = "trusted"
        /\ events[e].observed <= frozen
        /\ public => \/ events[e].publication = "publishable"
                     \/ events[e].status \in Invalidations}

SourcePublishable(frozen, public) ==
    {e \in DOMAIN events :
        /\ events[e].authority = "trusted"
        /\ events[e].observed <= frozen
        /\ events[e].created <= frozen
        /\ public => events[e].publication = "publishable"}

\* _snapshot_source_events.
SnapshotSource(frozen, public) ==
    {e \in DOMAIN events :
        /\ events[e].authority = "trusted"
        /\ events[e].observed <= frozen
        /\ events[e].created <= frozen
        /\ public => \/ events[e].publication = "publishable"
                     \/ events[e].status \in Invalidations}

\* snapshot: refused when it would have more events than it may.
Snapshots(frozen, public, limit) == Cardinality(SnapshotSource(frozen, public)) <= limit

\* _snapshot_events: what is invalidated within the snapshot is left out.
BenchmarkEvents(frozen, public, limit) ==
    LET source == SnapshotSource(frozen, public)
    IN  IF ~ Snapshots(frozen, public, limit) THEN None
        ELSE {e \in source :
                 Recallable(e, frozen, public) /\ ~ \E m \in source : Invalidates(m, e)}

\* build_memory_view: a task's view is of the snapshot frozen at its own time.
MemoryView(mode, frozen, public, limit) ==
    CASE mode = "disabled" -> {}
      [] mode = "live" -> LiveEvents(public)
      [] mode = "benchmark" -> BenchmarkEvents(frozen, public, limit)

-----------------------------------------------------------------------------
(* Properties.                                                             *)

Event ==
    [content : Contents \cup {"source_commit", None},
     status : {"observed", "validated", "superseded", "tombstoned"},
     authority : {"untrusted", "trusted"}, publication : Publications,
     recall : Recalls, parent : Nat \cup {None}, observed : Times,
     created : Times \cup {None}, expires : Times \cup {None},
     previous : Nat \cup {None}]

TypeOK ==
    /\ events \in Seq(Event)
    /\ now \in Start .. MaxTime
    /\ call \in [Writers -> [drafts : Seq(Event),
                              step : {"idle", "clock", "hash", "insert"}]]

\* Nothing that is recalled is lost by a supersession that fails half-way: the
\* log has a marker only if it has had the successor before (supersede).
SupersededHasSuccessor ==
    \A m \in DOMAIN events :
        events[m].status = "superseded" =>
            \E s \in 1 .. m - 1 :
                events[s].status = "validated" /\ events[s].parent = events[m].parent

\* Both readings of the log recall the same now: a snapshot frozen at this
\* second revives nothing that is invalidated, and misses nothing that live
\* memory has ("live" and "benchmark" of the module's docstring).
ViewsAgree ==
    \A public \in BOOLEAN, limit \in SnapshotLimits :
        MemoryView("benchmark", now, public, limit)
            \in {None, MemoryView("live", None, public, limit)}

\* No writer may still append an event of this time or before.
Closed(time) ==
    /\ time < now
    /\ events # <<>>
    /\ \A w \in Writers : \A d \in DOMAIN call[w].drafts :
          call[w].drafts[d].created = None \/ call[w].drafts[d].created > time

\* Once a second is over and the appends of it are committed or gone, every
\* snapshot frozen at it is the same, whatever is appended, superseded or
\* tombstoned later ("without future leakage", docs/persistent-memory.md).
FrozenViewsStay ==
    [][\A time \in Times, public \in BOOLEAN, limit \in SnapshotLimits :
          Closed(time) =>
              MemoryView("benchmark", time, public, limit)'
                  = MemoryView("benchmark", time, public, limit)]_vars

-----------------------------------------------------------------------------
(* The inductive invariant.                                                *)

\* An event, or a draft of one, that tells of no time to come.
Past(event) ==
    /\ event.observed <= now
    /\ event.created # None => event.created <= now
    /\ event.status \in Invalidations => event.authority = "trusted"

\* A validated event of the log that refers to the same event as this one.
HasSuccessor(event, end) ==
    \E s \in 1 .. end :
        events[s].status = "validated" /\ events[s].parent = event.parent

\* A call has drafts until it ends, and the first is dated before it is hashed.
CallConsistent(w) ==
    /\ call[w].step = "idle" <=> call[w].drafts = <<>>
    /\ call[w].step \in {"hash", "insert"} => call[w].drafts[1].created # None
    /\ \A d \in DOMAIN call[w].drafts : Past(call[w].drafts[d])

\* A supersession's marker waits behind its successor, in the call or in the log.
MarkerIsSecond(w) ==
    \A d \in DOMAIN call[w].drafts :
        call[w].drafts[d].status = "superseded" =>
            \/ HasSuccessor(call[w].drafts[d], Len(events))
            \/ /\ d = 2
               /\ call[w].drafts[1].status = "validated"
               /\ call[w].drafts[1].parent = call[w].drafts[d].parent

IInv ==
    /\ TypeOK
    /\ \A e \in DOMAIN events : events[e].created # None /\ Past(events[e])
    /\ \A w \in Writers : CallConsistent(w) /\ MarkerIsSecond(w)
    /\ SupersededHasSuccessor

=============================================================================

---------------------------- MODULE MemoryProofs ----------------------------
(***************************************************************************)
(* Proofs about MemoryStore, for any number of controllers and any length  *)
(* of the log.  The inductive invariant dates every event and every draft  *)
(* no later than now, and keeps the marker of a supersession behind its    *)
(* successor; what a snapshot of a closed second reads then never changes. *)
(***************************************************************************)
EXTENDS MemoryStore, TLAPS

USE MemoryAssumption DEF Times, Publications, Recalls, Invalidations

-----------------------------------------------------------------------------
(* The drafts of a call.                                                   *)

\* What holds of the drafts of a call as it begins.
GoodDrafts(drafts) ==
    /\ drafts \in Seq(Event) /\ drafts # <<>>
    /\ \A d \in DOMAIN drafts : Past(drafts[d])
    /\ \A d \in DOMAIN drafts :
          drafts[d].status = "superseded" =>
              d = 2 /\ drafts[1].status = "validated" /\ drafts[1].parent = drafts[d].parent

LEMMA ObservationIsPast ==
  ASSUME TypeOK, NEW content \in Contents, NEW observed \in ObservedTimes
  PROVE  /\ Observation(content, observed) \in Event
         /\ Past(Observation(content, observed))
  BY DEF Observation, Event, Past, TypeOK, ObservedTimes

LEMMA MarkerIsPast ==
  ASSUME TypeOK, NEW target \in Nat, NEW observed \in 0 .. now,
         NEW status \in Invalidations
  PROVE  /\ Marker(target, status, observed) \in Event
         /\ Past(Marker(target, status, observed))
  BY DEF Marker, Event, Past, TypeOK

LEMMA ValidationIsPast ==
  ASSUME TypeOK, NEW content \in Contents \cup {"source_commit", None},
         NEW publication \in Publications, NEW recall \in Recalls,
         NEW expires \in Times \cup {None},
         NEW parent \in Nat \cup {None}, NEW observed \in 0 .. now
  PROVE  LET v == Validation([content |-> content, publication |-> publication,
                              recall |-> recall, expires |-> expires], parent, observed)
         IN  v \in Event /\ Past(v) /\ v.status = "validated" /\ v.parent = parent
  BY DEF Validation, Event, Past, TypeOK

LEMMA FactIsPast ==
  ASSUME TypeOK, NEW fact \in [content : Contents \cup {"source_commit", None},
                               publication : Publications, recall : Recalls,
                               expires : Times \cup {None}],
         NEW parent \in Nat \cup {None}, NEW observed \in 0 .. now
  PROVE  /\ Validation(fact, parent, observed) \in Event
         /\ Past(Validation(fact, parent, observed))
         /\ Validation(fact, parent, observed).status = "validated"
         /\ Validation(fact, parent, observed).parent = parent
  BY DEF Validation, Event, Past, TypeOK

LEMMA ObservedIsPast ==
  ASSUME TypeOK
  PROVE  ObservedTimes \subseteq 0 .. now
  BY DEF TypeOK, ObservedTimes

LEMMA OneDraft ==
  ASSUME NEW draft \in Event, Past(draft), draft.status # "superseded"
  PROVE  GoodDrafts(<<draft>>)
  BY DEF GoodDrafts

LEMMA SupersessionIsGood ==
  ASSUME TypeOK, NEW target \in DOMAIN events, NEW content \in Contents,
         NEW observed \in ObservedTimes
  PROVE  GoodDrafts(Supersession(target, content, observed))
<1> DEFINE s == Successor(target, content, observed)
           m == Marker(target, "superseded", observed)
<1>1. target \in Nat /\ events[target] \in Event /\ observed \in 0 .. now
  BY ObservedIsPast DEF TypeOK
<1>2. s \in Event /\ Past(s) /\ s.status = "validated" /\ s.parent = target
  <2>1. /\ events[target].publication \in Publications /\ events[target].recall \in Recalls
        /\ target \in Nat \cup {None} /\ None \in Times \cup {None}
        /\ content \in Contents \cup {"source_commit", None}
    BY <1>1 DEF Event
  <2>2. \A e \in Times \cup {None} :
           LET v == Validation([content |-> content, publication |-> events[target].publication,
                                recall |-> events[target].recall, expires |-> e],
                               target, observed)
           IN  v \in Event /\ Past(v) /\ v.status = "validated" /\ v.parent = target
    BY <1>1, <2>1, ValidationIsPast
  <2> QED
    BY <2>1, <2>2 DEF Successor
<1>3. m \in Event /\ Past(m) /\ m.status = "superseded" /\ m.parent = target
  BY <1>1, MarkerIsPast DEF Marker
<1> HIDE DEF s, m
<1>4. GoodDrafts(<<s, m>>)
  BY <1>2, <1>3 DEF GoodDrafts
<1> QED
  BY <1>4 DEF Supersession, s, m

LEMMA CorpusIsGood ==
  ASSUME TypeOK, Commits # <<>>
  PROVE  GoodDrafts([i \in DOMAIN Commits |-> SourceCommit(i)])
<1> DEFINE corpus == [i \in DOMAIN Commits |-> SourceCommit(i)]
<1>1. ASSUME NEW i \in DOMAIN Commits
      PROVE  /\ SourceCommit(i) \in Event /\ Past(SourceCommit(i))
             /\ SourceCommit(i).status = "validated"
  <2>1. Commits[i] \in 0 .. Start /\ Commits[i] \in 0 .. now /\ Commits[i] \in Times
    BY DEF TypeOK
  <2>2. SourceCommit(i) =
          [content |-> "source_commit", status |-> "validated", authority |-> "trusted",
           publication |-> "publishable", recall |-> "evidence_only", parent |-> None,
           observed |-> Commits[i], created |-> Commits[i], expires |-> None,
           previous |-> None]
    <3> DEFINE fact == [content |-> "source_commit", publication |-> "publishable",
                        recall |-> "evidence_only", expires |-> None]
               plain == [content |-> "source_commit", status |-> "validated",
                         authority |-> "trusted", publication |-> "publishable",
                         recall |-> "evidence_only", parent |-> None,
                         observed |-> Commits[i], created |-> None, expires |-> None,
                         previous |-> None]
    <3>1. Validation(fact, None, Commits[i]) = plain
      BY DEF Validation
    <3>2. SourceCommit(i) = [plain EXCEPT !.created = Commits[i]]
      BY <3>1 DEF SourceCommit
    <3> QED
      BY <3>2
  <2> QED
    BY <2>1, <2>2 DEF Event, Past
<1>2. corpus \in Seq(Event) /\ corpus # <<>> /\ DOMAIN corpus = DOMAIN Commits
  BY <1>1
<1> QED
  BY <1>1, <1>2 DEF GoodDrafts

-----------------------------------------------------------------------------
(* The log and the calls after a step.                                     *)

LEMMA BeginKeepsInvariant ==
  ASSUME IInv, NEW w \in Writers, NEW drafts, GoodDrafts(drafts), Begin(w, drafts)
  PROVE  IInv'
<1>1. TypeOK'
  BY DEF IInv, TypeOK, Begin, GoodDrafts
<1>2. /\ \A e \in DOMAIN events' : events'[e].created # None /\ Past(events[e])'
      /\ SupersededHasSuccessor'
  BY DEF IInv, Begin, Past, SupersededHasSuccessor
<1>3. ASSUME NEW v \in Writers
      PROVE  CallConsistent(v)' /\ MarkerIsSecond(v)'
  <2>1. CASE v = w
    <3>1. call'[v] = [drafts |-> drafts, step |-> "clock"]
      BY <2>1 DEF IInv, TypeOK, Begin
    <3> QED
      BY <3>1 DEF GoodDrafts, Begin, CallConsistent, MarkerIsSecond, Past
  <2>2. CASE v # w
    <3>1. call'[v] = call[v] /\ events' = events /\ now' = now
      BY <2>2 DEF IInv, TypeOK, Begin
    <3> QED
      BY <3>1 DEF IInv, CallConsistent, MarkerIsSecond, HasSuccessor, Past
  <2> QED
    BY <2>1, <2>2
<1> QED
  BY <1>1, <1>2, <1>3 DEF IInv

\* A call that ends without another event.
LEMMA EndKeepsInvariant ==
  ASSUME IInv, NEW w \in Writers,
         call' = [call EXCEPT ![w] = Idle], UNCHANGED <<events, now>>
  PROVE  IInv'
<1>1. TypeOK'
  BY DEF IInv, TypeOK, Idle
<1>2. /\ \A e \in DOMAIN events' : events'[e].created # None /\ Past(events[e])'
      /\ SupersededHasSuccessor'
  BY DEF IInv, Past, SupersededHasSuccessor
<1>3. ASSUME NEW v \in Writers
      PROVE  CallConsistent(v)' /\ MarkerIsSecond(v)'
  <2>1. CASE v = w
    <3>1. call'[v] = Idle
      BY <2>1 DEF IInv, TypeOK
    <3> QED
      BY <3>1 DEF Idle, CallConsistent, MarkerIsSecond
  <2>2. CASE v # w
    <3>1. call'[v] = call[v]
      BY <2>2 DEF IInv, TypeOK
    <3> QED
      BY <3>1 DEF IInv, CallConsistent, MarkerIsSecond, HasSuccessor, Past
  <2> QED
    BY <2>1, <2>2
<1> QED
  BY <1>1, <1>2, <1>3 DEF IInv

\* A field of the first draft is set, its other fields stay as they are.
LEMMA SetDraftKeepsInvariant ==
  ASSUME IInv, NEW w \in Writers, NEW draft \in Event, NEW step \in {"hash", "insert"},
         call[w].drafts # <<>>, draft.created # None, Past(draft),
         draft.status = call[w].drafts[1].status, draft.parent = call[w].drafts[1].parent,
         SetDraft(w, draft, step), UNCHANGED <<events, now>>
  PROVE  IInv'
<1> DEFINE old == call[w].drafts
           new == [old EXCEPT ![1] = draft]
<1>t. /\ call \in [Writers -> [drafts : Seq(Event), step : {"idle", "clock", "hash", "insert"}]]
      /\ old \in Seq(Event)
  BY DEF IInv, TypeOK
<1>1. call'[w] = [drafts |-> new, step |-> step]
  BY <1>t DEF SetDraft
<1>2. /\ new \in Seq(Event) /\ new # <<>> /\ DOMAIN new = DOMAIN old /\ 1 \in DOMAIN old
      /\ new[1] = draft /\ \A d \in DOMAIN old : d # 1 => new[d] = old[d]
  BY <1>t
<1>3. TypeOK'
  BY <1>t, <1>2 DEF IInv, TypeOK, SetDraft
<1>4. /\ \A e \in DOMAIN events' : events'[e].created # None /\ Past(events[e])'
      /\ SupersededHasSuccessor'
  BY DEF IInv, Past, SupersededHasSuccessor
<1>5. ASSUME NEW v \in Writers
      PROVE  CallConsistent(v)' /\ MarkerIsSecond(v)'
  <2>1. CASE v = w
    <3> HIDE DEF new
    <3>1. CallConsistent(w) /\ MarkerIsSecond(w)
      BY DEF IInv
    <3>2. CallConsistent(v)'
      <4>1. ASSUME NEW d \in DOMAIN new
            PROVE  /\ new[d].observed <= now /\ (new[d].created # None => new[d].created <= now)
                   /\ new[d].status \in Invalidations => new[d].authority = "trusted"
        <5>1. CASE d = 1
          BY <1>2, <5>1 DEF Past
        <5>2. CASE d # 1
          BY <1>2, <3>1, <5>2 DEF CallConsistent, Past
        <5> QED
          BY <5>1, <5>2
      <4>2. /\ call'[v].drafts = new /\ call'[v].step = step /\ now' = now
            /\ new[1].created # None
        BY <1>1, <1>2, <2>1
      <4> QED
        BY <1>2, <4>1, <4>2 DEF CallConsistent, Past
    <3>3. MarkerIsSecond(v)'
      <4> SUFFICES ASSUME NEW d \in DOMAIN new, new[d].status = "superseded"
                   PROVE  \/ HasSuccessor(new[d], Len(events))
                          \/ d = 2 /\ new[1].status = "validated" /\ new[1].parent = new[d].parent
        BY <1>1, <2>1 DEF MarkerIsSecond, HasSuccessor
      <4>1. old[d].status = "superseded" /\ old[d].parent = new[d].parent
        BY <1>2
      <4>2. \/ HasSuccessor(old[d], Len(events))
            \/ d = 2 /\ old[1].status = "validated" /\ old[1].parent = old[d].parent
        BY <1>2, <3>1, <4>1 DEF MarkerIsSecond
      <4> QED
        BY <1>2, <4>1, <4>2 DEF HasSuccessor
    <3> QED
      BY <3>2, <3>3
  <2>2. CASE v # w
    <3>1. call'[v] = call[v]
      BY <1>t, <2>2 DEF SetDraft
    <3> QED
      BY <3>1 DEF IInv, CallConsistent, MarkerIsSecond, HasSuccessor, Past
  <2> QED
    BY <2>1, <2>2
<1> QED
  BY <1>3, <1>4, <1>5 DEF IInv

LEMMA InsertKeepsInvariant ==
  ASSUME IInv, NEW w \in Writers, Insert(w)
  PROVE  IInv'
<1> DEFINE drafts == call[w].drafts
           draft == Head(drafts)
           rest == Tail(drafts)
<1>t. /\ events \in Seq(Event) /\ now \in Start .. MaxTime
      /\ call \in [Writers -> [drafts : Seq(Event), step : {"idle", "clock", "hash", "insert"}]]
      /\ drafts \in Seq(Event)
  BY DEF IInv, TypeOK
<1>1. CallConsistent(w) /\ MarkerIsSecond(w)
  BY DEF IInv
<1>2. drafts # <<>> /\ draft = drafts[1] /\ draft.created # None /\ 1 \in DOMAIN drafts
  BY <1>t, <1>1 DEF CallConsistent, Insert
<1>3. draft \in Event /\ Past(draft)
  BY <1>t, <1>1, <1>2 DEF CallConsistent
<1>4. /\ rest \in Seq(Event)
      /\ \A d \in DOMAIN rest : d + 1 \in DOMAIN drafts /\ rest[d] = drafts[d + 1] /\ d \in Nat \ {0}
  BY <1>t, <1>2
<1>5. /\ events' = Append(events, draft) /\ now' = now
      /\ call' = [call EXCEPT ![w] = IF rest = <<>> THEN Idle
                                     ELSE [drafts |-> rest, step |-> "clock"]]
  BY DEF Insert
<1> HIDE DEF draft, rest
<1>6. /\ events' \in Seq(Event) /\ Len(events') = Len(events) + 1
      /\ DOMAIN events' = 1 .. Len(events) + 1 /\ DOMAIN events = 1 .. Len(events)
      /\ \A e \in 1 .. Len(events) : events'[e] = events[e]
      /\ events'[Len(events) + 1] = draft /\ Len(events) \in Nat
  BY <1>t, <1>3, <1>5
<1>7. TypeOK'
  BY <1>t, <1>4, <1>5, <1>6 DEF TypeOK, Idle
<1>8. \A e \in DOMAIN events' : events'[e].created # None /\ Past(events[e])'
  BY <1>2, <1>3, <1>5, <1>6 DEF IInv, Past
<1>9. SupersededHasSuccessor'
  <2> SUFFICES ASSUME NEW m \in 1 .. Len(events) + 1, events'[m].status = "superseded"
               PROVE  \E s \in 1 .. m - 1 : /\ events'[s].status = "validated"
                                            /\ events'[s].parent = events'[m].parent
    BY <1>6 DEF SupersededHasSuccessor
  <2>1. CASE m \in 1 .. Len(events)
    BY <1>6, <2>1 DEF IInv, SupersededHasSuccessor
  <2>2. CASE m = Len(events) + 1
    <3>1. HasSuccessor(draft, Len(events))
      BY <1>1, <1>2, <1>6, <2>2 DEF MarkerIsSecond
    <3> QED
      BY <1>6, <2>2, <3>1 DEF HasSuccessor
  <2> QED
    BY <2>1, <2>2
<1> DEFINE Followed(parent) ==
             \E s \in 1 .. Len(events') :
                 events'[s].status = "validated" /\ events'[s].parent = parent
<1>10. \A event : HasSuccessor(event, Len(events)) => Followed(event.parent)
  BY <1>6 DEF HasSuccessor
<1>11. ASSUME NEW v \in Writers
       PROVE  CallConsistent(v)' /\ MarkerIsSecond(v)'
  <2>1. CASE v = w /\ rest = <<>>
    <3>1. call'[v] = Idle
      BY <1>t, <1>5, <2>1
    <3> QED
      BY <3>1 DEF Idle, CallConsistent, MarkerIsSecond
  <2>2. CASE v = w /\ rest # <<>>
    <3>1. call'[v] = [drafts |-> rest, step |-> "clock"]
      BY <1>t, <1>5, <2>2
    <3>2. CallConsistent(v)'
      BY <1>1, <1>4, <1>5, <2>2, <3>1 DEF CallConsistent, Past
    <3>3. ASSUME NEW d \in DOMAIN rest, rest[d].status = "superseded"
          PROVE  Followed(rest[d].parent)
      <4>1. \/ HasSuccessor(drafts[d + 1], Len(events))
            \/ draft.status = "validated" /\ draft.parent = drafts[d + 1].parent
        BY <1>1, <1>2, <1>4, <3>3 DEF MarkerIsSecond
      <4> QED
        <5>1. CASE HasSuccessor(drafts[d + 1], Len(events))
          BY <1>4, <1>10, <5>1
        <5>2. CASE draft.status = "validated" /\ draft.parent = drafts[d + 1].parent
          <6>1. /\ Len(events) + 1 \in 1 .. Len(events')
                /\ events'[Len(events) + 1].status = "validated"
                /\ events'[Len(events) + 1].parent = rest[d].parent
            BY <1>4, <1>6, <5>2
          <6> QED
            BY <6>1
        <5> QED
          BY <4>1, <5>1, <5>2
    <3>4. MarkerIsSecond(v)'
      <4> SUFFICES ASSUME NEW d \in DOMAIN call'[v].drafts,
                          call'[v].drafts[d].status = "superseded"
                   PROVE  Followed(call'[v].drafts[d].parent)
        BY DEF MarkerIsSecond, HasSuccessor
      <4> QED
        BY <3>1, <3>3
    <3> QED
      BY <3>2, <3>4
  <2>3. CASE v # w
    <3>1. call'[v] = call[v]
      BY <1>t, <1>5, <2>3
    <3>2. CallConsistent(v) /\ MarkerIsSecond(v)
      BY DEF IInv
    <3>3. CallConsistent(v)'
      BY <1>5, <3>1, <3>2 DEF CallConsistent, Past
    <3>4. MarkerIsSecond(v)'
      <4> SUFFICES ASSUME NEW d \in DOMAIN call[v].drafts,
                          call[v].drafts[d].status = "superseded"
                   PROVE  \/ Followed(call[v].drafts[d].parent)
                          \/ /\ d = 2 /\ call[v].drafts[1].status = "validated"
                             /\ call[v].drafts[1].parent = call[v].drafts[d].parent
        BY <3>1 DEF MarkerIsSecond, HasSuccessor
      <4> QED
        BY <1>10, <3>2 DEF MarkerIsSecond
    <3> QED
      BY <3>3, <3>4
  <2> QED
    BY <2>1, <2>2, <2>3
<1> QED
  BY <1>7, <1>8, <1>9, <1>11 DEF IInv

LEMMA TickKeepsInvariant ==
  ASSUME IInv, Tick
  PROVE  IInv'
<1>1. TypeOK'
  BY DEF IInv, TypeOK, Tick
<1>2. /\ events \in Seq(Event) /\ \A v \in Writers : call[v].drafts \in Seq(Event)
      /\ events' = events /\ call' = call
  BY DEF IInv, TypeOK, Tick
<1>3. \A e \in DOMAIN events' : events'[e].created # None /\ Past(events[e])'
  <2> SUFFICES ASSUME NEW e \in DOMAIN events
               PROVE  events[e].created # None /\ Past(events[e])'
    BY <1>2
  <2>1. events[e] \in Event /\ Past(events[e]) /\ events[e].created # None
    BY <1>2 DEF IInv
  <2> QED
    BY <2>1, <1>2 DEF IInv, TypeOK, Tick, Past, Event
<1>4. ASSUME NEW v \in Writers
      PROVE  CallConsistent(v)' /\ MarkerIsSecond(v)'
  <2>1. ASSUME NEW d \in DOMAIN call[v].drafts
        PROVE  Past(call[v].drafts[d])'
    <3>1. call[v].drafts[d] \in Event /\ Past(call[v].drafts[d])
      BY <1>2 DEF IInv, CallConsistent
    <3> QED
      BY <3>1, <1>2 DEF IInv, TypeOK, Tick, Past, Event
  <2> QED
    BY <1>2, <2>1 DEF IInv, CallConsistent, MarkerIsSecond, HasSuccessor
<1> QED
  BY <1>1, <1>2, <1>3, <1>4 DEF IInv, SupersededHasSuccessor

-----------------------------------------------------------------------------

\* Every step keeps the invariant: the log only grows, drafts are dated by the clock,
\* and what a crash takes away are drafts.
THEOREM Invariant ==
  Spec => []IInv
<1>1. Init => IInv
  <2> SUFFICES ASSUME Init PROVE IInv
    OBVIOUS
  <2>1. events = <<>> /\ now = Start /\ \A w \in Writers : call[w] = Idle
    BY DEF Init
  <2>2. TypeOK
    BY DEF Init, TypeOK, Idle
  <2> QED
    BY <2>1, <2>2 DEF IInv, SupersededHasSuccessor, CallConsistent, MarkerIsSecond, Idle
<1>2. IInv /\ [Next]_vars => IInv'
  <2> SUFFICES ASSUME IInv, [Next]_vars PROVE IInv'
    OBVIOUS
  <2>t. TypeOK
    BY DEF IInv
  <2>1. CASE UNCHANGED vars
    BY <2>1 DEF vars, IInv, TypeOK, SupersededHasSuccessor, CallConsistent, MarkerIsSecond,
                HasSuccessor, Past
  <2>2. CASE Tick
    BY <2>2, TickKeepsInvariant
  <2>3. ASSUME NEW w \in Writers, Step(w)
        PROVE  IInv'
    <3>1. CASE Observe(w)
      <4>1. PICK content \in Contents, observed \in ObservedTimes :
                Begin(w, <<Observation(content, observed)>>)
        BY <3>1 DEF Observe
      <4>2. GoodDrafts(<<Observation(content, observed)>>)
        BY <2>t, ObservationIsPast, OneDraft DEF Observation
      <4> QED
        BY <4>1, <4>2, BeginKeepsInvariant
    <3>2. CASE Validate(w)
      <4>1. PICK fact \in Facts, observed \in ObservedTimes :
                Begin(w, <<Validation(fact, None, observed)>>)
        BY <3>2 DEF Validate
      <4>2. GoodDrafts(<<Validation(fact, None, observed)>>)
        <5>1. /\ fact \in [content : Contents \cup {"source_commit", None},
                            publication : Publications, recall : Recalls,
                            expires : Times \cup {None}]
              /\ None \in Nat \cup {None} /\ observed \in 0 .. now
          BY <2>t, ObservedIsPast
        <5> QED
          BY <2>t, <5>1, FactIsPast, OneDraft
      <4> QED
        BY <4>1, <4>2, BeginKeepsInvariant
    <3>3. CASE Promote(w)
      <4>1. PICK target \in DOMAIN events, fact \in Facts :
                Begin(w, <<Validation([fact EXCEPT !.content = events[target].content,
                                                   !.expires = None],
                                      target, events[target].observed)>>)
        BY <3>3 DEF Promote
      <4> DEFINE copy == [fact EXCEPT !.content = events[target].content, !.expires = None]
      <4>2. /\ events[target] \in Event /\ target \in Nat \cup {None}
            /\ events[target].observed \in 0 .. now
        <5>1. events[target] \in Event /\ target \in Nat
          BY <2>t DEF TypeOK
        <5>2. events[target].observed <= now /\ events[target].observed \in Times
          BY <5>1 DEF IInv, Past, Event
        <5> QED
          BY <5>1, <5>2
      <4>3. copy \in [content : Contents \cup {"source_commit", None},
                      publication : Publications, recall : Recalls,
                      expires : Times \cup {None}]
        BY <4>2 DEF Event
      <4> HIDE DEF copy
      <4>4. GoodDrafts(<<Validation(copy, target, events[target].observed)>>)
        BY <2>t, <4>2, <4>3, FactIsPast, OneDraft
      <4> QED
        BY <4>1, <4>4, BeginKeepsInvariant DEF copy
    <3>4. CASE Tombstone(w)
      <4>1. PICK target \in DOMAIN events, observed \in ObservedTimes :
                Begin(w, <<Marker(target, "tombstoned", observed)>>)
        BY <3>4 DEF Tombstone
      <4>2. target \in Nat /\ observed \in 0 .. now
        BY <2>t, ObservedIsPast DEF TypeOK
      <4>3. GoodDrafts(<<Marker(target, "tombstoned", observed)>>)
        BY <2>t, <4>2, MarkerIsPast, OneDraft DEF Marker
      <4> QED
        BY <4>1, <4>3, BeginKeepsInvariant
    <3>5. CASE Supersede(w)
      <4>1. PICK target \in DOMAIN events, content \in Contents, observed \in ObservedTimes :
                Begin(w, Supersession(target, content, observed))
        BY <3>5 DEF Supersede
      <4> QED
        BY <2>t, <4>1, SupersessionIsGood, BeginKeepsInvariant
    <3>6. CASE ImportSource(w)
      <4>1. Begin(w, [i \in DOMAIN Commits |-> SourceCommit(i)])
        BY <3>6 DEF ImportSource
      <4> QED
        BY <2>t, <4>1, CorpusIsGood, BeginKeepsInvariant
    <3>7. CASE ReadClock(w)
      <4> DEFINE old == call[w].drafts[1]
                 draft == [old EXCEPT !.created = CreatedAt(old)]
      <4>1. /\ call[w].drafts # <<>> /\ call[w].drafts \in Seq(Event) /\ old \in Event
            /\ Past(old) /\ now \in Times /\ Head(call[w].drafts) = old
        BY <2>t, <3>7 DEF IInv, CallConsistent, TypeOK, ReadClock
      <4>2. SetDraft(w, draft, "hash") /\ UNCHANGED <<events, now>>
        BY <3>7, <4>1 DEF ReadClock
      <4>3. /\ draft \in Event /\ draft.created # None /\ Past(draft)
            /\ draft.status = old.status /\ draft.parent = old.parent
        <5> DEFINE at == CreatedAt(old)
        <5>1. at \in Times /\ at <= now /\ at # None
          BY <4>1 DEF CreatedAt, Event, Past
        <5>2. draft = [old EXCEPT !.created = at]
          OBVIOUS
        <5> HIDE DEF at, draft
        <5> QED
          BY <4>1, <5>1, <5>2 DEF Event, Past
      <4> HIDE DEF draft
      <4> QED
        BY <4>1, <4>2, <4>3, SetDraftKeepsInvariant
    <3>8. CASE RefuseExpired(w)
      BY <3>8, EndKeepsInvariant DEF RefuseExpired
    <3>9. CASE ReadPreviousHash(w)
      <4> DEFINE old == call[w].drafts[1]
                 last == IF events = <<>> THEN None ELSE Len(events)
                 draft == [old EXCEPT !.previous = last]
      <4>1. /\ call[w].drafts # <<>> /\ call[w].drafts \in Seq(Event) /\ old \in Event
            /\ Past(old) /\ old.created # None /\ Head(call[w].drafts) = old
            /\ last \in Nat \cup {None}
        BY <2>t, <3>9 DEF IInv, CallConsistent, TypeOK, ReadPreviousHash
      <4>2. SetDraft(w, draft, "insert") /\ UNCHANGED <<events, now>>
        BY <3>9, <4>1 DEF ReadPreviousHash
      <4> HIDE DEF last
      <4>3. /\ draft \in Event /\ draft.created # None /\ Past(draft)
            /\ draft.status = old.status /\ draft.parent = old.parent
        BY <4>1 DEF Event, Past
      <4> HIDE DEF draft
      <4> QED
        BY <4>1, <4>2, <4>3, SetDraftKeepsInvariant
    <3>10. CASE Insert(w)
      BY <3>10, InsertKeepsInvariant
    <3>11. CASE Abandon(w)
      BY <3>11, EndKeepsInvariant DEF Abandon
    <3> QED
      BY <2>3, <3>1, <3>2, <3>3, <3>4, <3>5, <3>6, <3>7, <3>8, <3>9, <3>10, <3>11 DEF Step
  <2> QED
    BY <2>1, <2>2, <2>3 DEF Next
<1> QED
  BY <1>1, <1>2, PTL DEF Spec

-----------------------------------------------------------------------------
(* What the invariant says of the log and of its readings.                 *)

\* supersede, whatever fails between its two appends, never leaves a marker
\* without the successor that takes the place of the old event.
THEOREM SupersessionLosesNothing ==
  Spec => []SupersededHasSuccessor
<1>1. IInv => SupersededHasSuccessor
  BY DEF IInv
<1> QED
  BY <1>1, Invariant, PTL

\* A marker of the log is part of every snapshot frozen now.
LEMMA MarkersAreInSnapshots ==
  ASSUME IInv, NEW public \in BOOLEAN, NEW m \in DOMAIN events,
         events[m].status \in Invalidations
  PROVE  m \in SnapshotSource(now, public)
<1>1. /\ events[m] \in Event /\ events[m].created # None
      /\ events[m].observed <= now /\ events[m].created <= now
      /\ events[m].authority = "trusted"
  BY DEF IInv, TypeOK, Past
<1> QED
  BY <1>1 DEF SnapshotSource

\* _eligible_events and the snapshot with its second filter recall the same now.
THEOREM LiveAndBenchmarkAgree ==
  Spec => []ViewsAgree
<1>1. IInv => ViewsAgree
  <2> SUFFICES ASSUME IInv, NEW public \in BOOLEAN,
                      NEW limit \in SnapshotLimits, Snapshots(now, public, limit)
               PROVE  BenchmarkEvents(now, public, limit) = LiveEvents(public)
    BY DEF ViewsAgree, MemoryView, BenchmarkEvents
  <2> DEFINE source == SnapshotSource(now, public)
  <2>1. BenchmarkEvents(now, public, limit) =
          {e \in source : Recallable(e, now, public) /\ ~ \E m \in source : Invalidates(m, e)}
    BY DEF BenchmarkEvents
  <2>2. ASSUME NEW e \in DOMAIN events, Recallable(e, now, public)
        PROVE  e \in source
    <3>1. events[e].created # None /\ events[e].observed <= now /\ events[e].created <= now
      BY DEF IInv, TypeOK, Past
    <3> QED
      BY <2>2, <3>1 DEF Recallable, SnapshotSource
  <2>3. source \subseteq DOMAIN events
    BY DEF SnapshotSource
  <2>4. ASSUME NEW e \in DOMAIN events, NEW m \in DOMAIN events, Invalidates(m, e)
        PROVE  m \in source
    BY <2>4, MarkersAreInSnapshots DEF Invalidates
  <2> HIDE DEF source
  <2> QED
    BY <2>1, <2>2, <2>3, <2>4 DEF LiveEvents
<1> QED
  BY <1>1, Invariant, PTL

\* Once a second is closed no later event is dated into it, so a benchmark task
\* gets the same evidence whenever it runs.
THEOREM FrozenSnapshotsStay ==
  Spec => FrozenViewsStay
<1>1. ASSUME IInv, [Next]_vars, NEW time \in Times, NEW public \in BOOLEAN,
             NEW limit \in SnapshotLimits, Closed(time)
      PROVE  MemoryView("benchmark", time, public, limit)' = MemoryView("benchmark", time, public, limit)
  <2>1. CASE UNCHANGED events
    BY <2>1 DEF MemoryView, BenchmarkEvents, Snapshots, SnapshotSource, Recallable, Invalidates
  <2>2. ASSUME NEW w \in Writers, Insert(w)
        PROVE  MemoryView("benchmark", time, public, limit)' = MemoryView("benchmark", time, public, limit)
    <3> DEFINE draft == Head(call[w].drafts)
    <3>1. /\ events \in Seq(Event) /\ call[w].drafts \in Seq(Event) /\ call[w].drafts # <<>>
          /\ call[w].drafts[1].created # None /\ now \in Times
      BY <1>1, <2>2 DEF IInv, TypeOK, CallConsistent, Insert
    <3>2. draft = call[w].drafts[1] /\ 1 \in DOMAIN call[w].drafts /\ draft \in Event
      BY <3>1
    <3>3. draft.created \in Times /\ draft.created > time
      BY <1>1, <3>1, <3>2 DEF Closed, Event
    <3>4. events' = Append(events, draft)
      BY <2>2 DEF Insert
    <3> HIDE DEF draft
    <3>5. /\ DOMAIN events = 1 .. Len(events) /\ DOMAIN events' = 1 .. Len(events) + 1
          /\ \A e \in DOMAIN events : events'[e] = events[e]
          /\ events'[Len(events) + 1] = draft
      BY <3>1, <3>2, <3>4
    <3>6. SnapshotSource(time, public)' = SnapshotSource(time, public)
      <4>1. ~ events'[Len(events) + 1].created <= time
        BY <3>3, <3>5
      <4> QED
        BY <3>1, <3>5, <4>1 DEF SnapshotSource
    <3>7. SnapshotSource(time, public) \subseteq DOMAIN events
      BY DEF SnapshotSource
    <3>8. \A e, m \in DOMAIN events :
             /\ Recallable(e, time, public)' <=> Recallable(e, time, public)
             /\ Invalidates(m, e)' <=> Invalidates(m, e)
      BY <3>5 DEF Recallable, Invalidates
    <3> QED
      <4>1. Snapshots(time, public, limit)' <=> Snapshots(time, public, limit)
        BY <3>6 DEF Snapshots
      <4> QED
        BY <3>6, <3>7, <3>8, <4>1 DEF MemoryView, BenchmarkEvents
  <2> QED
    BY <1>1, <2>1, <2>2 DEF Next, Step, Begin, Observe, Validate, Promote, Tombstone, Supersede,
       ImportSource, ReadClock, RefuseExpired, ReadPreviousHash, Abandon, Tick, vars
<1>2. IInv /\ [Next]_vars =>
        (\A time \in Times, public \in BOOLEAN, limit \in SnapshotLimits :
            Closed(time) => MemoryView("benchmark", time, public, limit)'
                                = MemoryView("benchmark", time, public, limit))
  BY <1>1
<1>3. IInv /\ [Next]_vars =>
        [\A time \in Times, public \in BOOLEAN, limit \in SnapshotLimits :
            Closed(time) => MemoryView("benchmark", time, public, limit)'
                                = MemoryView("benchmark", time, public, limit)]_vars
  BY <1>2
<1> QED
  BY <1>3, Invariant, PTL DEF Spec, FrozenViewsStay
=============================================================================

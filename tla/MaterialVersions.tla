--------------------------- MODULE MaterialVersions ---------------------------
(***************************************************************************)
(* The study-material versions of one topic: the mentor's working pointer  *)
(* (is_active), the edition trainees see (is_published), the lifecycle and *)
(* the mentor's shelf (is_archived), moved by overlapping requests.        *)
(*                                                                         *)
(* A request is the sequence of its commits.  No row is locked: what a     *)
(* request has read it writes back later, and an UPDATE names the columns  *)
(* that differ from what was read.  A request may die between two steps.   *)
(***************************************************************************)
EXTENDS Integers, FiniteSets

CONSTANTS
  Callers,      \* requests in progress at a time
  MaxVersions   \* versions ever created (bounds the state space)

ASSUME MaterialAssumption == MaxVersions \in Nat \ {0}

VARIABLES
  ver,      \* the rows, in the order of their insertion
  call,     \* per caller: the request and what its session has read
  doubled   \* how the topic came to have two published or two working versions

vars == <<ver, call, doubled>>

Versions == 1..MaxVersions
None == 0
Lives == {"none", "draft", "active", "archived", "discarded"}
\* run: "closed" once the generation run cannot be abandoned any more, "none" for manual edits.
Rows == [life: Lives, published: BOOLEAN, active: BOOLEAN, shelved: BOOLEAN,
         num: 0..MaxVersions, base: Versions \cup {None}, run: {"none", "open", "closed"}]
NoRow == [life |-> "none", published |-> FALSE, active |-> FALSE, shelved |-> FALSE,
          num |-> 0, base |-> None, run |-> "none"]
NoCall == [op |-> "idle", pc |-> "idle", v |-> None, other |-> None, num |-> 0,
           others |-> {}, held |-> {}]

Init ==
  /\ ver = [v \in Versions |-> NoRow]
  /\ call = [c \in Callers |-> NoCall]
  /\ doubled = {}

-----------------------------------------------------------------------------
(* Queries *)

ExistIn(rows) == {v \in Versions : rows[v].life # "none"}
Exists == ExistIn(ver)
Unused == Versions \ Exists
FirstUnused == CHOOSE v \in Unused : \A w \in Unused : v <= w
PublishedIn(rows) == {v \in Versions : rows[v].published}
ActiveIn(rows) == {v \in Versions : rows[v].active}
Published == PublishedIn(ver)
HeldIn(S) == {v \in S : ver[v].active}

\* get_active_version: any row that answers, the query has no order.
WorkingIn(rows) == {v \in Versions : rows[v].active /\ ~rows[v].shelved /\ rows[v].life # "discarded"}
Working == WorkingIn(ver)
ActiveVersion == IF Working = {} THEN {None} ELSE Working

\* Mutant: rows the mentor has discarded do not count.
NextNumberVisible ==
  LET numbers == {ver[v].num : v \in {w \in Exists : ver[w].life # "discarded"}} \cup {0}
  IN 1 + CHOOSE n \in numbers : \A m \in numbers : m <= n

\* get_next_version_number
NextNumber ==
  LET numbers == {ver[v].num : v \in Versions}
  IN 1 + CHOOSE n \in numbers : \A m \in numbers : m <= n

\* Mutant: the publish flag is not asked for.
DiscardableUnpublished(v) == ver[v].life \in {"draft", "active"} /\ ~ver[v].shelved

\* What clear-all-drafts may discard: drafts, and active rows that lost their publish flag.
Discardable(v) ==
  /\ ~ver[v].shelved
  /\ ver[v].life = "draft" \/ (ver[v].life = "active" /\ ~ver[v].published)
Live(v) == ver[v].life = "active" /\ ver[v].published

\* get_latest_workspace_draft, with every choice among equal numbers.
WorkspaceDrafts == {v \in Exists : ~ver[v].shelved /\ ~ver[v].published /\ ver[v].life # "discarded"}
Latest == {v \in WorkspaceDrafts : \A w \in WorkspaceDrafts : ver[w].num <= ver[v].num}

-----------------------------------------------------------------------------
(* Transitions: the columns a session writes, given whether it read the row as active. *)

Deactivate(row, held) == IF held THEN [row EXCEPT !.active = FALSE] ELSE row

\* Mutant: retired material keeps its lifecycle.
RetiredFlagOnly(row, held, mode) == Deactivate([row EXCEPT !.published = FALSE], held)

\* Mutant: hiding writes the lifecycle of that name.
RetiredHidden(row, held, mode) ==
  Deactivate([row EXCEPT !.published = FALSE, !.life = IF mode = "draft" THEN "hidden" ELSE mode], held)

\* transition_sm_to_archived, or transition_sm_to_hidden (which writes "draft").
Retired(row, held, mode) == Deactivate([row EXCEPT !.published = FALSE, !.life = mode], held)
Modes == {"archived", "draft"}

\* publish_version, and activate_version: whatever the lifecycle.
WentLive(row) == [row EXCEPT !.published = TRUE, !.life = "active"]
Activated(row) == [row EXCEPT !.active = TRUE]
Discarded(row) == [row EXCEPT !.life = "discarded", !.published = FALSE, !.active = FALSE]

-----------------------------------------------------------------------------
(* Requests *)

\* A commit, after which the request goes on as next.  doubled keeps how a second version of a
\* kind can have come about: requests that overlapped, a restoration, or a working version that
\* get_active_version does not see.  It is forgotten once the topic has settled: one version of
\* each kind, nobody at work (a request that is to go on has seen what was there before).
Hidden(row) == row.active /\ (row.shelved \/ row.life = "discarded")
Commit(c, next, rows, tag) ==
  LET overlap == {"overlap" : d \in {e \in Callers \ {c} : call[e].op # "idle"}}
      hidden == {"hidden" : v \in {w \in Versions : Hidden(rows[w])}}
      settled == /\ overlap = {} /\ next.op = "idle"
                 /\ Cardinality(PublishedIn(rows)) <= 1
                 /\ Cardinality(ActiveIn(rows)) <= 1
  IN /\ ver' = rows
     /\ call' = [call EXCEPT ![c] = next]
     /\ doubled' = IF settled THEN {} ELSE doubled \cup overlap \cup hidden \cup tag

\* The request reads, and goes on as next.
Read(c, next) == call' = [call EXCEPT ![c] = next] /\ UNCHANGED <<ver, doubled>>
Begin(c, op, pc) == [NoCall EXCEPT !.op = op, !.pc = pc]
At(c, pc) == call[c].pc = pc
Then(c, pc) == [call[c] EXCEPT !.pc = pc]

(* Manual edit and generation *)

StartEdit(c) ==
  /\ At(c, "idle") /\ Unused # {}
  /\ \E other \in ActiveVersion :
       Read(c, [Begin(c, "edit", IF other = None THEN "number" ELSE "drop") EXCEPT !.other = other])

\* Mutant: the previous working version is left alone.
DropNothing(c) == ver

\* deactivate_version
Drop(c) == [ver EXCEPT ![call[c].other] = Deactivate(@, TRUE)]

\* It commits before the new version exists.
EditDeactivates(c) ==
  /\ At(c, "drop") /\ call[c].op = "edit"
  /\ Commit(c, Then(c, "number"), Drop(c), {})

EditNumbers(c) ==
  /\ At(c, "number") /\ call[c].op = "edit"
  /\ Read(c, [Then(c, "create") EXCEPT !.num = NextNumber])

\* Mutant: two workers may write material of the topic.
TopicFreeAlways(c) == TRUE

\* The topic's advisory lock: one generation at a time (GenerationRun.ExclusiveExecution).
TopicFree(c) == \A d \in Callers \ {c} : call[d].op # "generate"

\* A run starts from the working version (regenerate, improve) or from nothing.
StartGeneration(c) ==
  /\ At(c, "idle") /\ Unused # {} /\ TopicFree(c)
  /\ \E base \in Working \cup {None} : Read(c, [Begin(c, "generate", "number") EXCEPT !.v = base])

\* _persist_new_version reads the next number and the working version...
GenerationNumbers(c) ==
  /\ At(c, "number") /\ call[c].op = "generate"
  /\ \E other \in ActiveVersion :
       Read(c, [Then(c, "create") EXCEPT !.num = NextNumber, !.other = other])

\* ... and inserts.  An edit has dropped the old working version already, a generation drops it
\* here; its run completes, or stays open to be abandoned.
Create(c) ==
  /\ At(c, "create") /\ Unused # {}
  /\ \E run \in IF call[c].op = "edit" THEN {"none"} ELSE {"open", "closed"} :
       LET base == IF call[c].op = "edit" THEN call[c].other ELSE call[c].v
           rows == IF call[c].op = "edit" \/ call[c].other = None THEN ver
                   ELSE Drop(c)
       IN Commit(c, NoCall, [rows EXCEPT ![FirstUnused] =
                   [NoRow EXCEPT !.life = "draft", !.active = TRUE, !.num = call[c].num,
                                 !.base = base, !.run = run]], {})

(* Publish, unpublish, reconcile *)

\* Mutant: only the working version is retired.
OthersWorking(v) == Working \ {v}

\* The rows that unpublish_other_versions finds.
Others(v) == Published \ {v}

StartPublish(c, v) ==
  /\ At(c, "idle") /\ v \in Exists /\ ~ver[v].published
  /\ Read(c, [Begin(c, "publish", "swap") EXCEPT !.v = v, !.others = Others(v), !.held = HeldIn(Others(v))])

RetireOthers(c, mode) == [w \in Versions |-> IF w \in call[c].others
                            THEN Retired(ver[w], w \in call[c].held, mode) ELSE ver[w]]

\* One commit: the others retired as the mentor chose, the target live whatever it was.
Publish(c) ==
  /\ At(c, "swap") /\ call[c].op = "publish"
  /\ \E mode \in Modes :
       Commit(c, NoCall,
              [RetireOthers(c, mode) EXCEPT ![call[c].v] = WentLive(@)], {})

StartUnpublish(c, v) ==
  /\ At(c, "idle") /\ ver[v].published
  /\ Read(c, [Begin(c, "unpublish", "retire") EXCEPT !.v = v, !.held = HeldIn({v})])

Unpublish(c) ==
  /\ At(c, "retire")
  /\ \E mode \in Modes :
       Commit(c, NoCall, [ver EXCEPT ![call[c].v] = Retired(@, call[c].held # {}, mode)], {})

\* Listing the versions repairs a double publication: the highest number stays.
StartReconcile(c) ==
  /\ At(c, "idle") /\ Cardinality(Published) > 1
  /\ \E v \in Published :
       /\ \A w \in Published : ver[w].num <= ver[v].num
       /\ Read(c, [Begin(c, "reconcile", "swap") EXCEPT
                     !.v = v, !.others = Others(v), !.held = HeldIn(Others(v))])

Reconcile(c) ==
  /\ At(c, "swap") /\ call[c].op = "reconcile"
  /\ Commit(c, NoCall, RetireOthers(c, "archived"), {})

(* Activate, archive to the shelf, unarchive *)

StartActivate(c, v) ==
  /\ At(c, "idle") /\ v \in Exists
  /\ Read(c, [Begin(c, "activate", IF ver[v].shelved THEN "unshelve" ELSE "lookup") EXCEPT !.v = v])

\* Trainee history on the shelf stays there.
StartUnarchive(c, v) ==
  /\ At(c, "idle") /\ ver[v].shelved /\ ver[v].life # "archived"
  /\ Read(c, [Begin(c, "activate", "unshelve") EXCEPT !.v = v])

Unshelve(c) ==
  /\ At(c, "unshelve")
  /\ Commit(c, Then(c, "lookup"), [ver EXCEPT ![call[c].v].shelved = FALSE], {})

Lookup(c) ==
  /\ At(c, "lookup")
  /\ \E other \in ActiveVersion :
       Read(c, [Then(c, IF other \in {None, call[c].v} THEN "raise" ELSE "drop")
                  EXCEPT !.other = other])

DropOther(c) ==
  /\ At(c, "drop") /\ call[c].op = "activate"
  /\ Commit(c, Then(c, "raise"), Drop(c), {})

RaiseTarget(c) ==
  /\ At(c, "raise")
  /\ Commit(c, NoCall, [ver EXCEPT ![call[c].v] = Activated(@)], {})

StartArchive(c, v) ==
  /\ At(c, "idle") /\ ver[v].life = "draft" /\ ~ver[v].shelved /\ ~ver[v].published
  /\ Read(c, [Begin(c, "archive", "shelve") EXCEPT !.v = v, !.held = HeldIn({v})])

Shelve(c) ==
  /\ At(c, "shelve")
  /\ Commit(c, NoCall, [ver EXCEPT ![call[c].v] = Deactivate([@ EXCEPT !.shelved = TRUE], call[c].held # {})], {})

(* Clear all drafts, abandon a run, delete the topic *)

\* Eligible if something is discardable and nothing is live; quizzes may block it too, which is
\* the same as not asking.
StartClear(c) ==
  /\ At(c, "idle")
  /\ \E v \in Versions : Discardable(v)
  /\ \A v \in Versions : ~Live(v)
  /\ Read(c, Begin(c, "clear", "discard"))

\* The UPDATE looks again for what is discardable.
Clear(c) ==
  /\ At(c, "discard") /\ call[c].op = "clear"
  /\ Commit(c, NoCall, [v \in Versions |-> IF Discardable(v) THEN Discarded(ver[v]) ELSE ver[v]], {})

\* The run's versions are discarded, published or not; the base of the working version is
\* remembered if the working version is the run's.
StartAbandon(c, v) ==
  /\ At(c, "idle") /\ ver[v].run = "open"
  /\ \E other \in ActiveVersion :
       Read(c, [Begin(c, "abandon", "discard") EXCEPT
                  !.v = v, !.other = IF other = v THEN ver[v].base ELSE None])

AbandonDiscards(c) ==
  /\ At(c, "discard") /\ call[c].op = "abandon"
  /\ Commit(c, Then(c, "restore"),
            IF ver[call[c].v].shelved THEN ver ELSE [ver EXCEPT ![call[c].v] = Discarded(@)], {})

\* restore_working_draft_after_discard: the base if it can be used, else the latest draft.
RestoreTargets(c) ==
  LET base == call[c].other
  IN IF base # None /\ ~ver[base].shelved /\ ver[base].life # "discarded" THEN {base} ELSE Latest

\* Whatever is the working version stays the working version, too.
Restore(c) ==
  /\ At(c, "restore")
  /\ \/ RestoreTargets(c) = {} /\ Read(c, Then(c, "close"))
     \/ \E w \in RestoreTargets(c) :
          Commit(c, Then(c, "close"), [ver EXCEPT ![w] = Activated(@)], {"restore"})

\* The run's row becomes ABANDONED: its own commit.
CloseRun(c) ==
  /\ At(c, "close")
  /\ Commit(c, NoCall, [ver EXCEPT ![call[c].v].run = "closed"], {})

\* The topic is deleted: live versions go to the trainees' history, drafts to the trash.
DeleteTopic(c) ==
  /\ At(c, "idle")
  /\ Commit(c, NoCall, [v \in Versions |->
       IF Live(v) THEN Retired(ver[v], ver[v].active, "archived")
       ELSE IF ver[v].life = "draft" THEN Discarded(ver[v]) ELSE ver[v]], {})

\* The request fails between two of its commits.
Dies(c) == ~At(c, "idle") /\ Read(c, NoCall)

-----------------------------------------------------------------------------
Writing(c) == StartEdit(c) \/ EditDeactivates(c) \/ EditNumbers(c)
                \/ StartGeneration(c) \/ GenerationNumbers(c) \/ Create(c)
Publishing(c) == (\E v \in Versions : StartPublish(c, v) \/ StartUnpublish(c, v))
                   \/ Publish(c) \/ Unpublish(c) \/ StartReconcile(c) \/ Reconcile(c)
Shelving(c) == (\E v \in Versions : StartActivate(c, v) \/ StartUnarchive(c, v) \/ StartArchive(c, v))
                 \/ Unshelve(c) \/ Lookup(c) \/ DropOther(c) \/ RaiseTarget(c) \/ Shelve(c)
Discarding(c) == StartClear(c) \/ Clear(c) \/ (\E v \in Versions : StartAbandon(c, v))
                   \/ AbandonDiscards(c) \/ Restore(c) \/ CloseRun(c) \/ DeleteTopic(c)

Next == \E c \in Callers : Writing(c) \/ Publishing(c) \/ Shelving(c) \/ Discarding(c) \/ Dies(c)

Spec == Init /\ [][Next]_vars

-----------------------------------------------------------------------------
(* Properties *)

Requests == [op: {"idle", "edit", "generate", "publish", "unpublish", "reconcile", "activate",
                  "archive", "clear", "abandon"},
             pc: {"idle", "drop", "number", "create", "swap", "retire", "unshelve", "lookup", "raise",
                  "shelve", "discard", "restore", "close"},
             v: Versions \cup {None}, other: Versions \cup {None}, num: 0..(MaxVersions + 1),
             others: SUBSET Versions, held: SUBSET Versions]

\* Rows, requests and tags stay in their domains; a version's number never exceeds the rows created.
TypeOK ==
  /\ ver \in [Versions -> Rows]
  /\ call \in [Callers -> Requests]
  /\ doubled \subseteq {"overlap", "restore", "hidden"}

\* Trainees see at most one edition, unless publications overlapped; and a double publication
\* is gone with the next one or with the next listing (publish_version, reconcile_published_versions).
OnePublished == Cardinality(Published) > 1 => "overlap" \in doubled

\* The workspace has at most one working version, unless requests overlapped or a run was
\* abandoned whose version was not the working one (activate, unarchive, manual edit, generation).
OneWorking == Cardinality(Working) > 1 => doubled # {}

\* The two columns that say "live" agree, though every request writes only the columns that
\* differ from what it read, and reads may be outdated (transitions.py).
PublishedIsActive == \A v \in Versions : ver[v].published <=> ver[v].life = "active"

\* Generated versions are numbered in the order they were written, though numbers are read before
\* the insert: generations of a topic exclude each other (get_next_version_number).
GeneratedInOrder ==
  \A v, w \in Versions : v < w /\ ver[v].run # "none" /\ ver[w].run # "none" => ver[v].num < ver[w].num

\* Clearing drafts never takes what trainees see, even if it was published after the eligibility
\* check; only abandoning the run that wrote it does (discard_draft_versions_for_node).
LiveNeverCleared ==
  [][\A v \in Versions : Live(v) /\ ver'[v].life = "discarded"
       => \E c \in Callers : call[c].op = "abandon" /\ call[c].v = v]_vars

-----------------------------------------------------------------------------
(* The inductive invariant. *)

\* Rows are used in the order of their places, which bound their numbers, and refer to rows.
InOrder(rows) ==
  \A v \in Versions :
    /\ rows[v].life = "none" => rows[v] = NoRow
    /\ rows[v].life # "none" => \A w \in Versions : w < v => rows[w].life # "none"
    /\ rows[v].num <= v
    /\ rows[v].base \in ExistIn(rows) \cup {None}

\* What a request holds: rows that exist, and a number that neither an unused place nor, if it
\* generates, a generated version has reached.
Known(x, rows) ==
  /\ x.op = "idle" <=> x.pc = "idle"
  /\ {x.v, x.other} \subseteq ExistIn(rows) \cup {None} /\ x.others \subseteq ExistIn(rows)
  /\ x.op \in {"publish", "unpublish", "reconcile", "activate", "archive", "abandon"} => x.v # None
  /\ x.op = "abandon" => rows[x.v].run # "none"
  /\ x.pc = "drop" => x.other # None
  /\ x.pc = "create" => x.op \in {"edit", "generate"}
  /\ x.pc = "retire" => x.op = "unpublish"
  /\ x.pc \in {"unshelve", "lookup", "raise"} => x.op = "activate"
  /\ x.pc = "shelve" => x.op = "archive"
  /\ x.pc \in {"restore", "close"} => x.op = "abandon"
  /\ x.pc = "create" => \A v \in Versions \ ExistIn(rows) : x.num <= v
  /\ x.pc = "create" /\ x.op = "generate" =>
       \A v \in Versions : rows[v].run # "none" => rows[v].num < x.num

RequestsKnown == \A c \in Callers : Known(call[c], ver)
OneGeneration == \A c, d \in Callers : call[c].op = "generate" /\ call[d].op = "generate" => c = d

\* The publications a request has seen, and the working versions, are still all there are.
SeenPublished(x, rows) == x.op = "publish" => PublishedIn(rows) \subseteq x.others \cup {x.v}
SeenWorking(x, rows) ==
  /\ x.pc = "drop" \/ (x.pc = "create" /\ x.op = "generate") => WorkingIn(rows) \subseteq {x.other}
  /\ x.pc \in {"number", "create"} /\ x.op = "edit" => WorkingIn(rows) = {}
  /\ x.pc = "raise" => WorkingIn(rows) \subseteq {x.v}

AtMostOne(S) == \A v, w \in S : v = w

\* No second version of a kind, nor a request that would bring it about, unless doubled says so.
NoOverlap ==
  "overlap" \notin doubled =>
    AtMostOne(Published) /\ \A c \in Callers : SeenPublished(call[c], ver)
NotDoubled ==
  doubled = {} =>
    AtMostOne(ActiveIn(ver)) /\ \A c \in Callers : SeenWorking(call[c], ver)

IInv ==
  /\ TypeOK /\ InOrder(ver) /\ PublishedIsActive /\ GeneratedInOrder
  /\ RequestsKnown /\ OneGeneration /\ NoOverlap /\ NotDoubled
=============================================================================

----------------------------- MODULE EventCursor -----------------------------
(***************************************************************************)
(* How passes of the rule engine consume domain_events: the cursor row     *)
(* workflow_cursors['domain_events'], the batch, the rules of the moment,  *)
(* one run per rule and event, and the depth that stops rules from setting *)
(* each other off.                                                         *)
(*   src/lib/workflow/cursor.ts   ensureEventCursor, advanceEventCursor    *)
(*   src/lib/workflow/engine.ts   readEventsAfter, eventDepth, processRule,*)
(*                                runWorkflows                             *)
(*   src/lib/workflow/rules.ts    setRuleStatus                            *)
(*                                                                         *)
(* An event is named by its place in the order (recorded_at, id).  The     *)
(* place is that of the START of its transaction; it can be read after the *)
(* COMMIT, and a transaction that stays open is overtaken by later ones.   *)
(* What becomes of a run once it is there is WorkflowRuns's subject.       *)
(***************************************************************************)
EXTENDS Integers, FiniteSets, FiniteSetsExt

CONSTANTS
  Rules, Kinds,
  Workers,       \* the passes and the administrators
  Admins,        \* those of them who switch rules on
  Trigger,       \* the kind of event each rule answers
  Emits,         \* the kind its action sets off, or NoKind
  Gated,         \* rules with an approval gate
  TimeLimit,     \* TRUE: the pass has a deadline (the job of client organizations)
  BatchSize,     \* EVENT_BATCH
  Budget,        \* ACTION_BUDGET; every rule has one action
  MaxDepth,      \* WORKFLOW_MAX_CAUSATION_DEPTH
  OldEvents,     \* events recorded before the engine was first used
  OldKinds,      \* the kinds they are of
  PeopleEvents,  \* bound on the events people cause, the old ones included
  MaxEvents,     \* bound on all events
  MaxCrashes,    \* bound on the passes that die
  NoKind, NoRule, NoCause

ASSUME CursorAssumption ==
  /\ Trigger \in [Rules -> Kinds] /\ Emits \in [Rules -> Kinds \cup {NoKind}]
  /\ OldKinds \subseteq Kinds /\ Gated \subseteq Rules /\ Admins \subseteq Workers /\ TimeLimit \in BOOLEAN
  /\ NoKind \notin Kinds /\ NoRule \notin Rules /\ NoCause \notin Rules \X Nat

ASSUME CursorLimits ==
  /\ BatchSize \in Nat \ {0} /\ Budget \in Nat \ {0} /\ MaxDepth \in Nat
  /\ OldEvents \in 0 .. PeopleEvents /\ PeopleEvents \in Nat
  /\ MaxEvents \in Nat /\ PeopleEvents <= MaxEvents /\ MaxCrashes \in Nat

Events   == 1 .. MaxEvents
NoCursor == -1      \* the row does not exist yet
\* OPEN: waiting for approval or being executed; ENDED: over, for the run was
\* carried out or refused, or at once (SKIPPED, DRY_RUN, FAILED for its depth).
RunState == {"NONE", "OPEN", "ENDED"}
Step     == {"idle", "ensure", "latest", "insert", "read", "rules", "loop",
             "handle", "act"}

VARIABLES
  \* domain_events
  begun,      \* events whose transaction has begun
  seen,       \* events that are committed
  kind, cause,
  \* workflow_cursors, workflow_rules (ACTIVE), workflow_runs
  cursor, on, run, depth,
  \* the passes, and the switching on of a rule, which ensures the cursor too
  pc,
  from,       \* the cursor it read
  batch,      \* events it read
  known,      \* rules it read
  last,       \* the last event it has finished
  left,       \* rules still to be handled for the current event
  doing,      \* the rule whose run it is executing
  acted,      \* actions executed in this pass
  crashes,
  \* history
  start,      \* where the cursor was created
  owed,       \* rules on when the event became visible, and ever since
  hidden,     \* events in open transactions when the batch was read
  overtaken   \* events the cursor passed while nobody could read them

eventVars  == <<begun, seen, kind, cause>>
passVars   == <<from, batch, known, last, left, doing, acted>>
vars == <<eventVars, cursor, on, run, depth, pc, passVars, crashes,
          start, owed, hidden, overtaken>>

------------------------------------------------------------------------------
Init ==
  /\ begun = OldEvents /\ seen = 1 .. OldEvents
  /\ \E old \in [1 .. OldEvents -> OldKinds] :
       kind = [e \in Events |-> IF e <= OldEvents THEN old[e] ELSE NoKind]
  /\ cause = [e \in Events |-> NoCause]
  /\ cursor = NoCursor /\ on = {}
  /\ run = [x \in Rules \X Events |-> "NONE"]
  /\ depth = [x \in Rules \X Events |-> 0]
  /\ pc = [w \in Workers |-> "idle"]
  /\ from = [w \in Workers |-> 0] /\ last = [w \in Workers |-> 0]
  /\ batch = [w \in Workers |-> {}] /\ hidden = [w \in Workers |-> {}]
  /\ known = [w \in Workers |-> {}] /\ left = [w \in Workers |-> {}]
  /\ doing = [w \in Workers |-> NoRule] /\ acted = [w \in Workers |-> 0]
  /\ crashes = 0
  /\ start = NoCursor /\ overtaken = {}
  /\ owed = [e \in Events |-> {}]

Goto(w, s) == pc' = [pc EXCEPT ![w] = s]

------------------------------------------------------------------------------
(* Events. *)

\* A transaction of the business code writes an event; it is not committed yet.
BeginEvent(k) ==
  /\ begun < PeopleEvents
  /\ begun' = begun + 1
  /\ kind' = [kind EXCEPT ![begun + 1] = k]
  /\ UNCHANGED <<seen, cause, cursor, on, run, depth, pc, passVars, crashes,
                 start, owed, hidden, overtaken>>

CommitEvent(e) ==
  /\ e <= begun /\ e \notin seen
  /\ seen' = seen \cup {e}
  /\ owed' = [owed EXCEPT ![e] = {r \in on : Trigger[r] = kind[e]}]
  /\ UNCHANGED <<begun, kind, cause, cursor, on, run, depth, pc, passVars, crashes,
                 start, hidden, overtaken>>

\* The run of rule r for event e ends.  Its action writes a value, which emits an
\* event caused by the run in a short transaction of its own, or it fails, is
\* refused, or changes nothing.
EndRun(r, e) ==
  /\ run[<<r, e>>] = "OPEN"
  /\ run' = [run EXCEPT ![<<r, e>>] = "ENDED"]
  /\ \/ /\ Emits[r] # NoKind /\ begun < MaxEvents
        /\ begun' = begun + 1
        /\ seen' = seen \cup {begun + 1}
        /\ kind' = [kind EXCEPT ![begun + 1] = Emits[r]]
        /\ cause' = [cause EXCEPT ![begun + 1] = <<r, e>>]
        /\ owed' = [owed EXCEPT ![begun + 1] = {x \in on : Trigger[x] = Emits[r]}]
     \/ UNCHANGED <<eventVars, owed>>

\* A gated run whose approval was decided, or a run whose pass died or stalled,
\* is carried out or closed by the sweeps (WorkflowRuns).
EndRunLater(r, e) ==
  /\ EndRun(r, e)
  /\ UNCHANGED <<cursor, on, depth, pc, passVars, crashes, start, hidden, overtaken>>

------------------------------------------------------------------------------
(* Rules. *)

\* setRuleStatus ACTIVE: the rule is on at once, the cursor is ensured afterwards.
SwitchOn(w, r) ==
  /\ w \in Admins /\ pc[w] = "idle" /\ r \notin on
  /\ on' = on \cup {r}
  /\ Goto(w, "ensure")
  /\ UNCHANGED <<eventVars, cursor, run, depth, passVars, crashes,
                 start, owed, hidden, overtaken>>

\* setRuleStatus PAUSED or ARCHIVED, or an edit, which makes it a draft.
SwitchOff(r) ==
  /\ r \in on
  /\ on' = on \ {r}
  /\ owed' = [e \in Events |-> owed[e] \ {r}]
  /\ UNCHANGED <<eventVars, cursor, run, depth, pc, passVars, crashes,
                 start, hidden, overtaken>>

------------------------------------------------------------------------------
(* ensureEventCursor. *)

BeginPass(w) ==
  /\ w \notin Admins /\ pc[w] = "idle"
  /\ Goto(w, "ensure")
  /\ UNCHANGED <<eventVars, cursor, on, run, depth, passVars, crashes,
                 start, owed, hidden, overtaken>>

\* The cursor is there: a pass goes on with it, a switch is done.
FindCursor(w) ==
  /\ pc[w] = "ensure" /\ cursor # NoCursor
  /\ from' = [from EXCEPT ![w] = IF w \in Admins THEN 0 ELSE cursor]
  /\ Goto(w, IF w \in Admins THEN "idle" ELSE "read")
  /\ UNCHANGED <<eventVars, cursor, on, run, depth, batch, known, last, left,
                 doing, acted, crashes, start, owed, hidden, overtaken>>

MissCursor(w) ==
  /\ pc[w] = "ensure" /\ cursor = NoCursor
  /\ Goto(w, "latest")
  /\ UNCHANGED <<eventVars, cursor, on, run, depth, passVars, crashes,
                 start, owed, hidden, overtaken>>

\* Mutant: a new cursor starts before every event.
Origin == 0

\* The newest event, or ORIGIN.
Latest == Max(seen \cup {0})

SelectLatest(w) ==
  /\ pc[w] = "latest"
  /\ from' = [from EXCEPT ![w] = Latest]
  /\ Goto(w, "insert")
  /\ UNCHANGED <<eventVars, cursor, on, run, depth, batch, known, last, left,
                 doing, acted, crashes, start, owed, hidden, overtaken>>

\* ON CONFLICT DO NOTHING; the cursor is then read again.
InsertCursor(w) ==
  /\ pc[w] = "insert"
  /\ IF cursor = NoCursor
       THEN cursor' = from[w] /\ start' = from[w]
       ELSE UNCHANGED <<cursor, start>>
  /\ Goto(w, "ensure")
  /\ UNCHANGED <<eventVars, on, run, depth, passVars, crashes, owed, hidden, overtaken>>

------------------------------------------------------------------------------
(* The pass: events, then rules, then every rule for every event. *)

Readable(w) == {e \in seen : e > from[w]}

\* readEventsAfter: the first BatchSize of them.
Batches(w) == {b \in SUBSET Readable(w) :
                 /\ Cardinality(b) = Min({BatchSize, Cardinality(Readable(w))})
                 /\ \A e \in b, f \in Readable(w) \ b : e < f}

ReadEvents(w) ==
  /\ pc[w] = "read"
  /\ \E b \in Batches(w) : batch' = [batch EXCEPT ![w] = b]
  /\ hidden' = [hidden EXCEPT ![w] = (1 .. begun) \ seen]
  /\ last' = [last EXCEPT ![w] = from[w]]
  /\ acted' = [acted EXCEPT ![w] = 0]
  /\ Goto(w, "rules")
  /\ UNCHANGED <<eventVars, cursor, on, run, depth, from, known, left, doing,
                 crashes, start, owed, overtaken>>

ReadRules(w) ==
  /\ pc[w] = "rules"
  /\ known' = [known EXCEPT ![w] = IF batch[w] = {} THEN {} ELSE on]
  /\ Goto(w, "loop")
  /\ UNCHANGED <<eventVars, cursor, on, run, depth, from, batch, last, left,
                 doing, acted, crashes, start, owed, hidden, overtaken>>

Ahead(w)       == {e \in batch[w] : e > last[w]}
Current(w)     == Min(Ahead(w))
Matching(w, e) == {r \in known[w] : Trigger[r] = kind[e]}

\* Mutant: an event that costs the whole budget, or more, never gets its turn.
OverBudgetAlways(w, e) ==
  LET cost == Cardinality(Matching(w, e) \ Gated)
  IN  cost > 0 /\ acted[w] + cost >= Budget

\* The action budget; the first event that acts may exceed it.
OverBudget(w, e) ==
  LET cost == Cardinality(Matching(w, e) \ Gated)
  IN  cost > 0 /\ acted[w] > 0 /\ acted[w] + cost > Budget

\* The rules in rest are still to be handled for the current event; with none left
\* the event is finished.
GoOn(w, rest) ==
  /\ left' = [left EXCEPT ![w] = rest]
  /\ last' = [last EXCEPT ![w] = IF rest = {} THEN Current(w) ELSE @]
  /\ Goto(w, IF rest = {} THEN "loop" ELSE "handle")

TakeEvent(w) ==
  /\ pc[w] = "loop" /\ Ahead(w) # {}
  /\ ~OverBudget(w, Current(w))
  /\ GoOn(w, Matching(w, Current(w)))
  /\ UNCHANGED <<eventVars, cursor, on, run, depth, from, batch, known,
                 doing, acted, crashes, start, owed, hidden, overtaken>>

\* Mutant: the depth of the run is taken for the depth of the event.
DepthOfRun(e) == IF cause[e] = NoCause THEN 0 ELSE depth[cause[e]]

\* eventDepth: 0 for an event nobody's rule caused, else one more than the run.
EventDepth(e) == IF cause[e] = NoCause THEN 0 ELSE depth[cause[e]] + 1

\* The insert of a run ON CONFLICT DO NOTHING.
InsertRun(r, e, s) ==
  /\ run[<<r, e>>] = "NONE"
  /\ run' = [run EXCEPT ![<<r, e>>] = s]
  /\ depth' = [depth EXCEPT ![<<r, e>>] = EventDepth(e)]

\* processRule for one rule.  Too deep a run is inserted as FAILED, one that does
\* not apply as SKIPPED; a run that is executed at once keeps the pass.
HandleRule(w, r) ==
  /\ pc[w] = "handle" /\ r \in left[w]
  /\ LET e == Current(w)
     IN  \/ /\ run[<<r, e>>] # "NONE"
            /\ GoOn(w, left[w] \ {r})
            /\ UNCHANGED <<run, depth, doing>>
         \/ /\ InsertRun(r, e, "ENDED")
            /\ GoOn(w, left[w] \ {r})
            /\ UNCHANGED doing
         \/ /\ EventDepth(e) <= MaxDepth /\ r \in Gated
            /\ InsertRun(r, e, "OPEN")
            /\ GoOn(w, left[w] \ {r})
            /\ UNCHANGED doing
         \/ /\ EventDepth(e) <= MaxDepth /\ r \notin Gated
            /\ InsertRun(r, e, "OPEN")
            /\ Goto(w, "act")
            /\ doing' = [doing EXCEPT ![w] = r]
            /\ UNCHANGED <<left, last>>
  /\ UNCHANGED <<eventVars, cursor, on, from, batch, known, acted,
                 crashes, start, owed, hidden, overtaken>>

\* executeRun, or its loss to a pass that took the run over.
Execute(w) ==
  /\ pc[w] = "act"
  /\ \/ EndRun(doing[w], Current(w))
     \/ /\ run[<<doing[w], Current(w)>>] = "ENDED"
        /\ UNCHANGED <<eventVars, run, owed>>
  /\ acted' = [acted EXCEPT ![w] = @ + 1]
  /\ doing' = [doing EXCEPT ![w] = NoRule]
  /\ GoOn(w, left[w] \ {doing[w]})
  /\ UNCHANGED <<cursor, on, depth, from, batch, known, crashes, start, hidden, overtaken>>

\* The pass is over: what it had in memory is gone.
Forget(w) ==
  /\ Goto(w, "idle")
  /\ from' = [from EXCEPT ![w] = 0] /\ last' = [last EXCEPT ![w] = 0]
  /\ batch' = [batch EXCEPT ![w] = {}] /\ hidden' = [hidden EXCEPT ![w] = {}]
  /\ known' = [known EXCEPT ![w] = {}] /\ left' = [left EXCEPT ![w] = {}]
  /\ doing' = [doing EXCEPT ![w] = NoRule] /\ acted' = [acted EXCEPT ![w] = 0]

\* Mutant: the cursor is written without looking at its old value.
AlwaysHolds(w) == TRUE

\* The condition of the compare-and-swap.
CursorUnmoved(w) == cursor = from[w]

\* Mutant: the cursor goes to the end of the batch, also when the pass stopped early.
EndOfBatch(w) == Max(batch[w] \cup {from[w]})

\* Up to where the pass has got.
Reached(w) == last[w]

\* The batch is done, or the budget or the deadline ends the pass before an event.
LoopEnds(w) == Ahead(w) # {} => TimeLimit \/ OverBudget(w, Current(w))

\* advanceEventCursor: compare and swap.
AdvanceEventCursor(w) ==
  /\ pc[w] = "loop" /\ LoopEnds(w)
  /\ IF CursorUnmoved(w)
       THEN /\ cursor' = Reached(w)
            /\ overtaken' = overtaken \cup {e \in hidden[w] : from[w] < e /\ e <= Reached(w)}
       ELSE UNCHANGED <<cursor, overtaken>>
  /\ Forget(w)
  /\ UNCHANGED <<eventVars, on, run, depth, crashes, start, owed>>

\* The process dies, or an exception ends the pass.  A switch that dies is one that
\* stays where it is for ever.
Crash(w) ==
  /\ w \notin Admins /\ pc[w] # "idle" /\ crashes < MaxCrashes
  /\ crashes' = crashes + 1
  /\ Forget(w)
  /\ UNCHANGED <<eventVars, cursor, on, run, depth, start, owed, overtaken>>

------------------------------------------------------------------------------
PassStep(w) ==
  \/ BeginPass(w) \/ FindCursor(w) \/ MissCursor(w) \/ SelectLatest(w) \/ InsertCursor(w)
  \/ ReadEvents(w) \/ ReadRules(w) \/ TakeEvent(w)
  \/ (\E r \in Rules : HandleRule(w, r))
  \/ Execute(w) \/ AdvanceEventCursor(w)

Next ==
  \/ \E k \in Kinds : BeginEvent(k)
  \/ \E e \in Events : CommitEvent(e)
  \/ \E r \in Rules, e \in Events : EndRunLater(r, e)
  \/ \E r \in Rules : SwitchOff(r)
  \/ \E w \in Workers : PassStep(w) \/ Crash(w) \/ \E r \in Rules : SwitchOn(w, r)

Spec == Init /\ [][Next]_vars

\* The scheduler starts passes for ever, and while some may stall or die, not all of
\* them do.  A deadline is counted from the start of the pass, so that passes which
\* get as far as the first event cannot all be out of time there.  Nothing is assumed
\* of the transactions of people, of administrators or of the sweeps.
SomePass == \E w \in Workers \ Admins : PassStep(w)
SomeTake == \E w \in Workers \ Admins : TakeEvent(w)

FairSpec == Spec /\ WF_vars(SomePass) /\ SF_vars(SomeTake)

------------------------------------------------------------------------------
TypeOK ==
  /\ begun \in 0 .. MaxEvents /\ seen \subseteq 1 .. begun
  /\ kind \in [Events -> Kinds \cup {NoKind}]
  /\ cause \in [Events -> (Rules \X Events) \cup {NoCause}]
  /\ cursor \in {NoCursor} \cup 0 .. begun /\ on \subseteq Rules
  /\ run \in [Rules \X Events -> RunState]
  /\ depth \in [Rules \X Events -> 0 .. MaxDepth + 1]
  /\ pc \in [Workers -> Step]
  /\ from \in [Workers -> 0 .. MaxEvents] /\ last \in [Workers -> 0 .. MaxEvents]
  /\ batch \in [Workers -> SUBSET Events] /\ hidden \in [Workers -> SUBSET Events]
  /\ known \in [Workers -> SUBSET Rules] /\ left \in [Workers -> SUBSET Rules]
  /\ doing \in [Workers -> Rules \cup {NoRule}] /\ acted \in [Workers -> Nat]
  /\ crashes \in 0 .. MaxCrashes
  /\ start \in {NoCursor} \cup 0 .. begun
  /\ owed \in [Events -> SUBSET Rules] /\ overtaken \subseteq Events

\* An event the cursor has passed was handled for every rule that was on when it
\* appeared and has stayed on: passes that overlap, die, run out of budget or of
\* time lose nothing, and neither does a rule switched on while a pass is under way
\* (it reads the events BEFORE the rules).  Left out are the events of transactions
\* that were overtaken, the risk engine.ts:30 declares, and those at or before the
\* place where the cursor was created.
PassedIsHandled ==
  /\ TypeOK
  /\ \A e \in seen \ overtaken : \A r \in owed[e] :
       start < e /\ e <= cursor => run[<<r, e>>] # "NONE"

\* What happened before the engine was first used sets nothing off, however the
\* first passes and the switching on of rules race for the creation of the cursor.
NoHistory ==
  \A e \in 1 .. OldEvents, r \in Rules : run[<<r, e>>] = "NONE"

\* How many runs stand between an event and the person who caused it.
Hops[e \in Events] == IF cause[e] = NoCause THEN 0 ELSE Hops[cause[e][2]] + 1

\* Rules that set each other off stop: a chain of causes has at most MaxDepth + 1
\* runs, whichever passes carry it and however late.
LoopsEnd == \A e \in Events : Hops[e] <= MaxDepth + 1

\* The cursor only moves on: of two passes that overlap the slower one does not
\* pull it back, and it is created once.
CursorOnlyAdvances ==
  [][cursor' # cursor => cursor' > cursor /\ (cursor = NoCursor \/ start' = start)]_vars

\* The passes catch up: every event that can be read is behind the cursor one day,
\* also one that costs more than the budget of a pass, or that follows a pass that
\* died or ran out of time.
EventsAreConsumed == []<>(seen \subseteq 1 .. cursor)
==============================================================================

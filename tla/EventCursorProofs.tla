--------------------------- MODULE EventCursorProofs ---------------------------
(***************************************************************************)
(* What EventCursor guarantees for any rules, passes and events, any size  *)
(* of the batch, any budget and any depth.                                 *)
(*                                                                         *)
(* The argument: the batch of a pass is, up to its last event, everything  *)
(* beyond the place it read the cursor at, save the events of transactions *)
(* that were open then; and because the rules are read after the events,   *)
(* the rules owed an event of the batch are among those the pass knows.    *)
(* Whatever it has finished has a run for each of them, so the compare and *)
(* swap leaves nothing behind but those open transactions.  The rest of    *)
(* the history only grows: a run never disappears, an event is never       *)
(* recorded twice, a rule that was off is owed nothing old.                *)
(***************************************************************************)
EXTENDS EventCursor, WellFoundedInduction, TLAPS

USE DEF Events, NoCursor, RunState, Step

------------------------------------------------------------------------------
\* A set of natural numbers that is not empty has a least member.
LEMMA LeastExists ==
  ASSUME NEW S \in SUBSET Nat, S # {}
  PROVE  \E x \in S : \A y \in S : x <= y
<1> DEFINE R == OpToRel(<, Nat)
<1>1. PICK x \in S : \A y \in S : <<y, x>> \notin R
  <2> HIDE DEF R
  <2>1. IsWellFoundedOn(R, Nat)
    BY NatLessThanWellFounded DEF R
  <2> QED
    BY <2>1, WFMin
<1>2. \A y \in S : ~(y < x)
  BY <1>1 DEF OpToRel
<1> QED
  BY <1>2

\* The least member, as CHOOSE gives it.
LEMMA MinIsLeast ==
  ASSUME NEW S \in SUBSET Nat, S # {}
  PROVE  Min(S) \in S /\ \A y \in S : Min(S) <= y
  BY LeastExists DEF Min

\* The greatest member of a bounded set, likewise.
LEMMA MaxIsGreatest ==
  ASSUME NEW n \in Nat, NEW S \in SUBSET (0 .. n), S # {}
  PROVE  Max(S) \in S /\ \A y \in S : Max(S) >= y
<1> DEFINE U == {k \in Nat : \A y \in S : y <= k}
<1>1. n \in U /\ U \in SUBSET Nat
  OBVIOUS
<1>2. PICK m \in U : \A k \in U : m <= k
  BY <1>1, LeastExists
<1>3. m \in S
  <2>1. SUFFICES ASSUME m \notin S
                 PROVE  FALSE
    OBVIOUS
  <2>2. PICK y \in S : TRUE
    OBVIOUS
  <2>3. \A z \in S : z < m
    BY <2>1, <1>2
  <2>4. m - 1 \in U
    BY <2>2, <2>3
  <2> QED
    BY <2>4, <1>2
<1> QED
  BY <1>2, <1>3 DEF Max

------------------------------------------------------------------------------
\* What the tables say of each other.
LedgerInv ==
  /\ 1 .. OldEvents \subseteq seen
  /\ \A e \in Events :
       /\ owed[e] \subseteq {r \in on : Trigger[r] = kind[e]} /\ (e \notin seen => owed[e] = {})
       /\ cause[e] # NoCause => /\ e \in 1 .. begun /\ cause[e][2] < e
                                /\ run[cause[e]] = "ENDED" /\ depth[cause[e]] <= MaxDepth
  /\ \A r \in Rules, e \in Events :
       /\ run[<<r, e>>] # "NONE" => e \in seen /\ e > OldEvents /\ depth[<<r, e>>] = EventDepth(e)
       /\ run[<<r, e>>] = "OPEN" => depth[<<r, e>>] <= MaxDepth

\* What the cursor has passed was handled, or was not to be read.
CursorInv ==
  /\ cursor = NoCursor \/ cursor >= OldEvents
  /\ \A e \in seen \ overtaken : \A r \in owed[e] :
       start < e /\ e <= cursor => run[<<r, e>>] # "NONE"
  /\ \A e \in (1 .. begun) \ seen : start < e /\ e <= cursor => e \in overtaken

\* What a pass has read and done.
PassInv(w) ==
  /\ pc[w] \in {"insert", "read", "rules", "loop", "handle", "act"} =>
       from[w] \in OldEvents .. begun
  /\ pc[w] \in {"rules", "loop", "handle", "act"} =>
       /\ batch[w] \subseteq seen /\ last[w] \in batch[w] \cup {from[w]}
       /\ \A b \in batch[w] :
            /\ from[w] < b
            /\ \A e \in Events : from[w] < e /\ e < b => e \in batch[w] \cup hidden[w]
  /\ pc[w] = "rules" => last[w] = from[w]
  /\ pc[w] \in {"loop", "handle", "act"} =>
       \A e \in batch[w] : /\ owed[e] \subseteq known[w]
                           /\ e <= last[w] => \A r \in owed[e] : run[<<r, e>>] # "NONE"
  /\ pc[w] \in {"handle", "act"} =>
       /\ Ahead(w) # {}
       /\ \A r \in Matching(w, Current(w)) \ left[w] : run[<<r, Current(w)>>] # "NONE"
  /\ pc[w] = "act" => doing[w] \in Rules /\ run[<<doing[w], Current(w)>>] # "NONE"

\* The inductive invariant.
IInv == TypeOK /\ LedgerInv /\ CursorInv /\ \A w \in Workers : PassInv(w)

------------------------------------------------------------------------------
\* What no step takes back.
Grows ==
  /\ seen \subseteq seen' /\ begun <= begun'
  /\ \A e \in seen : owed'[e] \subseteq owed[e] /\ kind'[e] = kind[e]
  /\ \A x \in Rules \X Events : run[x] # "NONE" => run'[x] # "NONE"

\* The pass is where it was.
Stays(w) ==
  /\ pc'[w] = pc[w] /\ from'[w] = from[w] /\ batch'[w] = batch[w] /\ hidden'[w] = hidden[w]
  /\ known'[w] = known[w] /\ last'[w] = last[w] /\ left'[w] = left[w] /\ doing'[w] = doing[w]

\* The event a pass is at is one of its batch, the first it has not finished.
LEMMA CurrentIsNext ==
  ASSUME TypeOK, NEW w \in Workers, Ahead(w) # {}
  PROVE  /\ Current(w) \in batch[w] /\ Current(w) \in Events /\ Current(w) > last[w]
         /\ \A e \in batch[w] : e > last[w] => Current(w) <= e
<1>1. Ahead(w) \in SUBSET Nat
  BY CursorLimits DEF Ahead, TypeOK
<1>2. Current(w) \in Ahead(w) /\ \A e \in Ahead(w) : Current(w) <= e
  BY <1>1, MinIsLeast DEF Current
<1> QED
  BY <1>2 DEF Ahead, TypeOK

\* What others do leaves a pass that stays where it is what it has.
LEMMA OthersKeep ==
  ASSUME TypeOK, TypeOK', Grows, NEW w \in Workers, Stays(w), PassInv(w)
  PROVE  PassInv(w)'
<1>1. Ahead(w)' = Ahead(w)
  BY DEF Ahead, Stays
<1>2. Current(w)' = Current(w)
  BY <1>1 DEF Current
<1>3. ASSUME pc[w] \in {"rules", "loop", "handle", "act"}, NEW e \in batch[w]
      PROVE  e \in seen /\ owed'[e] \subseteq owed[e] /\ kind'[e] = kind[e] /\ e \in Events
  BY <1>3 DEF PassInv, Grows, TypeOK
<1>4. from[w] \in OldEvents .. begun => from[w]' \in OldEvents .. begun'
  BY CursorLimits DEF Grows, Stays, TypeOK
<1>5. CASE pc[w] \in {"handle", "act"}
  <2>1. /\ Ahead(w) # {} /\ Current(w) \in batch[w] /\ Current(w) \in Events
        /\ kind'[Current(w)] = kind[Current(w)]
    BY <1>3, <1>5, CurrentIsNext DEF PassInv
  <2>2. Matching(w, Current(w))' = Matching(w, Current(w))
    BY <1>2, <2>1 DEF Matching, Stays
  <2>3. \A r \in Matching(w, Current(w)) : <<r, Current(w)>> \in Rules \X Events
    BY <2>1 DEF Matching, TypeOK
  <2>4. /\ Ahead(w)' # {}
        /\ \A r \in (Matching(w, Current(w)) \ left[w])' : run'[<<r, Current(w)'>>] # "NONE"
    BY <1>1, <1>2, <1>5, <2>1, <2>2, <2>3 DEF PassInv, Stays, Grows
  <2>5. pc[w] = "act" => doing'[w] \in Rules /\ run'[<<doing'[w], Current(w)'>>] # "NONE"
    BY <1>2, <2>1 DEF PassInv, Stays, Grows
  <2>6. \A e \in batch[w] : \A r \in owed[e] : <<r, e>> \in Rules \X Events
    BY <1>3, <1>5 DEF TypeOK
  <2> QED
    BY <1>3, <1>4, <1>5, <2>4, <2>5, <2>6 DEF PassInv, Stays, Grows
<1>6. CASE pc[w] \notin {"handle", "act"}
  <2>1. pc[w] = "loop" => \A e \in batch[w] : \A r \in owed[e] : <<r, e>> \in Rules \X Events
    BY <1>3 DEF TypeOK
  <2> QED
    BY <1>3, <1>4, <1>6, <2>1 DEF PassInv, Stays, Grows
<1> QED
  BY <1>5, <1>6

------------------------------------------------------------------------------
\* The two halves of TypeOK.
TablesTyped ==
  /\ begun \in 0 .. MaxEvents /\ seen \subseteq 1 .. begun
  /\ kind \in [Events -> Kinds \cup {NoKind}]
  /\ cause \in [Events -> (Rules \X Events) \cup {NoCause}]
  /\ cursor \in {NoCursor} \cup 0 .. begun /\ on \subseteq Rules
  /\ run \in [Rules \X Events -> RunState]
  /\ depth \in [Rules \X Events -> 0 .. MaxDepth + 1]
  /\ crashes \in 0 .. MaxCrashes
  /\ start \in {NoCursor} \cup 0 .. begun
  /\ owed \in [Events -> SUBSET Rules] /\ overtaken \subseteq Events

PassesTyped ==
  /\ pc \in [Workers -> Step]
  /\ from \in [Workers -> 0 .. MaxEvents] /\ last \in [Workers -> 0 .. MaxEvents]
  /\ batch \in [Workers -> SUBSET Events] /\ hidden \in [Workers -> SUBSET Events]
  /\ known \in [Workers -> SUBSET Rules] /\ left \in [Workers -> SUBSET Rules]
  /\ doing \in [Workers -> Rules \cup {NoRule}] /\ acted \in [Workers -> Nat]

\* TypeOK is about the tables and about what the passes hold.
LEMMA TypeParts == TypeOK <=> TablesTyped /\ PassesTyped
  BY DEF TypeOK, TablesTyped, PassesTyped

\* A step of one pass, and a step of none.
LEMMA OnePassMoves ==
  ASSUME IInv, TablesTyped', PassesTyped', Grows, LedgerInv', CursorInv',
         NEW w \in Workers, PassInv(w)', \A v \in Workers \ {w} : Stays(v)
  PROVE  IInv'
<1>1. TypeOK /\ TypeOK'
  BY TypeParts DEF IInv, TypeOK, TablesTyped, PassesTyped
<1>2. \A v \in Workers \ {w} : PassInv(v)'
  BY <1>1, OthersKeep DEF IInv
<1> QED
  BY <1>1, <1>2 DEF IInv

\* Where no pass moves, the tables alone have to be looked at.
LEMMA NoPassMoves ==
  ASSUME IInv, TablesTyped', Grows, LedgerInv', CursorInv', UNCHANGED <<pc, passVars, hidden>>
  PROVE  IInv'
<1>1. PassesTyped'
  BY DEF IInv, TypeOK, PassesTyped, passVars
<1>2. TypeOK /\ TypeOK'
  BY <1>1 DEF IInv, TypeOK, TablesTyped, PassesTyped
<1>3. \A v \in Workers : Stays(v)
  BY DEF Stays, passVars
<1>4. \A v \in Workers : PassInv(v)'
  BY <1>2, <1>3, OthersKeep DEF IInv
<1> QED
  BY <1>2, <1>4 DEF IInv

\* A step that only reads the tables.
LEMMA TablesStay ==
  ASSUME IInv, UNCHANGED <<eventVars, cursor, on, run, depth, start, owed, overtaken>>,
         crashes' \in 0 .. MaxCrashes
  PROVE  TablesTyped' /\ Grows /\ LedgerInv' /\ CursorInv'
  BY DEF IInv, TypeOK, TablesTyped, Grows, LedgerInv, CursorInv, EventDepth, eventVars

\* The empty ledger and idle passes satisfy the inductive invariant.
LEMMA InitInductive == Init => IInv
<1> SUFFICES ASSUME Init
             PROVE  IInv
  OBVIOUS
<1>1. TypeOK
  <2>1. kind \in [Events -> Kinds \cup {NoKind}]
    BY CursorAssumption, CursorLimits DEF Init
  <2>2. 0 \in 0 .. MaxEvents /\ 0 \in 0 .. MaxDepth + 1 /\ 0 \in 0 .. MaxCrashes
        /\ OldEvents \in 0 .. MaxEvents
    BY CursorLimits
  <2> QED
    BY <2>1, <2>2, CursorLimits DEF Init, TypeOK
<1>2. LedgerInv
  BY CursorAssumption, CursorLimits DEF Init, LedgerInv
<1>3. CursorInv
  BY CursorLimits DEF Init, CursorInv
<1>4. \A w \in Workers : PassInv(w)
  BY DEF Init, PassInv
<1> QED
  BY <1>1, <1>2, <1>3, <1>4 DEF IInv

\* The end of a run, with or without an event of its own.
LEMMA EndRunKeeps ==
  ASSUME IInv, NEW r \in Rules, NEW e \in Events, EndRun(r, e),
         UNCHANGED <<cursor, on, depth, start, overtaken, crashes>>
  PROVE  TablesTyped' /\ Grows /\ LedgerInv' /\ CursorInv'
<1>a. TypeOK /\ LedgerInv /\ CursorInv
  BY DEF IInv
<1>b. /\ e \in seen /\ e > OldEvents /\ depth[<<r, e>>] <= MaxDepth
      /\ run[<<r, e>>] = "OPEN" /\ <<r, e>> \in Rules \X Events
  BY <1>a DEF EndRun, LedgerInv
<1>1. CASE UNCHANGED <<eventVars, owed>>
  <2>0. /\ run' = [run EXCEPT ![<<r, e>>] = "ENDED"]
        /\ UNCHANGED <<begun, seen, kind, cause, owed, cursor, on, depth, start, overtaken, crashes>>
    BY <1>1 DEF EndRun, eventVars
  <2>1. TablesTyped'
    BY <1>a, <1>b, <2>0 DEF TypeOK, TablesTyped
  <2>2. Grows
    BY <1>a, <1>b, <2>0 DEF TypeOK, Grows
  <2>3. \A x \in Rules \X Events : (run'[x] # "NONE" <=> run[x] # "NONE")
                                /\ (run'[x] = "OPEN" => run[x] = "OPEN")
                                /\ (run[x] = "ENDED" => run'[x] = "ENDED")
    BY <1>a, <1>b, <2>0 DEF TypeOK
  <2>4. LedgerInv'
    BY <1>a, <2>0, <2>3 DEF TypeOK, LedgerInv, EventDepth
  <2>5. CursorInv'
    BY <1>a, <2>0, <2>3 DEF TypeOK, CursorInv
  <2> QED
    BY <2>1, <2>2, <2>4, <2>5
<1>2. CASE ~UNCHANGED <<eventVars, owed>>
  <2>0. /\ begun < MaxEvents /\ begun' = begun + 1 /\ seen' = seen \cup {begun + 1}
        /\ kind' = [kind EXCEPT ![begun + 1] = Emits[r]]
        /\ cause' = [cause EXCEPT ![begun + 1] = <<r, e>>]
        /\ owed' = [owed EXCEPT ![begun + 1] = {x \in on : Trigger[x] = Emits[r]}]
        /\ run' = [run EXCEPT ![<<r, e>>] = "ENDED"]
        /\ UNCHANGED <<cursor, on, depth, start, overtaken, crashes>>
    BY <1>2 DEF EndRun
  <2>n. begun \in Nat /\ begun + 1 \in Events /\ begun + 1 \notin seen /\ e \in 1 .. begun
    BY <1>a, <1>b, <2>0, CursorLimits DEF TypeOK
  <2>1. TablesTyped'
    BY <1>a, <1>b, <2>0, <2>n, CursorAssumption DEF TypeOK, TablesTyped
  <2>3. \A x \in Rules \X Events : (run'[x] # "NONE" <=> run[x] # "NONE")
                                /\ (run'[x] = "OPEN" => run[x] = "OPEN")
                                /\ (run[x] = "ENDED" => run'[x] = "ENDED")
    BY <1>a, <1>b, <2>0 DEF TypeOK
  <2>2. Grows
    BY <1>a, <2>0, <2>n, <2>3 DEF TypeOK, Grows
  <2>4. LedgerInv'
    <3>1. 1 .. OldEvents \subseteq seen'
      BY <1>a, <2>0 DEF LedgerInv
    <3>2. ASSUME NEW f \in Events
          PROVE  /\ owed'[f] \subseteq {x \in on' : Trigger[x] = kind'[f]}
                 /\ f \notin seen' => owed'[f] = {}
                 /\ cause'[f] # NoCause => /\ f \in 1 .. begun' /\ cause'[f][2] < f
                                           /\ run'[cause'[f]] = "ENDED"
                                           /\ depth'[cause'[f]] <= MaxDepth
      <4>1. CASE f = begun + 1
        BY <1>a, <1>b, <2>0, <2>n, <4>1 DEF TypeOK
      <4>2. CASE f # begun + 1
        BY <1>a, <2>0, <2>n, <2>3, <4>2 DEF TypeOK, LedgerInv
      <4> QED
        BY <4>1, <4>2
    <3>3. ASSUME NEW x \in Rules, NEW f \in Events
          PROVE  /\ run'[<<x, f>>] # "NONE" =>
                      f \in seen' /\ f > OldEvents /\ depth'[<<x, f>>] = EventDepth(f)'
                 /\ run'[<<x, f>>] = "OPEN" => depth'[<<x, f>>] <= MaxDepth
      <4>1. run[<<x, f>>] # "NONE" => f # begun + 1
        BY <1>a, <2>n DEF LedgerInv
      <4>2. f # begun + 1 => EventDepth(f)' = EventDepth(f)
        BY <1>a, <2>0, <2>n DEF TypeOK, EventDepth
      <4> QED
        BY <1>a, <2>0, <2>3, <4>1, <4>2 DEF LedgerInv
    <3> QED
      BY <3>1, <3>2, <3>3 DEF LedgerInv
  <2>5. CursorInv'
    <3>1. ASSUME NEW f \in seen' \ overtaken', NEW x \in owed'[f], start' < f, f <= cursor'
          PROVE  run'[<<x, f>>] # "NONE"
      <4>1. f # begun + 1 /\ f \in seen
        BY <1>a, <2>0, <2>n, <3>1 DEF TypeOK
      <4>2. f \in Events /\ owed'[f] = owed[f]
        BY <1>a, <2>0, <2>n, <4>1, CursorLimits DEF TypeOK
      <4>3. x \in owed[f] /\ x \in Rules
        BY <1>a, <3>1, <4>2 DEF TypeOK
      <4> QED
        BY <1>a, <2>0, <2>3, <3>1, <4>1, <4>2, <4>3 DEF CursorInv
    <3> QED
      BY <1>a, <2>0, <2>n, <3>1 DEF TypeOK, CursorInv
  <2> QED
    BY <2>1, <2>2, <2>4, <2>5
<1> QED
  BY <1>1, <1>2

\* A run that is inserted for an event of the batch.
LEMMA InsertRunKeeps ==
  ASSUME IInv, NEW r \in Rules, NEW e \in Events, NEW s \in {"OPEN", "ENDED"},
         e \in seen, e > OldEvents, s = "OPEN" => EventDepth(e) <= MaxDepth, InsertRun(r, e, s),
         UNCHANGED <<eventVars, cursor, on, start, owed, overtaken, crashes>>
  PROVE  TablesTyped' /\ Grows /\ LedgerInv' /\ CursorInv' /\ run'[<<r, e>>] # "NONE"
<1>a. TypeOK /\ LedgerInv /\ CursorInv
  BY DEF IInv
<1>0. /\ <<r, e>> \in Rules \X Events /\ run[<<r, e>>] = "NONE"
      /\ run' = [run EXCEPT ![<<r, e>>] = s] /\ depth' = [depth EXCEPT ![<<r, e>>] = EventDepth(e)]
      /\ UNCHANGED <<begun, seen, kind, cause, cursor, on, start, owed, overtaken, crashes>>
  BY DEF InsertRun, eventVars
<1>1. EventDepth(e) \in 0 .. MaxDepth + 1
  BY <1>a, CursorLimits DEF TypeOK, LedgerInv, EventDepth
<1>2. TablesTyped'
  BY <1>a, <1>0, <1>1 DEF TypeOK, TablesTyped
<1>3. /\ run'[<<r, e>>] = s /\ depth'[<<r, e>>] = EventDepth(e)
      /\ \A x \in Rules \X Events : x # <<r, e>> => run'[x] = run[x] /\ depth'[x] = depth[x]
  BY <1>a, <1>0 DEF TypeOK
<1>4. Grows
  BY <1>a, <1>0, <1>3 DEF TypeOK, Grows
<1>5. \A f \in Events : cause[f] # NoCause => cause[f] \in Rules \X Events /\ cause[f] # <<r, e>>
  <2> SUFFICES ASSUME NEW f \in Events, cause[f] # NoCause
               PROVE  cause[f] \in Rules \X Events /\ cause[f] # <<r, e>>
    OBVIOUS
  <2>1. cause[f] \in Rules \X Events
    BY <1>a DEF TypeOK
  <2>2. run[cause[f]] = "ENDED"
    BY <1>a DEF LedgerInv
  <2> QED
    BY <1>0, <2>1, <2>2
<1>6. \A f \in Events : EventDepth(f)' = EventDepth(f)
  BY <1>0, <1>3, <1>5 DEF EventDepth
<1>7. LedgerInv'
  <2>1. ASSUME NEW x \in Rules, NEW f \in Events
        PROVE  /\ run'[<<x, f>>] # "NONE" =>
                    f \in seen' /\ f > OldEvents /\ depth'[<<x, f>>] = EventDepth(f)'
               /\ run'[<<x, f>>] = "OPEN" => depth'[<<x, f>>] <= MaxDepth
    <3>1. CASE <<x, f>> = <<r, e>>
      BY <1>0, <1>3, <1>6, <3>1
    <3>2. CASE <<x, f>> # <<r, e>>
      BY <1>a, <1>0, <1>3, <1>6, <3>2 DEF LedgerInv
    <3> QED
      BY <3>1, <3>2
  <2>2. \A f \in Events : cause'[f] # NoCause =>
           run'[cause'[f]] = run[cause[f]] /\ depth'[cause'[f]] = depth[cause[f]]
    BY <1>0, <1>3, <1>5
  <2> QED
    BY <1>a, <1>0, <2>1, <2>2 DEF LedgerInv
<1>8. CursorInv'
  <2>1. ASSUME NEW f \in seen \ overtaken, NEW x \in owed[f], start < f, f <= cursor
        PROVE  run'[<<x, f>>] # "NONE"
    <3>1. <<x, f>> \in Rules \X Events /\ run[<<x, f>>] # "NONE"
      BY <1>a, <2>1, CursorLimits DEF TypeOK, CursorInv
    <3> QED
      BY <1>4, <3>1 DEF Grows
  <2> QED
    BY <1>a, <1>0, <2>1 DEF CursorInv
<1> QED
  BY <1>2, <1>3, <1>4, <1>7, <1>8

\* A pass that goes on with the rules in rest has handled the others.
LEMMA GoOnKeeps ==
  ASSUME IInv, TablesTyped', Grows, NEW w \in Workers, NEW rest \in SUBSET Rules,
         pc[w] \in {"loop", "handle", "act"}, Ahead(w) # {}, GoOn(w, rest),
         \A r \in Matching(w, Current(w)) \ rest : run'[<<r, Current(w)>>] # "NONE",
         UNCHANGED <<from, batch, known, hidden>>
  PROVE  PassInv(w)'
<1>a. TypeOK /\ PassInv(w) /\ LedgerInv
  BY DEF IInv
<1> DEFINE e == Current(w)
<1>1. /\ e \in batch[w] /\ e \in Events /\ e > last[w] /\ e \in seen
      /\ \A f \in batch[w] : f > last[w] => e <= f
  BY <1>a, CurrentIsNext DEF PassInv
<1> HIDE DEF e
<1>2. /\ from[w] \in OldEvents .. begun /\ from'[w] \in OldEvents .. begun'
      /\ batch[w] \subseteq seen' /\ last[w] \in batch[w] \cup {from[w]}
      /\ \A b \in batch[w] :
           /\ from[w] < b
           /\ \A f \in Events : from[w] < f /\ f < b => f \in batch[w] \cup hidden[w]
      /\ \A f \in batch[w] : f \in Events /\ owed'[f] \subseteq owed[f] /\ owed[f] \subseteq known[w]
  BY <1>a, CursorLimits DEF PassInv, Grows, TypeOK, TablesTyped
<1>3. ASSUME NEW f \in batch[w], f <= last[w], NEW r \in owed'[f]
      PROVE  run'[<<r, f>>] # "NONE"
  <2>1. run[<<r, f>>] # "NONE" /\ <<r, f>> \in Rules \X Events
    BY <1>a, <1>2, <1>3 DEF PassInv, TypeOK
  <2> QED
    BY <2>1 DEF Grows
<1>4. CASE rest = {}
  <2>0. pc'[w] = "loop" /\ last'[w] = e
    BY <1>a, <1>4 DEF GoOn, Goto, TypeOK, e
  <2>1. ASSUME NEW f \in batch[w], f <= e, NEW r \in owed'[f]
        PROVE  run'[<<r, f>>] # "NONE"
    <3>1. CASE f <= last[w]
      BY <1>3, <2>1, <3>1
    <3>2. CASE ~(f <= last[w])
      <4>1. f = e
        BY <1>a, <1>1, <1>2, <2>1, <3>2, CursorLimits DEF TypeOK
      <4>2. r \in Matching(w, e)
        BY <1>a, <1>1, <1>2, <2>1, <4>1 DEF Matching, LedgerInv, TypeOK
      <4> QED
        BY <1>4, <4>1, <4>2 DEF e
    <3> QED
      BY <3>1, <3>2
  <2> QED
    BY <1>1, <1>2, <2>0, <2>1 DEF PassInv
<1>5. CASE rest # {}
  <2>0. pc'[w] = "handle" /\ last'[w] = last[w] /\ left'[w] = rest
    BY <1>a, <1>5 DEF GoOn, Goto, TypeOK
  <2>1. Ahead(w)' = Ahead(w)
    BY <2>0 DEF Ahead
  <2>2. Current(w)' = e
    BY <2>1 DEF Current, e
  <2>3. (Matching(w, Current(w)))' = Matching(w, e)
    BY <1>1, <2>2 DEF Matching, Grows
  <2> QED
    BY <1>2, <1>3, <2>0, <2>1, <2>2, <2>3 DEF PassInv, e
<1> QED
  BY <1>4, <1>5

\* The types of a pass that goes on, and the others.
LEMMA GoOnTyped ==
  ASSUME TypeOK, NEW w \in Workers, Ahead(w) # {}, NEW rest \in SUBSET Rules, GoOn(w, rest),
         UNCHANGED <<from, batch, known, hidden>>,
         doing' = doing \/ doing' = [doing EXCEPT ![w] = NoRule],
         acted' = acted \/ acted' = [acted EXCEPT ![w] = @ + 1]
  PROVE  PassesTyped' /\ \A v \in Workers \ {w} : Stays(v)
<1>1. Current(w) \in 0 .. MaxEvents
  BY CurrentIsNext
<1>2. /\ pc' \in [Workers -> Step] /\ left' \in [Workers -> SUBSET Rules]
      /\ last' \in [Workers -> 0 .. MaxEvents]
  BY <1>1 DEF TypeOK, GoOn, Goto
<1>3. doing' \in [Workers -> Rules \cup {NoRule}] /\ acted' \in [Workers -> Nat]
  <2>1. doing' \in [Workers -> Rules \cup {NoRule}]
    BY DEF TypeOK
  <2>2. acted \in [Workers -> Nat]
    BY DEF TypeOK
  <2>3. acted' \in [Workers -> Nat]
    BY <2>2
  <2> QED
    BY <2>1, <2>3
<1>4. PassesTyped'
  BY <1>2, <1>3 DEF TypeOK, PassesTyped
<1>5. \A v \in Workers \ {w} : Stays(v)
  BY DEF TypeOK, Stays, GoOn, Goto
<1> QED
  BY <1>4, <1>5

\* A pass that is over has nothing left to be true of it.
LEMMA ForgetKeeps ==
  ASSUME TypeOK, NEW w \in Workers, Forget(w)
  PROVE  PassesTyped' /\ PassInv(w)' /\ \A v \in Workers \ {w} : Stays(v)
<1>1. 0 \in 0 .. MaxEvents
  BY CursorLimits
<1>2. PassesTyped'
  BY <1>1 DEF TypeOK, PassesTyped, Forget, Goto
<1>3. PassInv(w)'
  BY DEF TypeOK, PassInv, Forget, Goto
<1>4. \A v \in Workers \ {w} : Stays(v)
  BY DEF TypeOK, Stays, Forget, Goto
<1> QED
  BY <1>2, <1>3, <1>4

\* No event, no switching of a rule and no step of a pass breaks it.
LEMMA StepInductive == IInv /\ [Next]_vars => IInv'
<1> SUFFICES ASSUME IInv, [Next]_vars
             PROVE  IInv'
  OBVIOUS
<1>a. TypeOK /\ LedgerInv /\ CursorInv /\ TablesTyped /\ PassesTyped
  BY TypeParts DEF IInv
<1>b. \A v \in Workers : PassInv(v)
  BY DEF IInv
<1>1. ASSUME NEW k \in Kinds, BeginEvent(k)
      PROVE  IInv'
  <2>0. /\ begun < PeopleEvents /\ begun' = begun + 1
        /\ kind' = [kind EXCEPT ![begun + 1] = k]
        /\ UNCHANGED <<seen, cause, cursor, on, run, depth, pc, passVars, crashes, start, owed,
                       hidden, overtaken>>
    BY <1>1 DEF BeginEvent
  <2>n. begun \in Nat /\ begun + 1 \in Events /\ begun + 1 \notin seen
    BY <1>a, <2>0, CursorLimits DEF TypeOK
  <2>1. TablesTyped'
    BY <1>a, <2>0, <2>n DEF TablesTyped
  <2>2. Grows
    BY <1>a, <2>0, <2>n DEF TypeOK, Grows
  <2>3. LedgerInv'
    BY <1>a, <2>0, <2>n DEF TypeOK, LedgerInv, EventDepth
  <2>4. CursorInv'
    BY <1>a, <2>0, <2>n DEF TypeOK, CursorInv
  <2> QED
    BY <2>0, <2>1, <2>2, <2>3, <2>4, NoPassMoves
<1>2. ASSUME NEW e \in Events, CommitEvent(e)
      PROVE  IInv'
  <2>0. /\ e <= begun /\ e \notin seen /\ seen' = seen \cup {e}
        /\ owed' = [owed EXCEPT ![e] = {r \in on : Trigger[r] = kind[e]}]
        /\ UNCHANGED <<begun, kind, cause, cursor, on, run, depth, pc, passVars, crashes, start,
                       hidden, overtaken>>
    BY <1>2 DEF CommitEvent
  <2>1. TablesTyped'
    BY <1>a, <2>0, CursorLimits DEF TablesTyped
  <2>2. Grows
    BY <1>a, <2>0 DEF TypeOK, Grows
  <2>3. LedgerInv'
    BY <1>a, <2>0 DEF TypeOK, LedgerInv, EventDepth
  <2>4. CursorInv'
    <3>1. start < e /\ e <= cursor => e \in overtaken
      BY <1>a, <2>0, CursorLimits DEF TypeOK, CursorInv
    <3>2. \A f \in seen : f # e /\ owed'[f] = owed[f]
      BY <1>a, <2>0 DEF TypeOK
    <3> QED
      BY <1>a, <2>0, <3>1, <3>2 DEF CursorInv
  <2> QED
    BY <2>0, <2>1, <2>2, <2>3, <2>4, NoPassMoves
<1>3. ASSUME NEW r \in Rules, NEW e \in Events, EndRunLater(r, e)
      PROVE  IInv'
  BY <1>3, EndRunKeeps, NoPassMoves DEF EndRunLater
<1>4. ASSUME NEW r \in Rules, SwitchOff(r)
      PROVE  IInv'
  <2>0. /\ on' = on \ {r} /\ owed' = [f \in Events |-> owed[f] \ {r}]
        /\ UNCHANGED <<begun, seen, kind, cause, cursor, run, depth, pc, passVars, crashes, start,
                       hidden, overtaken>>
    BY <1>4 DEF SwitchOff, eventVars
  <2>1. TablesTyped'
    BY <1>a, <2>0 DEF TablesTyped
  <2>2. Grows
    BY <1>a, <2>0, CursorLimits DEF TypeOK, Grows
  <2>3. LedgerInv'
    BY <1>a, <2>0 DEF TypeOK, LedgerInv, EventDepth
  <2>4. CursorInv'
    BY <1>a, <2>0, CursorLimits DEF TypeOK, CursorInv
  <2> QED
    BY <2>0, <2>1, <2>2, <2>3, <2>4, NoPassMoves
<1>5. ASSUME NEW w \in Workers, NEW r \in Rules, SwitchOn(w, r)
      PROVE  IInv'
  <2>0. /\ on' = on \cup {r} /\ pc' = [pc EXCEPT ![w] = "ensure"]
        /\ UNCHANGED <<begun, seen, kind, cause, cursor, run, depth, from, batch, known, last, left,
                       doing, acted, crashes, start, owed, hidden, overtaken>>
    BY <1>5 DEF SwitchOn, Goto, eventVars, passVars
  <2>1. TablesTyped' /\ PassesTyped'
    BY <1>a, <2>0 DEF TablesTyped, PassesTyped
  <2>2. Grows
    BY <2>0, <1>a DEF TypeOK, Grows
  <2>3. LedgerInv' /\ CursorInv'
    BY <1>a, <2>0 DEF TypeOK, LedgerInv, CursorInv, EventDepth
  <2>4. PassInv(w)' /\ \A v \in Workers \ {w} : Stays(v)
    BY <1>a, <2>0 DEF PassesTyped, PassInv, Stays
  <2> QED
    BY <2>1, <2>2, <2>3, <2>4, OnePassMoves
<1>6. ASSUME NEW w \in Workers, BeginPass(w) \/ MissCursor(w)
      PROVE  IInv'
  <2>0. /\ pc' = [pc EXCEPT ![w] = IF pc[w] = "idle" THEN "ensure" ELSE "latest"]
        /\ UNCHANGED <<eventVars, cursor, on, run, depth, from, batch, known, last, left, doing,
                       acted, crashes, start, owed, hidden, overtaken>>
    BY <1>6 DEF BeginPass, MissCursor, Goto, passVars
  <2>1. TablesTyped' /\ Grows /\ LedgerInv' /\ CursorInv'
    BY <1>a, <2>0, TablesStay DEF TypeOK
  <2>2. PassesTyped'
    BY <1>a, <2>0 DEF PassesTyped
  <2>3. PassInv(w)' /\ \A v \in Workers \ {w} : Stays(v)
    BY <1>a, <2>0 DEF PassesTyped, PassInv, Stays
  <2> QED
    BY <2>1, <2>2, <2>3, OnePassMoves
<1>7. ASSUME NEW w \in Workers, FindCursor(w)
      PROVE  IInv'
  <2>0. /\ cursor # NoCursor
        /\ from' = [from EXCEPT ![w] = IF w \in Admins THEN 0 ELSE cursor]
        /\ pc' = [pc EXCEPT ![w] = IF w \in Admins THEN "idle" ELSE "read"]
        /\ UNCHANGED <<eventVars, cursor, on, run, depth, batch, known, last, left, doing, acted,
                       crashes, start, owed, hidden, overtaken>>
    BY <1>7 DEF FindCursor, Goto
  <2>n. cursor \in 0 .. MaxEvents /\ 0 \in 0 .. MaxEvents /\ cursor \in OldEvents .. begun
    BY <1>a, <2>0, CursorLimits DEF TypeOK, CursorInv
  <2>1. TablesTyped' /\ Grows /\ LedgerInv' /\ CursorInv'
    BY <1>a, <2>0, TablesStay DEF TypeOK
  <2>2. PassesTyped'
    BY <1>a, <2>0, <2>n DEF PassesTyped
  <2>3. PassInv(w)' /\ \A v \in Workers \ {w} : Stays(v)
    BY <1>a, <2>0, <2>n DEF PassesTyped, PassInv, Stays, eventVars
  <2> QED
    BY <2>1, <2>2, <2>3, OnePassMoves
<1>8. ASSUME NEW w \in Workers, SelectLatest(w)
      PROVE  IInv'
  <2>0. /\ from' = [from EXCEPT ![w] = Latest] /\ pc' = [pc EXCEPT ![w] = "insert"]
        /\ UNCHANGED <<eventVars, cursor, on, run, depth, batch, known, last, left, doing, acted,
                       crashes, start, owed, hidden, overtaken>>
    BY <1>8 DEF SelectLatest, Goto
  <2>n. Latest \in 0 .. MaxEvents /\ Latest \in OldEvents .. begun
    <3>1. begun \in Nat /\ seen \cup {0} \in SUBSET (0 .. begun) /\ begun <= MaxEvents
      BY <1>a, CursorLimits DEF TypeOK
    <3>2. Latest \in seen \cup {0} /\ \A y \in seen \cup {0} : Latest >= y
      BY <3>1, MaxIsGreatest DEF Latest
    <3>3. OldEvents \in Nat /\ OldEvents \in seen \cup {0}
      BY <1>a, CursorLimits DEF LedgerInv
    <3> QED
      BY <3>1, <3>2, <3>3, CursorLimits
  <2>1. TablesTyped' /\ Grows /\ LedgerInv' /\ CursorInv'
    BY <1>a, <2>0, TablesStay DEF TypeOK
  <2>2. PassesTyped'
    BY <1>a, <2>0, <2>n DEF PassesTyped
  <2>3. PassInv(w)' /\ \A v \in Workers \ {w} : Stays(v)
    BY <1>a, <2>0, <2>n DEF PassesTyped, PassInv, Stays, eventVars
  <2> QED
    BY <2>1, <2>2, <2>3, OnePassMoves
<1>9. ASSUME NEW w \in Workers, InsertCursor(w)
      PROVE  IInv'
  <2>0. /\ pc[w] = "insert" /\ pc' = [pc EXCEPT ![w] = "ensure"]
        /\ \/ cursor = NoCursor /\ cursor' = from[w] /\ start' = from[w]
           \/ UNCHANGED <<cursor, start>>
        /\ UNCHANGED <<begun, seen, kind, cause, on, run, depth, from, batch, known, last, left,
                       doing, acted, crashes, owed, hidden, overtaken>>
    BY <1>9 DEF InsertCursor, Goto, eventVars, passVars
  <2>n. from[w] \in OldEvents .. begun /\ from[w] \in 0 .. begun
    <3>1. from[w] \in OldEvents .. begun
      BY <1>b, <2>0 DEF PassInv
    <3> QED
      BY <1>a, <3>1, CursorLimits DEF TypeOK
  <2>1. TablesTyped' /\ PassesTyped'
    BY <1>a, <2>0, <2>n DEF TablesTyped, PassesTyped
  <2>2. Grows
    BY <1>a, <2>0 DEF TypeOK, Grows
  <2>3. LedgerInv' /\ CursorInv'
    BY <1>a, <2>0, <2>n, CursorLimits DEF TypeOK, LedgerInv, CursorInv, EventDepth
  <2>4. PassInv(w)' /\ \A v \in Workers \ {w} : Stays(v)
    BY <1>a, <2>0 DEF PassesTyped, PassInv, Stays
  <2> QED
    BY <2>1, <2>2, <2>3, <2>4, OnePassMoves
<1>10. ASSUME NEW w \in Workers, ReadEvents(w)
       PROVE  IInv'
  <2>1. PICK b \in Batches(w) :
          /\ batch' = [batch EXCEPT ![w] = b]
          /\ hidden' = [hidden EXCEPT ![w] = (1 .. begun) \ seen]
          /\ last' = [last EXCEPT ![w] = from[w]] /\ acted' = [acted EXCEPT ![w] = 0]
          /\ pc' = [pc EXCEPT ![w] = "rules"] /\ pc[w] = "read"
          /\ UNCHANGED <<eventVars, cursor, on, run, depth, from, known, left, doing, crashes,
                         start, owed, overtaken>>
    BY <1>10 DEF ReadEvents, Goto
  <2>2. /\ b \subseteq seen /\ \A e \in b : from[w] < e
        /\ \A e \in b, f \in seen : from[w] < f /\ f \notin b => e < f
    BY <2>1 DEF Batches, Readable
  <2>3. TablesTyped' /\ Grows /\ LedgerInv' /\ CursorInv'
    BY <1>a, <2>1, TablesStay DEF TypeOK
  <2>4. PassesTyped'
    <3>1. b \in SUBSET Events /\ (1 .. begun) \ seen \in SUBSET Events
      BY <1>a, <2>2, CursorLimits DEF TypeOK
    <3> QED
      BY <1>a, <2>1, <3>1 DEF PassesTyped
  <2>5. \A e \in b, f \in Events : from[w] < f /\ f < e => f \in b \cup ((1 .. begun) \ seen)
    BY <1>a, <2>2, CursorLimits DEF TypeOK
  <2>6. from[w] \in OldEvents .. begun
    BY <1>b, <2>1 DEF PassInv
  <2>7. PassInv(w)' /\ \A v \in Workers \ {w} : Stays(v)
    BY <1>a, <2>1, <2>2, <2>5, <2>6 DEF PassesTyped, PassInv, Stays, eventVars
  <2> QED
    BY <2>3, <2>4, <2>7, OnePassMoves
<1>11. ASSUME NEW w \in Workers, ReadRules(w)
       PROVE  IInv'
  <2>0. /\ pc[w] = "rules" /\ known' = [known EXCEPT ![w] = IF batch[w] = {} THEN {} ELSE on]
        /\ pc' = [pc EXCEPT ![w] = "loop"]
        /\ UNCHANGED <<eventVars, cursor, on, run, depth, from, batch, last, left, doing, acted,
                       crashes, start, owed, hidden, overtaken>>
    BY <1>11 DEF ReadRules, Goto
  <2>1. TablesTyped' /\ Grows /\ LedgerInv' /\ CursorInv'
    BY <1>a, <2>0, TablesStay DEF TypeOK
  <2>2. PassesTyped'
    BY <1>a, <2>0 DEF TypeOK, PassesTyped
  <2>3. \A e \in batch[w] : owed[e] \subseteq on /\ (e <= last[w] => owed[e] = {})
    <3>1. /\ last[w] = from[w] /\ from[w] \in 0 .. MaxEvents
          /\ \A e \in batch[w] : from[w] < e /\ e \in 1 .. MaxEvents
      BY <1>a, <1>b, <2>0 DEF TypeOK, PassInv
    <3>2. \A e \in batch[w] : ~(e <= last[w]) /\ e \in Events
      BY <3>1, CursorLimits
    <3> QED
      BY <1>a, <3>2 DEF LedgerInv
  <2>4. PassInv(w)' /\ \A v \in Workers \ {w} : Stays(v)
    BY <1>a, <1>b, <2>0, <2>3 DEF PassesTyped, PassInv, Stays, eventVars
  <2> QED
    BY <2>1, <2>2, <2>4, OnePassMoves
<1>12. ASSUME NEW w \in Workers, TakeEvent(w)
       PROVE  IInv'
  <2>0. /\ pc[w] = "loop" /\ Ahead(w) # {} /\ GoOn(w, Matching(w, Current(w)))
        /\ UNCHANGED <<eventVars, cursor, on, run, depth, from, batch, known, doing, acted, crashes,
                       start, owed, hidden, overtaken>>
    BY <1>12 DEF TakeEvent
  <2>1. TablesTyped' /\ Grows /\ LedgerInv' /\ CursorInv'
    BY <1>a, <2>0, TablesStay DEF TypeOK
  <2>2. Matching(w, Current(w)) \in SUBSET Rules
    BY <1>a DEF Matching, TypeOK
  <2>3. PassesTyped' /\ \A v \in Workers \ {w} : Stays(v)
    BY <1>a, <2>0, <2>2, GoOnTyped
  <2>4. PassInv(w)'
    BY <2>0, <2>1, <2>2, GoOnKeeps
  <2> QED
    BY <2>1, <2>3, <2>4, OnePassMoves
<1>13. ASSUME NEW w \in Workers, NEW r \in Rules, HandleRule(w, r)
       PROVE  IInv'
  <2> DEFINE e == Current(w)
  <2>0. /\ pc[w] = "handle" /\ r \in left[w]
        /\ UNCHANGED <<eventVars, cursor, on, from, batch, known, acted, crashes, start, owed, hidden,
                       overtaken>>
    BY <1>13 DEF HandleRule
  <2>1. /\ Ahead(w) # {} /\ e \in Events /\ e \in seen /\ e > OldEvents
        /\ left[w] \ {r} \in SUBSET Rules
        /\ \A x \in Matching(w, e) \ left[w] : run[<<x, e>>] # "NONE" /\ <<x, e>> \in Rules \X Events
    <3>1. Ahead(w) # {}
      BY <1>b, <2>0 DEF PassInv
    <3>2. e \in batch[w] /\ e \in Events
      BY <1>a, <3>1, CurrentIsNext
    <3>3. from[w] < e /\ from[w] \in OldEvents .. begun /\ batch[w] \subseteq seen
      BY <1>b, <2>0, <3>2 DEF PassInv
    <3>4. e > OldEvents
      BY <1>a, <3>2, <3>3, CursorLimits DEF TypeOK
    <3>5. \A x \in Matching(w, e) : x \in Rules
      BY <1>a DEF TypeOK, Matching
    <3> QED
      BY <1>a, <1>b, <2>0, <3>1, <3>2, <3>3, <3>4, <3>5 DEF TypeOK, PassInv
  <2> HIDE DEF e
  <2>2. ASSUME TablesTyped', Grows, LedgerInv', CursorInv', run'[<<r, e>>] # "NONE",
               GoOn(w, left[w] \ {r}), UNCHANGED doing
        PROVE  IInv'
    <3>1. \A x \in Matching(w, e) \ (left[w] \ {r}) : run'[<<x, e>>] # "NONE"
      BY <2>1, <2>2 DEF Grows
    <3>2. PassInv(w)'
      BY <2>0, <2>1, <2>2, <3>1, GoOnKeeps DEF e
    <3>3. PassesTyped' /\ \A v \in Workers \ {w} : Stays(v)
      BY <1>a, <2>0, <2>1, <2>2, GoOnTyped
    <3> QED
      BY <2>2, <3>2, <3>3, OnePassMoves
  <2>3. CASE /\ run[<<r, e>>] # "NONE" /\ GoOn(w, left[w] \ {r}) /\ UNCHANGED <<run, depth, doing>>
    <3>1. TablesTyped' /\ Grows /\ LedgerInv' /\ CursorInv'
      BY <1>a, <2>0, <2>3, TablesStay DEF TypeOK
    <3> QED
      BY <2>2, <2>3, <3>1
  <2>4. ASSUME NEW s \in {"OPEN", "ENDED"}, InsertRun(r, e, s),
               s = "OPEN" => EventDepth(e) <= MaxDepth
        PROVE  TablesTyped' /\ Grows /\ LedgerInv' /\ CursorInv' /\ run'[<<r, e>>] # "NONE"
    BY <2>0, <2>1, <2>4, InsertRunKeeps
  <2>5. CASE InsertRun(r, e, "ENDED") /\ GoOn(w, left[w] \ {r}) /\ UNCHANGED doing
    BY <2>2, <2>4, <2>5
  <2>6. CASE /\ EventDepth(e) <= MaxDepth /\ InsertRun(r, e, "OPEN") /\ GoOn(w, left[w] \ {r})
             /\ UNCHANGED doing
    BY <2>2, <2>4, <2>6
  <2>7. CASE /\ EventDepth(e) <= MaxDepth /\ InsertRun(r, e, "OPEN") /\ Goto(w, "act")
             /\ doing' = [doing EXCEPT ![w] = r] /\ UNCHANGED <<left, last>>
    <3>1. TablesTyped' /\ Grows /\ LedgerInv' /\ CursorInv' /\ run'[<<r, e>>] # "NONE"
      BY <2>4, <2>7
    <3>2. PassesTyped' /\ \A v \in Workers \ {w} : Stays(v)
      BY <1>a, <2>0, <2>7 DEF TypeOK, PassesTyped, Stays, Goto
    <3>3. PassInv(w)'
      <4>1. pc'[w] = "act" /\ doing'[w] = r
        BY <1>a, <2>7 DEF TypeOK, Goto
      <4>2. Ahead(w)' = Ahead(w)
        BY <2>0, <2>7 DEF Ahead
      <4>3. Current(w)' = e
        BY <4>2 DEF Current, e
      <4>4. Matching(w, Current(w))' = Matching(w, e)
        BY <2>0, <4>3 DEF Matching, eventVars
      <4>5. \A x \in Matching(w, e) \ left[w] : run'[<<x, e>>] # "NONE"
        BY <2>1, <3>1 DEF Grows
      <4>6. \A f \in batch[w] : f <= last[w] => \A x \in owed[f] : run'[<<x, f>>] # "NONE"
        <5>1. \A f \in batch[w] : \A x \in owed[f] : <<x, f>> \in Rules \X Events
          BY <1>a DEF TypeOK
        <5> QED
          BY <1>b, <2>0, <3>1, <5>1 DEF PassInv, Grows
      <4> QED
        BY <1>b, <2>0, <2>1, <2>7, <3>1, <4>1, <4>2, <4>3, <4>4, <4>5, <4>6 DEF PassInv, eventVars
    <3> QED
      BY <3>1, <3>2, <3>3, OnePassMoves
  <2> QED
    BY <1>13, <2>3, <2>5, <2>6, <2>7 DEF HandleRule, e
<1>14. ASSUME NEW w \in Workers, Execute(w)
       PROVE  IInv'
  <2> DEFINE e == Current(w)
             r == doing[w]
  <2>0. /\ pc[w] = "act" /\ (EndRun(r, e) \/ UNCHANGED <<eventVars, run, owed>>)
        /\ acted' = [acted EXCEPT ![w] = @ + 1] /\ doing' = [doing EXCEPT ![w] = NoRule]
        /\ GoOn(w, left[w] \ {r})
        /\ UNCHANGED <<cursor, on, depth, from, batch, known, crashes, start, hidden, overtaken>>
    BY <1>14 DEF Execute
  <2>1. /\ pc[w] = "act" /\ Ahead(w) # {} /\ r \in Rules /\ run[<<r, e>>] # "NONE"
        /\ e \in Events /\ left[w] \ {r} \in SUBSET Rules
        /\ \A x \in Matching(w, e) \ left[w] : run[<<x, e>>] # "NONE" /\ <<x, e>> \in Rules \X Events
    <3>1. pc[w] = "act"
      BY <1>14 DEF Execute
    <3>2. Ahead(w) # {} /\ r \in Rules /\ run[<<r, e>>] # "NONE"
      BY <1>b, <3>1 DEF PassInv
    <3>3. e \in Events
      BY <1>a, <3>2, CurrentIsNext
    <3>4. \A x \in Matching(w, e) : x \in Rules
      BY <1>a DEF TypeOK, Matching
    <3> QED
      BY <1>a, <1>b, <3>1, <3>2, <3>3, <3>4 DEF TypeOK, PassInv
  <2> HIDE DEF e, r
  <2>2. TablesTyped' /\ Grows /\ LedgerInv' /\ CursorInv'
    <3>1. CASE EndRun(r, e)
      BY <2>0, <2>1, <3>1, EndRunKeeps
    <3>2. CASE UNCHANGED <<eventVars, run, owed>>
      BY <1>a, <2>0, <3>2, TablesStay DEF TypeOK
    <3> QED
      BY <2>0, <3>1, <3>2
  <2>3. \A x \in Matching(w, e) \ (left[w] \ {r}) : run'[<<x, e>>] # "NONE"
    BY <2>1, <2>2 DEF Grows
  <2>4. PassInv(w)'
    BY <2>0, <2>1, <2>2, <2>3, GoOnKeeps DEF e
  <2>5. PassesTyped' /\ \A v \in Workers \ {w} : Stays(v)
    BY <1>a, <2>0, <2>1, GoOnTyped
  <2> QED
    BY <2>2, <2>4, <2>5, OnePassMoves
<1>15. ASSUME NEW w \in Workers, AdvanceEventCursor(w)
       PROVE  IInv'
  <2>0. /\ pc[w] = "loop" /\ Forget(w)
        /\ UNCHANGED <<eventVars, on, run, depth, crashes, start, owed>>
    BY <1>15 DEF AdvanceEventCursor
  <2>1. PassesTyped' /\ PassInv(w)' /\ \A v \in Workers \ {w} : Stays(v)
    BY <1>a, <2>0, ForgetKeeps
  <2>2. CASE UNCHANGED <<cursor, overtaken>>
    <3>1. TablesTyped' /\ Grows /\ LedgerInv' /\ CursorInv'
      BY <1>a, <2>0, <2>2, TablesStay DEF TypeOK
    <3> QED
      BY <2>1, <3>1, OnePassMoves
  <2>3. CASE ~UNCHANGED <<cursor, overtaken>>
    <3> DEFINE behind == {e \in hidden[w] : from[w] < e /\ e <= last[w]}
    <3>0. cursor = from[w] /\ cursor' = last[w] /\ overtaken' = overtaken \cup behind
      BY <1>15, <2>3 DEF AdvanceEventCursor, CursorUnmoved, Reached
    <3>1. /\ from[w] \in OldEvents .. begun /\ last[w] \in batch[w] \cup {from[w]}
          /\ batch[w] \subseteq seen /\ hidden[w] \subseteq Events /\ batch[w] \subseteq Events
          /\ \A b \in batch[w] :
               /\ from[w] < b
               /\ \A e \in Events : from[w] < e /\ e < b => e \in batch[w] \cup hidden[w]
          /\ \A e \in batch[w] : e <= last[w] => \A x \in owed[e] : run[<<x, e>>] # "NONE"
      BY <1>a, <1>b, <2>0 DEF PassInv, TypeOK
    <3>2. last[w] \in 0 .. begun /\ from[w] <= last[w] /\ from[w] \in Nat /\ begun \in 0 .. MaxEvents
      BY <1>a, <3>1, CursorLimits DEF TypeOK
    <3>3. \A e \in Events : from[w] < e /\ e <= last[w] => e \in batch[w] \cup behind
      BY <3>1, <3>2, CursorLimits
    <3>4. TablesTyped'
      BY <1>a, <2>0, <3>0, <3>1, <3>2 DEF TypeOK, TablesTyped, eventVars
    <3>5. Grows /\ LedgerInv'
      BY <1>a, <2>0 DEF TypeOK, Grows, LedgerInv, EventDepth, eventVars
    <3>6. CursorInv'
      <4>1. cursor' >= OldEvents
        BY <3>0, <3>1, <3>2, CursorLimits
      <4>2. ASSUME NEW e \in seen \ overtaken', NEW x \in owed[e], start < e, e <= last[w]
            PROVE  run[<<x, e>>] # "NONE"
        <5>1. e \in Events
          BY <1>a, CursorLimits DEF TypeOK
        <5>2. CASE e <= from[w]
          BY <1>a, <3>0, <4>2, <5>2 DEF CursorInv
        <5>3. CASE ~(e <= from[w])
          BY <3>0, <3>1, <3>2, <3>3, <4>2, <5>1, <5>3
        <5> QED
          BY <5>2, <5>3
      <4>3. ASSUME NEW e \in (1 .. begun) \ seen, start < e, e <= last[w]
            PROVE  e \in overtaken'
        <5>1. e \in Events
          BY <3>2, CursorLimits
        <5>2. CASE e <= from[w]
          BY <1>a, <3>0, <4>3, <5>2 DEF CursorInv
        <5>3. CASE ~(e <= from[w])
          BY <3>0, <3>1, <3>2, <3>3, <4>3, <5>1, <5>3
        <5> QED
          BY <5>2, <5>3
      <4> HIDE DEF behind
      <4> QED
        BY <2>0, <3>0, <4>1, <4>2, <4>3 DEF CursorInv, eventVars
    <3> QED
      BY <2>1, <3>4, <3>5, <3>6, OnePassMoves
  <2> QED
    BY <2>2, <2>3
<1>16. ASSUME NEW w \in Workers, Crash(w)
       PROVE  IInv'
  <2>0. /\ crashes' \in 0 .. MaxCrashes /\ Forget(w)
        /\ UNCHANGED <<eventVars, cursor, on, run, depth, start, owed, overtaken>>
    BY <1>16, <1>a, CursorLimits DEF Crash, TypeOK
  <2>1. TablesTyped' /\ Grows /\ LedgerInv' /\ CursorInv'
    BY <2>0, TablesStay
  <2> QED
    BY <1>a, <2>0, <2>1, ForgetKeeps, OnePassMoves
<1>17. CASE UNCHANGED vars
  <2>1. TablesTyped' /\ Grows /\ LedgerInv' /\ CursorInv'
    BY <1>17, <1>a, TablesStay DEF vars, TypeOK
  <2> QED
    BY <1>17, <2>1, NoPassMoves DEF vars
<1> QED
  BY <1>1, <1>2, <1>3, <1>4, <1>5, <1>6, <1>7, <1>8, <1>9, <1>10, <1>11, <1>12, <1>13, <1>14, <1>15,
     <1>16, <1>17
     DEF Next, PassStep

------------------------------------------------------------------------------
(* The inductive invariant holds in every reachable state.                  *)
THEOREM Invariant == Spec => []IInv
  BY InitInductive, StepInductive, PTL DEF Spec

(* No event is lost: the cursor passes none that is owed a run              *)
(* (engine.ts:25-31).                                                       *)
THEOREM NothingIsLost == Spec => []PassedIsHandled
<1>1. IInv => PassedIsHandled
  BY DEF IInv, CursorInv, PassedIsHandled
<1> QED
  BY <1>1, Invariant, PTL

(* What happened before the engine was first used sets nothing off.         *)
THEOREM HistoryStaysQuiet == Spec => []NoHistory
<1>1. IInv => NoHistory
  <2> SUFFICES ASSUME IInv, NEW e \in 1 .. OldEvents, NEW r \in Rules
               PROVE  run[<<r, e>>] = "NONE"
    BY DEF NoHistory
  <2>1. e \in Events /\ ~(e > OldEvents)
    BY CursorLimits
  <2> QED
    BY <2>1 DEF IInv, LedgerInv
<1> QED
  BY <1>1, Invariant, PTL

\* The cursor is written by the creation and by the compare and swap.
LEMMA CursorStep ==
  ASSUME IInv, [Next]_vars, cursor' # cursor
  PROVE  cursor' > cursor /\ (cursor = NoCursor \/ start' = start)
<1>a. TypeOK /\ \A w \in Workers : PassInv(w)
  BY DEF IInv
<1>1. ASSUME NEW w \in Workers, InsertCursor(w)
      PROVE  cursor' > cursor /\ (cursor = NoCursor \/ start' = start)
  <2>1. from[w] \in 0 .. MaxEvents /\ cursor = NoCursor /\ cursor' = from[w]
    BY <1>a, <1>1 DEF InsertCursor, TypeOK
  <2> QED
    BY <2>1, CursorLimits
<1>2. ASSUME NEW w \in Workers, AdvanceEventCursor(w)
      PROVE  cursor' > cursor /\ (cursor = NoCursor \/ start' = start)
  <2>1. cursor = from[w] /\ cursor' = last[w] /\ start' = start /\ pc[w] = "loop"
    BY <1>2 DEF AdvanceEventCursor, CursorUnmoved, Reached
  <2>2. last[w] > from[w]
    BY <1>a, <2>1 DEF PassInv, TypeOK
  <2> QED
    BY <2>1, <2>2
<1>3. CASE UNCHANGED cursor
  BY <1>3
<1> QED
  BY <1>1, <1>2, <1>3
     DEF Next, PassStep, BeginEvent, CommitEvent, EndRunLater, SwitchOff, SwitchOn, BeginPass, FindCursor,
         MissCursor, SelectLatest, ReadEvents, ReadRules, TakeEvent, HandleRule, Execute, Crash, vars

(* The cursor is created once and only moves on (cursor.ts).                *)
THEOREM CursorNeverGoesBack == Spec => CursorOnlyAdvances
<1>1. IInv /\ [Next]_vars =>
        [cursor' # cursor => cursor' > cursor /\ (cursor = NoCursor \/ start' = start)]_vars
  BY CursorStep
<1> QED
  BY <1>1, Invariant, PTL DEF Spec, CursorOnlyAdvances

------------------------------------------------------------------------------
\* An event is caused by an earlier one.
LEMMA CausesAreEarlier ==
  ASSUME IInv, NEW e \in Events, cause[e] # NoCause
  PROVE  /\ cause[e] = <<cause[e][1], cause[e][2]>> /\ cause[e][1] \in Rules
         /\ cause[e][2] \in Events /\ cause[e][2] < e
<1>1. cause[e] \in Rules \X Events
  BY DEF IInv, TypeOK
<1>2. cause[e][2] < e
  BY DEF IInv, LedgerInv
<1> QED
  BY <1>1, <1>2

\* So the chain of causes has a length: Hops is the function its equation describes.
LEMMA HopsEquation ==
  ASSUME IInv, NEW e \in Events
  PROVE  Hops[e] = IF cause[e] = NoCause THEN 0 ELSE Hops[cause[e][2]] + 1
<1> DEFINE Value(f, x) == IF cause[x] = NoCause THEN 0 ELSE f[cause[x][2]] + 1
           Good(n) == \E f \in [Events -> Nat] : \A x \in Events : x <= n => f[x] = Value(f, x)
           Bad == {n \in 0 .. MaxEvents : ~Good(n)}
<1>1. Good(0)
  <2>1. [x \in Events |-> 0] \in [Events -> Nat] /\ \A x \in Events : ~(x <= 0)
    BY CursorLimits
  <2> QED
    BY <2>1
<1>2. ASSUME NEW n \in 1 .. MaxEvents, Good(n - 1)
      PROVE  Good(n)
  <2>1. PICK f \in [Events -> Nat] : \A x \in Events : x <= n - 1 => f[x] = Value(f, x)
    BY <1>2
  <2> DEFINE g == [f EXCEPT ![n] = Value(f, n)]
  <2>2. n \in Events /\ Value(f, n) \in Nat
    BY <2>1, CausesAreEarlier
  <2>3. g \in [Events -> Nat] /\ g[n] = Value(f, n) /\ \A x \in Events : x # n => g[x] = f[x]
    BY <2>1, <2>2
  <2> HIDE DEF g
  <2>4. ASSUME NEW x \in Events, x <= n
        PROVE  g[x] = Value(g, x)
    <3>1. cause[x] # NoCause => cause[x][2] \in Events /\ cause[x][2] # n
      BY <2>4, CausesAreEarlier, CursorLimits
    <3>2. Value(g, x) = Value(f, x)
      BY <2>3, <3>1
    <3>3. CASE x = n
      BY <2>3, <3>2, <3>3
    <3>4. CASE x # n
      <4>1. x <= n - 1
        BY <2>4, <3>4, CursorLimits
      <4> QED
        BY <2>1, <2>3, <3>2, <3>4, <4>1
    <3> QED
      BY <3>3, <3>4
  <2> QED
    BY <2>3, <2>4
<1>3. Bad = {}
  <2> SUFFICES ASSUME Bad # {}
               PROVE  FALSE
    OBVIOUS
  <2>1. Bad \in SUBSET Nat
    BY CursorLimits
  <2> HIDE DEF Good
  <2>2. PICK n \in Bad : \A k \in Bad : n <= k
    BY <2>1, LeastExists
  <2>3. n # 0 /\ n \in 1 .. MaxEvents /\ n - 1 \in 0 .. MaxEvents
    BY <1>1, <2>2, CursorLimits
  <2>4. Good(n - 1)
    BY <2>2, <2>3
  <2> QED
    BY <1>2, <2>2, <2>3, <2>4
<1>4. PICK f \in [Events -> Nat] : \A x \in Events : f[x] = Value(f, x)
  <2>1. MaxEvents \in 0 .. MaxEvents /\ \A x \in Events : x <= MaxEvents
    BY CursorLimits
  <2>2. Good(MaxEvents)
    <3> HIDE DEF Good
    <3> QED
      BY <1>3, <2>1
  <2> QED
    BY <2>1, <2>2
<1>5. f = [x \in Events |-> IF cause[x] = NoCause THEN 0 ELSE f[cause[x][2]] + 1]
  BY <1>4
<1>6. Hops = [x \in Events |-> IF cause[x] = NoCause THEN 0 ELSE Hops[cause[x][2]] + 1]
  BY <1>5 DEF Hops
<1> QED
  BY <1>6

\* The depth the engine writes is the length of the chain.
LEMMA HopsAreDepth ==
  ASSUME IInv, NEW e \in Events
  PROVE  Hops[e] = EventDepth(e)
<1> DEFINE Bad == {x \in Events : Hops[x] # EventDepth(x)}
<1> SUFFICES ASSUME Bad # {}
             PROVE  FALSE
  OBVIOUS
<1>1. PICK x \in Bad : \A y \in Bad : x <= y
  <2>1. Bad \in SUBSET Nat
    OBVIOUS
  <2> HIDE DEF Bad
  <2> QED
    BY <2>1, LeastExists
<1>2. x \in Events /\ Hops[x] # EventDepth(x)
  OBVIOUS
<1>3. cause[x] # NoCause
  BY <1>2, HopsEquation DEF EventDepth
<1> DEFINE y == cause[x][2]
<1>4. y \in Events /\ y < x /\ cause[x] = <<cause[x][1], y>> /\ cause[x][1] \in Rules
  BY <1>2, <1>3, CausesAreEarlier
<1>5. Hops[y] = EventDepth(y)
  BY <1>1, <1>4
<1>6. depth[cause[x]] = EventDepth(y)
  <2>1. run[cause[x]] = "ENDED"
    BY <1>2, <1>3 DEF IInv, LedgerInv
  <2>2. \A r \in Rules, e1 \in Events : run[<<r, e1>>] # "NONE" => depth[<<r, e1>>] = EventDepth(e1)
    BY DEF IInv, LedgerInv
  <2>3. PICK r \in Rules : cause[x] = <<r, y>>
    BY <1>4
  <2> HIDE DEF y
  <2>4. run[<<r, y>>] # "NONE"
    BY <2>1, <2>3
  <2>5. depth[<<r, y>>] = EventDepth(y)
    BY <2>2, <2>4, <1>4
  <2> QED
    BY <2>3, <2>5
<1> QED
  BY <1>2, <1>3, <1>5, <1>6, HopsEquation DEF EventDepth

(* Rules that set each other off stop (eventDepth, engine.ts:162, 217).     *)
THEOREM ChainsEnd == Spec => []LoopsEnd
<1>1. IInv => LoopsEnd
  <2> SUFFICES ASSUME IInv, NEW e \in Events
               PROVE  Hops[e] <= MaxDepth + 1
    BY DEF LoopsEnd
  <2>1. cause[e] # NoCause => cause[e] \in Rules \X Events /\ depth[cause[e]] <= MaxDepth
    <3>1. cause[e] # NoCause => cause[e] \in Rules \X Events
      BY DEF IInv, TypeOK
    <3>2. cause[e] # NoCause => depth[cause[e]] <= MaxDepth
      BY DEF IInv, LedgerInv
    <3> QED
      BY <3>1, <3>2
  <2>2. cause[e] # NoCause => depth[cause[e]] \in Nat
    BY <2>1, CursorLimits DEF IInv, TypeOK
  <2>3. EventDepth(e) <= MaxDepth + 1
    BY <2>1, <2>2, CursorLimits DEF EventDepth
  <2> QED
    BY <2>3, HopsAreDepth
<1> QED
  BY <1>1, Invariant, PTL

==============================================================================

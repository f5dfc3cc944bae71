------------------------- MODULE RequestStatsProofs -------------------------
(***************************************************************************)
(* Proofs about RequestStats, for any number of workers, slots, requests   *)
(* and seconds.                                                            *)
(***************************************************************************)
EXTENDS RequestStats, FiniteSetTheorems, TLAPS

Places == {"idle", "test", "stamp", "store", "count",
           "conns", "clock", "uptime", "total", "reply"}

(* Beyond the increment of total_requests. *)
Past == {"conns", "clock", "uptime", "total", "reply"}
Ahead == {w \in Worker : pc[w] \in Past}

Locals == [slot : Nat, status : BOOLEAN, time : Nat, conns : Nat, uptime : Int]
Begins == [finished : Nat, answers : Nat, settled : BOOLEAN,
           stayed : SUBSET Slot, seen : SUBSET Slot]
Given  == [total : Nat, conns : Nat, uptime : Int, began : Begins]

StatTypes ==
    /\ now \in Nat \ {0} /\ start \in Nat /\ total \in Nat /\ table \subseteq Slot
    /\ pc \in [Worker -> Places] /\ local \in [Worker -> Locals]
    /\ began \in [Worker -> Begins]
    /\ finished \in Nat /\ answers \in Seq(Given)

(* Each request that has been answered was counted, as are those being answered. *)
Counted == total = finished + Cardinality(Ahead)

(* What a request found when it began is in the past. *)
BeganBefore ==
    /\ \A w \in Worker : began[w].finished <= finished /\ began[w].answers <= Len(answers)
    /\ \A k \in DOMAIN answers : answers[k].began.answers < k

(* The totals given out are not beyond the present one, which each request that
   has been counted has left behind it. *)
TotalsBehind ==
    /\ \A k \in DOMAIN answers : answers[k].total <= total
    /\ \A w \in Ahead :
         /\ began[w].finished < total
         /\ \A k \in 1..began[w].answers : answers[k].total < total

TInv == StatTypes /\ Counted /\ BeganBefore /\ TotalsBehind /\ TotalsGrow

-----------------------------------------------------------------------------
LEMMA InitTInv == Init => TInv
<1> SUFFICES ASSUME Init
             PROVE  TInv
  OBVIOUS
<1> USE SizesAssumption DEF Init
<1>1. StatTypes
  <2>1. NoLocals \in Locals /\ NoBegin \in Begins
    BY DEF NoLocals, NoBegin, Locals, Begins
  <2>2. answers \in Seq(Given)
    OBVIOUS
  <2> QED
    BY <2>1, <2>2 DEF StatTypes, Places
<1>2. Counted
  <2>1. Ahead = {}
    BY DEF Ahead, Past
  <2> QED
    BY <2>1, FS_EmptySet DEF Counted
<1>3. BeganBefore
  BY DEF BeganBefore, NoBegin
<1>4. TotalsBehind /\ TotalsGrow
  BY DEF TotalsBehind, TotalsGrow, Ahead, Past
<1> QED
  BY <1>1, <1>2, <1>3, <1>4 DEF TInv

LEMMA AheadFinite == IsFiniteSet(Ahead) /\ Cardinality(Ahead) \in Nat
BY SizesAssumption, FS_Subset, FS_CardinalityType DEF Ahead

(* Steps that neither count, answer, begin nor end a request. *)
LEMMA QuietKeepsTInv ==
    ASSUME TInv, StatTypes', UNCHANGED <<total, finished, answers>>, Ahead' = Ahead,
           \A w \in Worker : began'[w].finished = began[w].finished
                             /\ began'[w].answers = began[w].answers
    PROVE  TInv'
<1> USE DEF TInv
<1>1. Counted' /\ BeganBefore'
  BY DEF Counted, BeganBefore
<1>2. TotalsBehind'
  BY DEF TotalsBehind, Ahead
<1>3. TotalsGrow'
  BY DEF TotalsGrow
<1> QED
  BY <1>1, <1>2, <1>3

(* A slot that appears or goes changes nothing else in what a request found. *)
LEMMA SlotNoted ==
    ASSUME NEW b \in Begins, NEW s \in Slot
    PROVE  /\ [b EXCEPT !.seen = @ \cup {s}] \in Begins
           /\ [b EXCEPT !.stayed = @ \ {s}] \in Begins
           /\ [b EXCEPT !.seen = @ \cup {s}].finished = b.finished
           /\ [b EXCEPT !.seen = @ \cup {s}].answers = b.answers
           /\ [b EXCEPT !.seen = @ \cup {s}].settled = b.settled
           /\ [b EXCEPT !.seen = @ \cup {s}].stayed = b.stayed
           /\ [b EXCEPT !.seen = @ \cup {s}].seen = b.seen \cup {s}
           /\ [b EXCEPT !.stayed = @ \ {s}].finished = b.finished
           /\ [b EXCEPT !.stayed = @ \ {s}].answers = b.answers
           /\ [b EXCEPT !.stayed = @ \ {s}].settled = b.settled
           /\ [b EXCEPT !.stayed = @ \ {s}].seen = b.seen
           /\ [b EXCEPT !.stayed = @ \ {s}].stayed = b.stayed \ {s}
BY DEF Begins

(* The steps of the world, and those of a worker on its own. *)
LEMMA WorldTypes ==
    ASSUME TInv, Tick \/ \E s \in Slot : Connect(s) \/ Disconnect(s)
    PROVE  /\ StatTypes' /\ UNCHANGED <<total, finished, answers, pc>>
           /\ \A w \in Worker : began'[w].finished = began[w].finished
                                /\ began'[w].answers = began[w].answers
<1>1. CASE Tick
  BY <1>1 DEF Tick, TInv, StatTypes
<1>2. ASSUME NEW s \in Slot, Connect(s) \/ Disconnect(s)
      PROVE  /\ StatTypes' /\ UNCHANGED <<total, finished, answers, pc>>
             /\ \A w \in Worker : began'[w].finished = began[w].finished
                                  /\ began'[w].answers = began[w].answers
  <2>1. /\ UNCHANGED <<now, start, total, pc, local, finished, answers>>
        /\ table' \subseteq Slot
    BY <1>2 DEF Connect, Disconnect, TInv, StatTypes
  <2>2. \A w \in Worker : began[w] \in Begins
    BY DEF TInv, StatTypes
  <2>3. CASE Connect(s)
    <3>1. began' = [w \in Worker |-> IF w \in Busy THEN [began[w] EXCEPT !.seen = @ \cup {s}]
                                                  ELSE began[w]]
      BY <2>3 DEF Connect
    <3>2. /\ began' \in [Worker -> Begins]
          /\ \A w \in Worker : began'[w].finished = began[w].finished
                               /\ began'[w].answers = began[w].answers
      BY <2>2, <3>1, SlotNoted
    <3> QED
      BY <2>1, <3>2 DEF TInv, StatTypes
  <2>4. CASE Disconnect(s)
    <3>1. began' = [w \in Worker |-> [began[w] EXCEPT !.stayed = @ \ {s}]]
      BY <2>4 DEF Disconnect
    <3>2. /\ began' \in [Worker -> Begins]
          /\ \A w \in Worker : began'[w].finished = began[w].finished
                               /\ began'[w].answers = began[w].answers
      BY <2>2, <3>1, SlotNoted
    <3> QED
      BY <2>1, <3>2 DEF TInv, StatTypes
  <2> QED
    BY <1>2, <2>3, <2>4
<1> QED
  BY <1>1, <1>2

LEMMA LocalTypes ==
    ASSUME TInv, NEW w \in Worker,
           \/ TestStart(w) \/ CallTime(w) \/ SetStart(w)
           \/ ReadConns(w) \/ ReadClock(w) \/ ReadStart(w)
    PROVE  /\ StatTypes' /\ UNCHANGED <<total, finished, answers, began>>
           /\ Ahead' = Ahead
<1> USE DEF TInv, StatTypes
<1>1. UNCHANGED <<now, total, table, began, finished, answers>>
  BY DEF TestStart, CallTime, SetStart, ReadConns, ReadClock, ReadStart
<1>2. ConnectionCount \in Nat
  <2>1. IsFiniteSet(Slot)
    BY SizesAssumption, FS_Interval DEF Slot
  <2>2. IsFiniteSet({i \in Slot : i \in table})
    BY <2>1, FS_Subset
  <2> QED
    BY <2>2, FS_CardinalityType DEF ConnectionCount
<1>3. start' \in Nat
  BY DEF TestStart, CallTime, SetStart, ReadConns, ReadClock, ReadStart, Locals
<1>4. local' \in [Worker -> Locals]
  <2>1. CASE CallTime(w) \/ ReadClock(w)
    BY <2>1 DEF CallTime, ReadClock, Locals
  <2>2. CASE ReadConns(w)
    BY <1>2, <2>2 DEF ReadConns, Locals
  <2>3. CASE ReadStart(w)
    <3>1. local[w].time - start \in Int
      BY DEF Locals
    <3> QED
      BY <2>3, <3>1 DEF ReadStart, Locals
  <2>4. CASE TestStart(w) \/ SetStart(w)
    BY <2>4 DEF TestStart, SetStart
  <2> QED
    BY <2>1, <2>2, <2>3, <2>4
<1>5. pc' \in [Worker -> Places] /\ Ahead' = Ahead
  BY DEF TestStart, CallTime, SetStart, ReadConns, ReadClock, ReadStart, Places, Ahead, Past
<1> QED
  BY <1>1, <1>3, <1>4, <1>5

(* What the elements of the sequence and of the functions are. *)
LEMMA AnswerTypes ==
    ASSUME StatTypes, NEW k \in DOMAIN answers
    PROVE  /\ answers[k] \in Given /\ answers[k].total \in Nat /\ answers[k].conns \in Nat
           /\ answers[k].uptime \in Int /\ answers[k].began \in Begins
           /\ answers[k].began.answers \in Nat
<1>1. answers \in Seq(Given)
  BY DEF StatTypes
<1>2. answers[k] \in Given
  BY <1>1
<1>3. answers[k].began \in Begins
  BY <1>2 DEF Given
<1> QED
  BY <1>2, <1>3 DEF Given, Begins

LEMMA BeganTypes ==
    ASSUME TInv, NEW w \in Worker
    PROVE  /\ began[w] \in Begins /\ began[w].finished \in 0..finished
           /\ began[w].answers \in 0..Len(answers) /\ Len(answers) \in Nat
<1>1. began[w] \in Begins /\ Len(answers) \in Nat /\ finished \in Nat
  BY DEF TInv, StatTypes
<1>2. began[w].finished \in Nat /\ began[w].answers \in Nat
  BY <1>1 DEF Begins
<1> QED
  BY <1>1, <1>2 DEF TInv, BeganBefore

-----------------------------------------------------------------------------
(* The steps that begin, count and end a request *)

LEMMA BeginKeepsTInv ==
    ASSUME TInv, NEW w \in Worker, NEW s \in Slot, NEW status \in BOOLEAN,
           Begin(w, s, status)
    PROVE  TInv'
<1> USE DEF TInv
<1> DEFINE b == [finished |-> finished, answers |-> Len(answers), settled |-> Settled,
                 stayed |-> table, seen |-> table]
           l == [NoLocals EXCEPT !.slot = s, !.status = status]
<1>1. /\ pc[w] = "idle" /\ pc' = [pc EXCEPT ![w] = "test"]
      /\ local' = [local EXCEPT ![w] = l] /\ began' = [began EXCEPT ![w] = b]
      /\ UNCHANGED <<now, start, total, table, finished, answers>>
  BY DEF Begin
<1>2. l \in Locals
  <2>1. s \in Nat
    BY SizesAssumption DEF Slot
  <2>2. NoLocals \in Locals
    BY DEF NoLocals, Locals
  <2>3. [NoLocals EXCEPT !.slot = s] \in Locals
    BY <2>1, <2>2 DEF Locals
  <2>4. l = [[NoLocals EXCEPT !.slot = s] EXCEPT !.status = status]
    BY Zenon
  <2>5. \A r \in Locals : [r EXCEPT !.status = status] \in Locals
    BY DEF Locals
  <2> QED
    BY <2>3, <2>4, <2>5
<1>3. b \in Begins
  <2>1. Settled \in BOOLEAN /\ Len(answers) \in Nat
    BY DEF Settled, StatTypes
  <2> QED
    BY <2>1 DEF Begins, StatTypes
<1>4. StatTypes'
  <2> HIDE DEF b, l
  <2> QED
    BY <1>1, <1>2, <1>3 DEF StatTypes, Places
<1>5. Ahead' = Ahead /\ w \notin Ahead
  BY <1>1 DEF Ahead, Past, StatTypes
<1>6. Counted' /\ TotalsGrow'
  BY <1>1, <1>5 DEF Counted, TotalsGrow
<1>7. /\ began'[w].finished = finished /\ began'[w].answers = Len(answers)
      /\ \A v \in Worker \ {w} : began'[v] = began[v]
  BY <1>1 DEF StatTypes
<1>8. BeganBefore'
  BY <1>1, <1>7 DEF BeganBefore, StatTypes
<1>9. TotalsBehind'
  BY <1>1, <1>5, <1>7 DEF TotalsBehind, Ahead
<1> QED
  BY <1>4, <1>6, <1>8, <1>9

LEMMA CountKeepsTInv ==
    ASSUME TInv, NEW w \in Worker, Count(w)
    PROVE  TInv'
<1> USE DEF TInv
<1>1. /\ pc[w] = "count" /\ total' = total + 1
      /\ pc' = [pc EXCEPT ![w] = IF local[w].status THEN "conns" ELSE "reply"]
      /\ UNCHANGED <<now, start, table, local, began, finished, answers>>
  BY DEF Count, Increment
<1>2. StatTypes'
  BY <1>1 DEF StatTypes, Places
<1>3. Ahead' = Ahead \cup {w} /\ w \notin Ahead
  BY <1>1 DEF Ahead, Past, StatTypes
<1>4. Counted'
  <2>1. Cardinality(Ahead') = Cardinality(Ahead) + 1
    BY <1>3, AheadFinite, FS_AddElement
  <2> QED
    BY <1>1, <2>1, AheadFinite DEF Counted, StatTypes
<1>5. BeganBefore' /\ TotalsGrow'
  BY <1>1 DEF BeganBefore, TotalsGrow
<1>6. finished <= total
  BY AheadFinite DEF Counted, StatTypes
<1>7. \A k \in DOMAIN answers : answers[k].total \in Nat
  BY AnswerTypes
<1>8. \A v \in Worker : began[v].finished \in Nat /\ began[v].answers \in 0..Len(answers)
  BY DEF BeganBefore, StatTypes, Begins
<1>9. TotalsBehind'
  <2>1. \A k \in DOMAIN answers : answers[k].total <= total' /\ answers[k].total < total'
    BY <1>1, <1>7 DEF TotalsBehind, StatTypes
  <2>2. \A v \in Worker : began[v].finished < total'
    BY <1>1, <1>6, <1>8 DEF BeganBefore, StatTypes
  <2>3. \A v \in Worker : \A k \in 1..began[v].answers : k \in DOMAIN answers
    BY <1>8 DEF StatTypes
  <2> QED
    BY <1>1, <1>3, <2>1, <2>2, <2>3 DEF TotalsBehind, Ahead
<1> QED
  BY <1>2, <1>4, <1>5, <1>9

(* A request that is over leaves everybody else's where they are. *)
LEMMA FinishEffects ==
    ASSUME TInv, NEW w \in Ahead, Finish(w)
    PROVE  /\ finished' = finished + 1 /\ UNCHANGED <<now, start, total, table>>
           /\ pc' \in [Worker -> Places] /\ local' \in [Worker -> Locals]
           /\ began' \in [Worker -> Begins]
           /\ Ahead' = Ahead \ {w} /\ Counted'
           /\ began'[w].finished = 0 /\ began'[w].answers = 0
           /\ \A v \in Worker \ {w} : began'[v] = began[v]
<1> USE DEF TInv
<1>1. w \in Worker
  BY DEF Ahead
<1>2. NoLocals \in Locals /\ NoBegin \in Begins
  BY DEF NoLocals, NoBegin, Locals, Begins
<1>3. /\ finished' = finished + 1 /\ UNCHANGED <<now, start, total, table>>
      /\ pc' = [pc EXCEPT ![w] = "idle"] /\ local' = [local EXCEPT ![w] = NoLocals]
      /\ began' = [began EXCEPT ![w] = NoBegin]
  BY DEF Finish
<1>4. /\ pc' \in [Worker -> Places] /\ local' \in [Worker -> Locals]
      /\ began' \in [Worker -> Begins]
  BY <1>1, <1>2, <1>3 DEF StatTypes, Places
<1>5. Ahead' = Ahead \ {w}
  BY <1>1, <1>3 DEF Ahead, Past, StatTypes
<1>6. Counted'
  <2>1. Cardinality(Ahead') = Cardinality(Ahead) - 1
    BY <1>5, AheadFinite, FS_RemoveElement
  <2> QED
    BY <1>3, <2>1, AheadFinite DEF Counted, StatTypes
<1>7. began'[w].finished = 0 /\ began'[w].answers = 0
  BY <1>1, <1>3 DEF NoBegin, StatTypes
<1>8. \A v \in Worker \ {w} : began'[v] = began[v]
  BY <1>3 DEF StatTypes
<1> QED
  BY <1>3, <1>4, <1>5, <1>6, <1>7, <1>8

LEMMA ReplyKeepsTInv ==
    ASSUME TInv, NEW w \in Worker, Reply(w)
    PROVE  TInv'
<1> USE DEF TInv
<1>1. w \in Ahead /\ Finish(w) /\ UNCHANGED answers
  BY DEF Reply, Ahead, Past
<1>2. StatTypes'
  BY <1>1, FinishEffects DEF StatTypes
<1>3. Counted' /\ TotalsGrow'
  BY <1>1, FinishEffects DEF TotalsGrow
<1>4. BeganBefore'
  <2>1. \A v \in Worker : began'[v].finished <= finished' /\ began'[v].answers <= Len(answers)
    <3> SUFFICES ASSUME NEW v \in Worker
                 PROVE  began'[v].finished <= finished' /\ began'[v].answers <= Len(answers)
      OBVIOUS
    <3>1. /\ finished' = finished + 1 /\ finished \in Nat
          /\ v = w => began'[v].finished = 0 /\ began'[v].answers = 0
          /\ v # w => began'[v] = began[v]
      BY <1>1, FinishEffects DEF StatTypes
    <3> QED
      BY <3>1, BeganTypes
  <2> QED
    BY <1>1, <2>1 DEF BeganBefore
<1>5. TotalsBehind'
  BY <1>1, FinishEffects DEF TotalsBehind, Ahead
<1> QED
  BY <1>2, <1>3, <1>4, <1>5

LEMMA AnswerKeepsTInv ==
    ASSUME TInv, NEW w \in Worker, AnswerStatus(w)
    PROVE  TInv'
<1> USE DEF TInv
<1> DEFINE a == [total |-> total, conns |-> local[w].conns, uptime |-> local[w].uptime,
                 began |-> began[w]]
           n == Len(answers) + 1
<1>1. w \in Ahead /\ Finish(w) /\ answers' = Append(answers, a)
  BY DEF AnswerStatus, Ahead, Past
<1>2. a \in Given
  BY DEF StatTypes, Given, Locals
<1>3. a.total = total /\ a.began = began[w]
  OBVIOUS
<1> HIDE DEF a
<1>4. /\ answers' \in Seq(Given) /\ Len(answers') = n /\ answers'[n] = a
      /\ DOMAIN answers = 1..Len(answers) /\ DOMAIN answers' = 1..n /\ Len(answers) \in Nat
      /\ \A k \in DOMAIN answers : answers'[k] = answers[k]
  BY <1>1, <1>2 DEF StatTypes
<1>5. StatTypes' /\ Counted'
  BY <1>1, <1>4, FinishEffects DEF StatTypes
<1>6. /\ \A v \in Worker : began[v].finished \in Nat /\ began[v].answers \in 0..Len(answers)
      /\ \A k \in DOMAIN answers : answers[k].began.answers \in Nat
  BY AnswerTypes, BeganTypes
<1>7. BeganBefore'
  <2>1. \A v \in Worker : began'[v].finished <= finished' /\ began'[v].answers <= n
    <3> SUFFICES ASSUME NEW v \in Worker
                 PROVE  began'[v].finished <= finished' /\ began'[v].answers <= n
      OBVIOUS
    <3>1. /\ finished' = finished + 1 /\ finished \in Nat
          /\ v = w => began'[v].finished = 0 /\ began'[v].answers = 0
          /\ v # w => began'[v] = began[v]
      BY <1>1, FinishEffects DEF StatTypes
    <3> QED
      BY <1>4, <3>1, BeganTypes
  <2>2. \A k \in DOMAIN answers' : answers'[k].began.answers < k
    BY <1>3, <1>4, <1>6 DEF BeganBefore
  <2> QED
    BY <1>4, <2>1, <2>2 DEF BeganBefore
<1>8. TotalsBehind'
  <2>1. \A k \in DOMAIN answers' : answers'[k].total <= total'
    BY <1>1, <1>3, <1>4, FinishEffects DEF TotalsBehind, StatTypes
  <2>2. \A v \in Ahead' :
          /\ began'[v].finished < total'
          /\ \A k \in 1..began'[v].answers : answers'[k].total < total'
    <3> SUFFICES ASSUME NEW v \in Ahead'
                 PROVE  /\ began'[v].finished < total'
                        /\ \A k \in 1..began'[v].answers : answers'[k].total < total'
      OBVIOUS
    <3>1. v \in Ahead /\ v \in Worker /\ began'[v] = began[v] /\ total' = total
      BY <1>1, FinishEffects DEF Ahead
    <3>2. \A k \in 1..began[v].answers : k \in DOMAIN answers
      BY <1>4, <1>6, <3>1
    <3> QED
      BY <1>4, <3>1, <3>2 DEF TotalsBehind
  <2> QED
    BY <2>1, <2>2 DEF TotalsBehind
<1>9. TotalsGrow'
  <2> SUFFICES ASSUME NEW j \in DOMAIN answers'
               PROVE  /\ answers'[j].total > answers'[j].began.finished
                      /\ \A k \in 1..answers'[j].began.answers :
                           answers'[k].total < answers'[j].total
    BY DEF TotalsGrow
  <2>1. CASE j = n
    <3>1. \A k \in 1..began[w].answers : k \in DOMAIN answers
      BY <1>4, <1>6
    <3>2. total > began[w].finished
      BY <1>1, <1>6 DEF TotalsBehind, StatTypes
    <3> QED
      BY <1>1, <1>3, <1>4, <2>1, <3>1, <3>2 DEF TotalsBehind
  <2>2. CASE j \in DOMAIN answers
    <3>1. \A k \in 1..answers[j].began.answers : k \in DOMAIN answers
      BY <1>4, <1>6, <2>2 DEF BeganBefore
    <3> QED
      BY <1>4, <2>2, <3>1 DEF TotalsGrow
  <2> QED
    BY <1>4, <2>1, <2>2
<1> QED
  BY <1>5, <1>7, <1>8, <1>9

LEMMA NextKeepsTInv ==
    ASSUME TInv, Next
    PROVE  TInv'
<1>1. CASE Tick \/ \E s \in Slot : Connect(s) \/ Disconnect(s)
  BY <1>1, WorldTypes, QuietKeepsTInv DEF Ahead
<1>2. ASSUME NEW w \in Worker, NEW s \in Slot, NEW status \in BOOLEAN, Begin(w, s, status)
      PROVE  TInv'
  BY <1>2, BeginKeepsTInv
<1>3. ASSUME NEW w \in Worker, HandleRequest(w)
      PROVE  TInv'
  <2>1. CASE \/ TestStart(w) \/ CallTime(w) \/ SetStart(w)
             \/ ReadConns(w) \/ ReadClock(w) \/ ReadStart(w)
    BY <2>1, LocalTypes, QuietKeepsTInv
  <2> QED
    BY <1>3, <2>1, CountKeepsTInv, AnswerKeepsTInv, ReplyKeepsTInv DEF HandleRequest
<1> QED
  BY <1>1, <1>2, <1>3 DEF Next

LEMMA StutterKeepsTInv == TInv /\ UNCHANGED vars => TInv'
<1> SUFFICES ASSUME TInv, UNCHANGED vars
             PROVE  TInv'
  OBVIOUS
<1>1. StatTypes'
  BY DEF TInv, StatTypes, vars
<1> QED
  BY <1>1, QuietKeepsTInv DEF vars, Ahead

LEMMA Totals == Spec => []TInv
<1>1. TInv /\ [Next]_vars => TInv'
  BY NextKeepsTInv, StutterKeepsTInv
<1> QED
  BY InitTInv, <1>1, PTL DEF Spec

(* Who asks /status twice sees the total grow, however many workers count. *)
THEOREM TotalsAlwaysGrow == Spec => []TotalsGrow
BY Totals, PTL DEF TInv

-----------------------------------------------------------------------------
(* The connections *)

Between(c, b) == c \in Cardinality(b.stayed)..Cardinality(b.seen)

(* While a request is handled what stayed since it began is in the table, and
   what is in the table was seen; a count that was made lies between the two. *)
ConnsBetween ==
    \A w \in Busy :
        /\ began[w].stayed \subseteq table /\ table \subseteq began[w].seen
        /\ pc[w] \in {"clock", "uptime", "total"} => Between(local[w].conns, began[w])

CInv == ConnsBetween /\ ConnsPlausible

LEMMA SlotSets ==
    ASSUME NEW S \in SUBSET Slot
    PROVE  /\ IsFiniteSet(S) /\ Cardinality(S) \in Nat
           /\ \A T \in SUBSET S : Cardinality(T) <= Cardinality(S)
<1>1. IsFiniteSet(Slot)
  BY SizesAssumption, FS_Interval DEF Slot
<1>2. IsFiniteSet(S)
  BY <1>1, FS_Subset
<1> QED
  BY <1>2, FS_Subset, FS_CardinalityType

(* What stayed may shrink and what was seen may grow. *)
LEMMA WiderStillBetween ==
    ASSUME NEW b \in Begins, NEW d \in Begins, NEW c \in Nat, Between(c, b),
           d.stayed \subseteq b.stayed, b.seen \subseteq d.seen
    PROVE  Between(c, d)
<1>1. /\ b.stayed \in SUBSET Slot /\ b.seen \in SUBSET Slot
      /\ d.stayed \in SUBSET Slot /\ d.seen \in SUBSET Slot
  BY DEF Begins
<1>2. /\ Cardinality(d.stayed) <= Cardinality(b.stayed)
      /\ Cardinality(b.seen) <= Cardinality(d.seen)
      /\ Cardinality(d.stayed) \in Nat /\ Cardinality(b.stayed) \in Nat
      /\ Cardinality(b.seen) \in Nat /\ Cardinality(d.seen) \in Nat
  BY <1>1, SlotSets
<1> QED
  BY <1>2 DEF Between

LEMMA ConnectKeepsCInv ==
    ASSUME TInv, TInv', CInv, NEW s \in Slot, Connect(s) \/ Disconnect(s)
    PROVE  CInv'
<1>1. UNCHANGED <<pc, local, answers>> /\ Busy' = Busy
  BY DEF Connect, Disconnect, Busy
<1>2. ASSUME NEW w \in Busy'
      PROVE  /\ began'[w].stayed \subseteq began[w].stayed
             /\ began[w].seen \subseteq began'[w].seen
             /\ began'[w].stayed \subseteq table' /\ table' \subseteq began'[w].seen
  <2>1. w \in Worker /\ w \in Busy /\ began[w] \in Begins
    BY <1>1, <1>2, BeganTypes DEF Busy
  <2>2. began[w].stayed \subseteq table /\ table \subseteq began[w].seen
    BY <2>1 DEF CInv, ConnsBetween
  <2>3. CASE Connect(s)
    <3>1. began'[w] = [began[w] EXCEPT !.seen = @ \cup {s}] /\ table' = table \cup {s}
      BY <2>1, <2>3 DEF Connect
    <3> QED
      BY <2>1, <2>2, <3>1, SlotNoted
  <2>4. CASE Disconnect(s)
    <3>1. began'[w] = [began[w] EXCEPT !.stayed = @ \ {s}] /\ table' = table \ {s}
      BY <2>1, <2>4 DEF Disconnect
    <3> QED
      BY <2>1, <2>2, <3>1, SlotNoted
  <2> QED
    BY <2>3, <2>4
<1>3. ConnsBetween'
  <2> SUFFICES ASSUME NEW w \in Busy', pc'[w] \in {"clock", "uptime", "total"}
               PROVE  Between(local'[w].conns, began'[w])
    BY <1>2 DEF ConnsBetween, Between
  <2>1. w \in Busy /\ Between(local[w].conns, began[w]) /\ local'[w] = local[w]
    BY <1>1 DEF CInv, ConnsBetween
  <2>2. began[w] \in Begins /\ began'[w] \in Begins /\ local[w].conns \in Nat
    BY <2>1 DEF Busy, TInv, StatTypes, Locals
  <2> QED
    BY <1>2, <2>1, <2>2, WiderStillBetween
<1>4. ConnsPlausible'
  BY <1>1 DEF CInv, ConnsPlausible
<1> QED
  BY <1>3, <1>4 DEF CInv

LEMMA BeginKeepsCInv ==
    ASSUME TInv, TInv', CInv, NEW w \in Worker, NEW s \in Slot, NEW status \in BOOLEAN,
           Begin(w, s, status)
    PROVE  CInv'
<1>1. /\ pc' = [pc EXCEPT ![w] = "test"] /\ UNCHANGED <<table, answers>>
      /\ \A v \in Worker \ {w} : began'[v] = began[v] /\ local'[v] = local[v]
      /\ began'[w].stayed = table /\ began'[w].seen = table
  BY DEF Begin, TInv, StatTypes
<1>2. pc \in [Worker -> Places]
  BY DEF TInv, StatTypes
<1>3. ConnsBetween'
  BY <1>1, <1>2 DEF CInv, ConnsBetween, Between, Busy
<1>4. ConnsPlausible'
  BY <1>1 DEF CInv, ConnsPlausible
<1> QED
  BY <1>3, <1>4 DEF CInv

(* The count over connections[] lies between what stayed and what was seen. *)
LEMMA CountKeepsCInv ==
    ASSUME TInv, TInv', CInv, NEW w \in Worker, ReadConns(w)
    PROVE  CInv'
<1>1. /\ pc[w] = "conns" /\ pc' = [pc EXCEPT ![w] = "clock"]
      /\ local'[w].conns = ConnectionCount
      /\ \A v \in Worker \ {w} : local'[v] = local[v]
      /\ UNCHANGED <<table, began, answers>>
  BY DEF ReadConns, TInv, StatTypes, Locals
<1>2. pc \in [Worker -> Places] /\ table \in SUBSET Slot /\ began[w] \in Begins
  BY DEF TInv, StatTypes
<1>3. Between(ConnectionCount, began[w])
  <2>1. {i \in Slot : i \in table} = table
    BY <1>2
  <2>2. began[w].stayed \subseteq table /\ table \subseteq began[w].seen
    BY <1>1 DEF CInv, ConnsBetween, Busy
  <2>3. began[w].seen \in SUBSET Slot /\ began[w].stayed \in SUBSET Slot
    BY <1>2 DEF Begins
  <2> QED
    BY <1>2, <2>1, <2>2, <2>3, SlotSets DEF Between, ConnectionCount
<1>4. ConnsBetween'
  <2> SUFFICES ASSUME NEW v \in Busy'
               PROVE  /\ began[v].stayed \subseteq table /\ table \subseteq began[v].seen
                      /\ pc'[v] \in {"clock", "uptime", "total"} =>
                           Between(local'[v].conns, began[v])
    BY <1>1 DEF ConnsBetween, Between
  <2>1. v \in Worker /\ v \in Busy
    BY <1>1, <1>2 DEF Busy
  <2>2. CASE v = w
    BY <1>1, <1>3, <2>1, <2>2 DEF CInv, ConnsBetween
  <2>3. CASE v # w
    <3>1. local'[v] = local[v] /\ pc'[v] = pc[v]
      BY <1>1, <1>2, <2>1, <2>3
    <3> QED
      BY <2>1, <3>1 DEF CInv, ConnsBetween
  <2> QED
    BY <2>2, <2>3
<1>5. ConnsPlausible'
  BY <1>1 DEF CInv, ConnsPlausible
<1> QED
  BY <1>4, <1>5 DEF CInv

(* The other steps of a request that goes on leave the count alone. *)
LEMMA MovesKeepCInv ==
    ASSUME TInv, TInv', CInv, NEW w \in Worker,
           \/ TestStart(w) \/ CallTime(w) \/ SetStart(w) \/ Count(w)
           \/ ReadClock(w) \/ ReadStart(w)
    PROVE  CInv'
<1>1. /\ UNCHANGED <<table, began, answers>>
      /\ \A v \in Worker : local'[v].conns = local[v].conns
  <2>1. UNCHANGED <<table, began, answers>>
    BY DEF TestStart, CallTime, SetStart, Count, ReadClock, ReadStart
  <2>2. local \in [Worker -> Locals]
    BY DEF TInv, StatTypes
  <2>3. CASE TestStart(w) \/ SetStart(w) \/ Count(w)
    BY <2>1, <2>3 DEF TestStart, SetStart, Count
  <2>4. CASE CallTime(w) \/ ReadClock(w)
    BY <2>1, <2>2, <2>4 DEF CallTime, ReadClock, Locals
  <2>5. CASE ReadStart(w)
    BY <2>1, <2>2, <2>5 DEF ReadStart, Locals
  <2> QED
    BY <2>3, <2>4, <2>5
<1>2. \A v \in Worker :
        /\ pc'[v] # "idle" => pc[v] # "idle"
        /\ pc'[v] \in {"clock", "uptime", "total"} => pc[v] \in {"clock", "uptime", "total"}
  <2>1. pc \in [Worker -> Places]
    BY DEF TInv, StatTypes
  <2>2. CASE TestStart(w)
    BY <2>1, <2>2 DEF TestStart
  <2>3. CASE CallTime(w) \/ SetStart(w) \/ ReadClock(w) \/ ReadStart(w)
    BY <2>1, <2>3 DEF CallTime, SetStart, ReadClock, ReadStart
  <2>4. CASE Count(w)
    BY <2>1, <2>4 DEF Count
  <2> QED
    BY <2>2, <2>3, <2>4
<1>3. ConnsBetween'
  BY <1>1, <1>2 DEF CInv, ConnsBetween, Between, Busy
<1>4. ConnsPlausible'
  BY <1>1 DEF CInv, ConnsPlausible
<1> QED
  BY <1>3, <1>4 DEF CInv

LEMMA EndKeepsCInv ==
    ASSUME TInv, TInv', CInv, NEW w \in Worker, AnswerStatus(w) \/ Reply(w)
    PROVE  CInv'
<1>1. /\ Finish(w) /\ pc' = [pc EXCEPT ![w] = "idle"] /\ table' = table
      /\ \A v \in Worker \ {w} : began'[v] = began[v] /\ local'[v] = local[v]
  BY DEF AnswerStatus, Reply, Finish, TInv, StatTypes
<1>2. pc \in [Worker -> Places]
  BY DEF TInv, StatTypes
<1>3. ConnsBetween'
  BY <1>1, <1>2 DEF CInv, ConnsBetween, Between, Busy
<1>4. CASE Reply(w)
  BY <1>3, <1>4 DEF Reply, CInv, ConnsPlausible
<1>5. CASE AnswerStatus(w)
  <2> DEFINE a == [total |-> total, conns |-> local[w].conns, uptime |-> local[w].uptime,
                   began |-> began[w]]
  <2>1. pc[w] = "total" /\ answers' = Append(answers, a)
    BY <1>5 DEF AnswerStatus
  <2>2. a \in Given /\ a.conns = local[w].conns /\ a.began = began[w]
    BY DEF Given, TInv, StatTypes, Locals
  <2>3. Between(a.conns, a.began)
    BY <2>1, <2>2 DEF CInv, ConnsBetween, Busy
  <2> HIDE DEF a
  <2>4. /\ DOMAIN answers' = 1..(Len(answers) + 1) /\ DOMAIN answers = 1..Len(answers)
        /\ Len(answers) \in Nat /\ answers'[Len(answers) + 1] = a
        /\ \A k \in DOMAIN answers : answers'[k] = answers[k]
    BY <2>1, <2>2 DEF TInv, StatTypes
  <2>5. ConnsPlausible'
    BY <2>3, <2>4 DEF CInv, ConnsPlausible, Between
  <2> QED
    BY <1>3, <2>5 DEF CInv
<1> QED
  BY <1>4, <1>5

LEMMA NextKeepsCInv ==
    ASSUME TInv, TInv', CInv, Next
    PROVE  CInv'
<1>1. CASE Tick
  BY <1>1 DEF Tick, CInv, ConnsBetween, Between, Busy, ConnsPlausible
<1>2. ASSUME NEW s \in Slot, Connect(s) \/ Disconnect(s)
      PROVE  CInv'
  BY <1>2, ConnectKeepsCInv
<1>3. ASSUME NEW w \in Worker, NEW s \in Slot, NEW status \in BOOLEAN, Begin(w, s, status)
      PROVE  CInv'
  BY <1>3, BeginKeepsCInv
<1>4. ASSUME NEW w \in Worker, HandleRequest(w)
      PROVE  CInv'
  BY <1>4, CountKeepsCInv, MovesKeepCInv, EndKeepsCInv DEF HandleRequest
<1> QED
  BY <1>1, <1>2, <1>3, <1>4 DEF Next

(* The connections that /status reports are plausible, whoever comes and goes
   while it is being answered. *)
THEOREM ConnectionsPlausible == Spec => []ConnsPlausible
<1>1. Init => CInv
  BY DEF Init, CInv, ConnsBetween, Busy, ConnsPlausible
<1>2. TInv /\ TInv' /\ CInv /\ [Next]_vars => CInv'
  <2>1. CInv /\ UNCHANGED vars => CInv'
    BY DEF vars, CInv, ConnsBetween, Between, Busy, ConnsPlausible
  <2> QED
    BY <2>1, NextKeepsCInv
<1>3. CInv => ConnsPlausible
  BY DEF CInv
<1> QED
  BY <1>1, <1>2, <1>3, Totals, PTL DEF Spec

-----------------------------------------------------------------------------
(* The uptime *)

(* The answers with number 1 to n that are settled give no more than u. *)
NoneAbove(u, n) == \A k \in 1..n : answers[k].began.settled => answers[k].uptime <= u

(* Every time that was taken is in the past. *)
TimesPast ==
    /\ start <= now
    /\ \A w \in Worker : local[w].time <= now /\ (pc[w] = "store" => local[w].time > 0)

(* Once settled always settled: for requests and for answers. *)
SettledBefore ==
    /\ \A w \in Worker : began[w].settled => Settled
    /\ \A k \in DOMAIN answers :
         answers[k].began.settled => Settled /\ answers[k].uptime \in 0..(now - start)

(* What a settled request is going to answer is not below what was answered
   when it began. *)
UptimesAhead ==
    \A w \in Worker : began[w].settled =>
        /\ pc[w] = "uptime" =>
             local[w].time >= start /\ NoneAbove(local[w].time - start, began[w].answers)
        /\ pc[w] = "total" =>
             /\ local[w].uptime \in 0..(now - start)
             /\ NoneAbove(local[w].uptime, began[w].answers)

UInv == TimesPast /\ SettledBefore /\ UptimesAhead /\ UptimeGrows

LEMMA InitUInv == Init => UInv
<1> SUFFICES ASSUME Init
             PROVE  UInv
  OBVIOUS
<1> USE DEF Init
<1>1. TimesPast
  BY DEF TimesPast, NoLocals
<1>2. SettledBefore /\ UptimesAhead
  BY DEF SettledBefore, UptimesAhead, NoBegin
<1>3. UptimeGrows
  BY DEF UptimeGrows
<1> QED
  BY <1>1, <1>2, <1>3 DEF UInv

(* start is set for good when no worker is about to set it. *)
LEMMA SettledStays ==
    ASSUME TInv, TimesPast, Settled, Next
    PROVE  Settled' /\ start' = start
<1> USE DEF Settled
<1>1. pc \in [Worker -> Places]
  BY DEF TInv, StatTypes
<1>2. CASE Tick \/ \E s \in Slot : Connect(s) \/ Disconnect(s)
  BY <1>2 DEF Tick, Connect, Disconnect
<1>3. ASSUME NEW w \in Worker, NEW s \in Slot, NEW status \in BOOLEAN, Begin(w, s, status)
      PROVE  Settled' /\ start' = start
  BY <1>1, <1>3 DEF Begin
<1>4. ASSUME NEW w \in Worker, HandleRequest(w)
      PROVE  Settled' /\ start' = start
  <2>1. CASE TestStart(w)
    BY <1>1, <2>1 DEF TestStart, StartUnset
  <2>2. CASE Count(w) \/ ReadConns(w) \/ ReadClock(w) \/ ReadStart(w)
    BY <1>1, <2>2 DEF Count, ReadConns, ReadClock, ReadStart
  <2>3. CASE AnswerStatus(w) \/ Reply(w)
    BY <1>1, <2>3 DEF AnswerStatus, Reply, Finish
  <2>4. ~(CallTime(w) \/ SetStart(w))
    BY DEF CallTime, SetStart
  <2> QED
    BY <1>4, <2>1, <2>2, <2>3, <2>4 DEF HandleRequest
<1> QED
  BY <1>2, <1>3, <1>4 DEF Next

(* Times stay in the past. *)
LEMMA NextKeepsTimes ==
    ASSUME TInv, TInv', TimesPast, Next
    PROVE  TimesPast' /\ now' >= now
<1> USE DEF TimesPast
<1>1. /\ pc \in [Worker -> Places] /\ local \in [Worker -> Locals] /\ now \in Nat \ {0}
      /\ start \in Nat
  BY DEF TInv, StatTypes
<1>2. CASE Tick \/ \E s \in Slot : Connect(s) \/ Disconnect(s)
  <2>1. now' >= now /\ now' \in Nat /\ UNCHANGED <<start, pc, local>>
    BY <1>1, <1>2 DEF Tick, Connect, Disconnect
  <2>2. \A w \in Worker : local[w].time \in Nat
    BY <1>1 DEF Locals
  <2> QED
    BY <1>1, <2>1, <2>2
<1>3. ASSUME NEW w \in Worker, NEW s \in Slot, NEW status \in BOOLEAN, Begin(w, s, status)
      PROVE  TimesPast' /\ now' >= now
  BY <1>1, <1>3 DEF Begin, NoLocals
<1>4. ASSUME NEW w \in Worker, HandleRequest(w)
      PROVE  TimesPast' /\ now' >= now
  <2>1. CASE TestStart(w) \/ Count(w)
    BY <1>1, <2>1 DEF TestStart, Count
  <2>2. CASE CallTime(w)
    BY <1>1, <2>2 DEF CallTime, Locals
  <2>3. CASE SetStart(w)
    BY <1>1, <2>3 DEF SetStart, Locals
  <2>4. CASE ReadConns(w)
    BY <1>1, <2>4 DEF ReadConns, Locals
  <2>5. CASE ReadClock(w)
    BY <1>1, <2>5 DEF ReadClock, Locals
  <2>6. CASE ReadStart(w)
    BY <1>1, <2>6 DEF ReadStart, Locals
  <2>7. CASE AnswerStatus(w) \/ Reply(w)
    BY <1>1, <2>7 DEF AnswerStatus, Reply, Finish, NoLocals
  <2> QED
    BY <1>4, <2>1, <2>2, <2>3, <2>4, <2>5, <2>6, <2>7 DEF HandleRequest
<1> QED
  BY <1>2, <1>3, <1>4 DEF Next

(* Steps that give no answer and bring no request nearer to its uptime. *)
LEMMA QuietKeepsUInv ==
    ASSUME TInv, TInv', UInv, Next, UNCHANGED answers,
           \A w \in Worker : began'[w].settled => Settled,
           \A w \in Worker : pc'[w] \in {"uptime", "total"} =>
             /\ pc'[w] = pc[w]
             /\ local'[w].time = local[w].time /\ local'[w].uptime = local[w].uptime
             /\ began'[w].settled = began[w].settled /\ began'[w].answers = began[w].answers
    PROVE  UInv'
<1>1. TimesPast' /\ now' >= now
  BY NextKeepsTimes DEF UInv
<1>2. Settled => Settled' /\ start' = start
  BY SettledStays DEF UInv
<1>3. now \in Nat /\ now' \in Nat /\ start \in Nat
  BY DEF TInv, StatTypes
<1>4. \A w \in Worker : began[w].settled => Settled
  BY DEF UInv, SettledBefore
<1>5. SettledBefore'
  BY <1>1, <1>2, <1>3 DEF UInv, SettledBefore
<1>6. \A u, n : NoneAbove(u, n)' <=> NoneAbove(u, n)
  BY DEF NoneAbove
<1>7. UptimesAhead'
  <2> SUFFICES ASSUME NEW w \in Worker, began'[w].settled, pc'[w] \in {"uptime", "total"}
               PROVE  /\ pc'[w] = "uptime" =>
                           /\ local'[w].time >= start'
                           /\ \A k \in 1..began'[w].answers : answers'[k].began.settled =>
                                answers'[k].uptime <= local'[w].time - start'
                      /\ pc'[w] = "total" =>
                           /\ local'[w].uptime \in 0..(now' - start')
                           /\ \A k \in 1..began'[w].answers : answers'[k].began.settled =>
                                answers'[k].uptime <= local'[w].uptime
    BY DEF UptimesAhead, NoneAbove
  <2>1. /\ pc'[w] = pc[w] /\ began[w].settled /\ began'[w].answers = began[w].answers
        /\ local'[w].time = local[w].time /\ local'[w].uptime = local[w].uptime
        /\ start' = start
    BY <1>2, <1>4
  <2> QED
    BY <1>1, <1>3, <2>1 DEF UInv, UptimesAhead, NoneAbove
<1>8. UptimeGrows'
  BY DEF UInv, UptimeGrows
<1> QED
  BY <1>1, <1>5, <1>7, <1>8 DEF UInv

LEMMA ReadClockKeepsUInv ==
    ASSUME TInv, TInv', UInv, NEW w \in Worker, ReadClock(w)
    PROVE  UInv'
<1>1. /\ pc' = [pc EXCEPT ![w] = "uptime"] /\ local'[w].time = now
      /\ \A v \in Worker \ {w} : local'[v] = local[v]
      /\ UNCHANGED <<now, start, began, answers>>
  BY DEF ReadClock, TInv, StatTypes, Locals
<1>2. pc \in [Worker -> Places] /\ now \in Nat /\ start \in Nat
  BY DEF TInv, StatTypes
<1>3. Next
  BY DEF Next, HandleRequest
<1>4. TimesPast'
  BY <1>3, NextKeepsTimes DEF UInv
<1>5. Settled => Settled'
  BY <1>3, SettledStays DEF UInv
<1>6. SettledBefore' /\ UptimeGrows'
  BY <1>1, <1>5 DEF UInv, SettledBefore, UptimeGrows
<1>7. now >= start /\ (\A k \in 1..began[w].answers : answers[k].began.settled =>
                         answers[k].uptime <= now - start)
  <2>1. \A k \in 1..began[w].answers : k \in DOMAIN answers
    BY BeganTypes DEF TInv, StatTypes
  <2> QED
    BY <1>2, <2>1 DEF UInv, SettledBefore, TimesPast
<1>8. UptimesAhead'
  <2> SUFFICES ASSUME NEW v \in Worker, began[v].settled
               PROVE  /\ pc'[v] = "uptime" =>
                           /\ local'[v].time >= start
                           /\ NoneAbove(local'[v].time - start, began[v].answers)
                      /\ pc'[v] = "total" =>
                           /\ local'[v].uptime \in 0..(now - start)
                           /\ NoneAbove(local'[v].uptime, began[v].answers)
    BY <1>1 DEF UptimesAhead, NoneAbove
  <2>1. CASE v = w
    BY <1>1, <1>2, <1>7, <2>1 DEF NoneAbove
  <2>2. CASE v # w
    <3>1. pc'[v] = pc[v] /\ local'[v] = local[v]
      BY <1>1, <1>2, <2>2
    <3> QED
      BY <3>1 DEF UInv, UptimesAhead
  <2> QED
    BY <2>1, <2>2
<1> QED
  BY <1>4, <1>6, <1>8 DEF UInv

LEMMA ReadStartKeepsUInv ==
    ASSUME TInv, TInv', UInv, NEW w \in Worker, ReadStart(w)
    PROVE  UInv'
<1>1. /\ pc[w] = "uptime" /\ pc' = [pc EXCEPT ![w] = "total"]
      /\ local'[w].uptime = local[w].time - start
      /\ \A v \in Worker \ {w} : local'[v] = local[v]
      /\ UNCHANGED <<now, start, began, answers>>
  BY DEF ReadStart, TInv, StatTypes, Locals
<1>2. pc \in [Worker -> Places] /\ now \in Nat /\ start \in Nat /\ local[w].time \in Nat
  BY DEF TInv, StatTypes, Locals
<1>3. Next
  BY DEF Next, HandleRequest
<1>4. TimesPast'
  BY <1>3, NextKeepsTimes DEF UInv
<1>5. Settled => Settled'
  BY <1>3, SettledStays DEF UInv
<1>6. SettledBefore' /\ UptimeGrows'
  BY <1>1, <1>5 DEF UInv, SettledBefore, UptimeGrows
<1>7. UptimesAhead'
  <2> SUFFICES ASSUME NEW v \in Worker, began[v].settled
               PROVE  /\ pc'[v] = "uptime" =>
                           /\ local'[v].time >= start
                           /\ NoneAbove(local'[v].time - start, began[v].answers)
                      /\ pc'[v] = "total" =>
                           /\ local'[v].uptime \in 0..(now - start)
                           /\ NoneAbove(local'[v].uptime, began[v].answers)
    BY <1>1 DEF UptimesAhead, NoneAbove
  <2>1. CASE v = w
    <3>1. local[w].time >= start /\ NoneAbove(local[w].time - start, began[w].answers)
      BY <1>1, <2>1 DEF UInv, UptimesAhead
    <3>2. local[w].time <= now
      BY DEF UInv, TimesPast
    <3>3. local[w].time - start \in 0..(now - start)
      BY <1>2, <3>1, <3>2
    <3>4. pc'[v] = "total"
      BY <1>1, <1>2, <2>1
    <3> QED
      BY <1>1, <2>1, <3>1, <3>3, <3>4
  <2>2. CASE v # w
    <3>1. pc'[v] = pc[v] /\ local'[v] = local[v]
      BY <1>1, <1>2, <2>2
    <3> QED
      BY <3>1 DEF UInv, UptimesAhead
  <2> QED
    BY <2>1, <2>2
<1> QED
  BY <1>4, <1>6, <1>7 DEF UInv

LEMMA AnswerKeepsUInv ==
    ASSUME TInv, TInv', UInv, NEW w \in Worker, AnswerStatus(w)
    PROVE  UInv'
<1> DEFINE a == [total |-> total, conns |-> local[w].conns, uptime |-> local[w].uptime,
                 began |-> began[w]]
           n == Len(answers) + 1
<1>1. /\ pc[w] = "total" /\ answers' = Append(answers, a)
      /\ pc' = [pc EXCEPT ![w] = "idle"]
      /\ \A v \in Worker \ {w} : local'[v] = local[v] /\ began'[v] = began[v]
      /\ UNCHANGED <<now, start>> /\ ~began'[w].settled
  BY DEF AnswerStatus, Finish, NoBegin, TInv, StatTypes
<1>2. a \in Given /\ a.uptime = local[w].uptime /\ a.began = began[w]
  BY DEF Given, TInv, StatTypes, Locals
<1> HIDE DEF a
<1>3. /\ DOMAIN answers' = 1..n /\ DOMAIN answers = 1..Len(answers) /\ Len(answers) \in Nat
      /\ answers'[n] = a /\ \A k \in DOMAIN answers : answers'[k] = answers[k]
  BY <1>1, <1>2 DEF TInv, StatTypes
<1>4. pc \in [Worker -> Places] /\ now \in Nat /\ start \in Nat
  BY DEF TInv, StatTypes
<1>5. Next
  BY DEF Next, HandleRequest
<1>6. TimesPast'
  BY <1>5, NextKeepsTimes DEF UInv
<1>7. Settled => Settled'
  BY <1>5, SettledStays DEF UInv
<1>8. began[w].settled => /\ Settled /\ local[w].uptime \in 0..(now - start)
                          /\ NoneAbove(local[w].uptime, began[w].answers)
  BY <1>1 DEF UInv, SettledBefore, UptimesAhead
<1>9. SettledBefore'
  <2>1. \A v \in Worker : began'[v].settled => Settled'
    BY <1>1, <1>7 DEF UInv, SettledBefore
  <2>2. \A k \in DOMAIN answers' :
          answers'[k].began.settled => Settled' /\ answers'[k].uptime \in 0..(now' - start')
    BY <1>1, <1>2, <1>3, <1>7, <1>8 DEF UInv, SettledBefore
  <2> QED
    BY <2>1, <2>2 DEF SettledBefore
<1>10. \A v \in Worker : \A k \in 1..began[v].answers : answers'[k] = answers[k]
  BY <1>3, BeganTypes
<1>11. UptimesAhead'
  <2> SUFFICES ASSUME NEW v \in Worker, began'[v].settled
               PROVE  /\ pc'[v] = "uptime" =>
                           /\ local'[v].time >= start
                           /\ \A k \in 1..began'[v].answers : answers'[k].began.settled =>
                                answers'[k].uptime <= local'[v].time - start
                      /\ pc'[v] = "total" =>
                           /\ local'[v].uptime \in 0..(now - start)
                           /\ \A k \in 1..began'[v].answers : answers'[k].began.settled =>
                                answers'[k].uptime <= local'[v].uptime
    BY <1>1 DEF UptimesAhead, NoneAbove
  <2>1. v # w /\ pc'[v] = pc[v] /\ local'[v] = local[v] /\ began'[v] = began[v]
    BY <1>1, <1>4
  <2> QED
    BY <1>10, <2>1 DEF UInv, UptimesAhead, NoneAbove
<1>12. UptimeGrows'
  <2> SUFFICES ASSUME NEW j \in DOMAIN answers', answers'[j].began.settled
               PROVE  /\ answers'[j].uptime >= 0
                      /\ \A k \in 1..answers'[j].began.answers :
                           answers'[k].began.settled => answers'[k].uptime <= answers'[j].uptime
    BY DEF UptimeGrows
  <2>1. CASE j = n
    BY <1>2, <1>3, <1>4, <1>8, <1>10, <2>1 DEF NoneAbove
  <2>2. CASE j \in DOMAIN answers
    <3>1. \A k \in 1..answers[j].began.answers : k \in DOMAIN answers
      BY <1>3, <2>2, AnswerTypes DEF TInv, BeganBefore
    <3> QED
      BY <1>3, <2>2, <3>1 DEF UInv, UptimeGrows
  <2> QED
    BY <1>3, <2>1, <2>2
<1> QED
  BY <1>6, <1>9, <1>11, <1>12 DEF UInv

LEMMA WorldKeepsUInv ==
    ASSUME TInv, TInv', UInv, Next,
           Tick \/ \E s \in Slot : Connect(s) \/ Disconnect(s)
    PROVE  UInv'
<1>1. UNCHANGED <<pc, local, answers>>
  BY DEF Tick, Connect, Disconnect
<1>2. ASSUME NEW w \in Worker
      PROVE  began'[w].settled = began[w].settled /\ began'[w].answers = began[w].answers
  <2>1. began[w] \in Begins
    BY BeganTypes
  <2>2. CASE Tick
    BY <2>2 DEF Tick
  <2>3. ASSUME NEW s \in Slot, Connect(s)
        PROVE  began'[w].settled = began[w].settled /\ began'[w].answers = began[w].answers
    <3>1. began'[w] = IF w \in Busy THEN [began[w] EXCEPT !.seen = @ \cup {s}] ELSE began[w]
      BY <2>3 DEF Connect
    <3> QED
      BY <2>1, <3>1, SlotNoted
  <2>4. ASSUME NEW s \in Slot, Disconnect(s)
        PROVE  began'[w].settled = began[w].settled /\ began'[w].answers = began[w].answers
    <3>1. began'[w] = [began[w] EXCEPT !.stayed = @ \ {s}]
      BY <2>4 DEF Disconnect
    <3> QED
      BY <2>1, <3>1, SlotNoted
  <2> QED
    BY <2>2, <2>3, <2>4
<1>3. \A w \in Worker : began'[w].settled => Settled
  BY <1>2 DEF UInv, SettledBefore
<1> QED
  BY <1>1, <1>2, <1>3, QuietKeepsUInv

LEMMA BeginKeepsUInv ==
    ASSUME TInv, TInv', UInv, Next, NEW w \in Worker, NEW s \in Slot, NEW status \in BOOLEAN,
           Begin(w, s, status)
    PROVE  UInv'
<1>1. /\ pc' = [pc EXCEPT ![w] = "test"] /\ UNCHANGED answers
      /\ \A v \in Worker \ {w} : began'[v] = began[v] /\ local'[v] = local[v]
      /\ began'[w].settled = Settled
  BY DEF Begin, TInv, StatTypes
<1>2. pc \in [Worker -> Places]
  BY DEF TInv, StatTypes
<1>3. \A v \in Worker : began'[v].settled => Settled
  BY <1>1 DEF UInv, SettledBefore
<1>4. ASSUME NEW v \in Worker, pc'[v] \in {"uptime", "total"}
      PROVE  v # w /\ pc'[v] = pc[v]
  BY <1>1, <1>2, <1>4
<1> QED
  BY <1>1, <1>3, <1>4, QuietKeepsUInv

(* The steps of a request before it looks at the clock, and its end. *)
LEMMA MovesKeepUInv ==
    ASSUME TInv, TInv', UInv, Next, NEW w \in Worker,
           \/ TestStart(w) \/ CallTime(w) \/ SetStart(w) \/ Count(w) \/ ReadConns(w) \/ Reply(w)
    PROVE  UInv'
<1>1. /\ UNCHANGED answers
      /\ \A v \in Worker \ {w} : began'[v] = began[v] /\ local'[v] = local[v]
      /\ began'[w].settled => began[w].settled
  <2>1. local \in [Worker -> Locals] /\ began \in [Worker -> Begins]
    BY DEF TInv, StatTypes
  <2>2. CASE Reply(w)
    BY <2>1, <2>2 DEF Reply, Finish, NoBegin
  <2>3. CASE TestStart(w) \/ SetStart(w) \/ Count(w)
    BY <2>3 DEF TestStart, SetStart, Count
  <2>4. CASE CallTime(w) \/ ReadConns(w)
    BY <2>1, <2>4 DEF CallTime, ReadConns
  <2> QED
    BY <2>2, <2>3, <2>4
<1>2. /\ pc'[w] \notin {"uptime", "total"}
      /\ \A v \in Worker \ {w} : pc'[v] = pc[v]
  <2>1. pc \in [Worker -> Places]
    BY DEF TInv, StatTypes
  <2>2. CASE Reply(w)
    BY <2>1, <2>2 DEF Reply, Finish
  <2>3. CASE TestStart(w) \/ Count(w)
    BY <2>1, <2>3 DEF TestStart, Count
  <2>4. CASE CallTime(w) \/ SetStart(w) \/ ReadConns(w)
    BY <2>1, <2>4 DEF CallTime, SetStart, ReadConns
  <2> QED
    BY <2>2, <2>3, <2>4
<1>3. \A v \in Worker : began'[v].settled => Settled
  BY <1>1 DEF UInv, SettledBefore
<1> QED
  BY <1>1, <1>2, <1>3, QuietKeepsUInv

LEMMA NextKeepsUInv ==
    ASSUME TInv, TInv', UInv, Next
    PROVE  UInv'
<1>1. CASE Tick \/ \E s \in Slot : Connect(s) \/ Disconnect(s)
  BY <1>1, WorldKeepsUInv
<1>2. ASSUME NEW w \in Worker, NEW s \in Slot, NEW status \in BOOLEAN, Begin(w, s, status)
      PROVE  UInv'
  BY <1>2, BeginKeepsUInv
<1>3. ASSUME NEW w \in Worker, HandleRequest(w)
      PROVE  UInv'
  BY <1>3, MovesKeepUInv, ReadClockKeepsUInv, ReadStartKeepsUInv, AnswerKeepsUInv
  DEF HandleRequest
<1> QED
  BY <1>1, <1>2, <1>3 DEF Next

(* The uptimes that /status gives never go back and are never negative, for
   requests that begin when no worker is about to store a start of its own. *)
THEOREM UptimesGrow == Spec => []UptimeGrows
<1>1. UInv /\ UNCHANGED vars => UInv'
  <2> SUFFICES ASSUME UInv, UNCHANGED vars
               PROVE  UInv'
    OBVIOUS
  <2> USE DEF vars, UInv
  <2>1. Settled' = Settled
    BY DEF Settled
  <2>2. TimesPast' /\ SettledBefore'
    BY <2>1 DEF TimesPast, SettledBefore
  <2>3. UptimesAhead' /\ UptimeGrows'
    BY DEF UptimesAhead, NoneAbove, UptimeGrows
  <2> QED
    BY <2>2, <2>3
<1>2. TInv /\ TInv' /\ UInv /\ [Next]_vars => UInv'
  BY <1>1, NextKeepsUInv
<1>3. UInv => UptimeGrows
  BY DEF UInv
<1> QED
  BY InitUInv, <1>2, <1>3, Totals, PTL DEF Spec
=============================================================================

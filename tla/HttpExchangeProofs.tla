------------------------- MODULE HttpExchangeProofs -------------------------
(***************************************************************************)
(* Proofs about HttpExchange, for requests of any lengths cut in any way,  *)
(* buffers of any sizes and any number of requests and retries.            *)
(***************************************************************************)
EXTENDS HttpExchange, FiniteSetTheorems, TLAPS

(* The requests lie in the stream one after the other. *)
Laid ==
    /\ \A i \in DOMAIN requests :
         /\ requests[i].first <= requests[i].head /\ requests[i].head <= requests[i].last
         /\ requests[i].last <= Total
         /\ requests[i].head \in requests[i].lines
         /\ requests[i].lines \subseteq requests[i].head..requests[i].last
    /\ \A i, j \in DOMAIN requests : i < j => requests[i].last < requests[j].first
    /\ \A i \in DOMAIN requests :
         requests[i].first = IF i = 1 THEN 1 ELSE requests[i - 1].last + 1

(* Where the last response ended. *)
Front == IF answers = <<>> THEN 0 ELSE answers[Len(answers)].to

(* The read buffer begins where the last response ended; while one is being
   written it is the whole buffer, and a page tells the truth about keepAlive. *)
Following ==
    /\ pc \in {"armed", "read", "check"} => base = Front /\ left = 0
    /\ pc = "write" =>
         /\ answers # <<>>
         /\ answers[Len(answers)].from = base + 1 /\ answers[Len(answers)].to = got
         /\ answers[Len(answers)].fate = "page" => answers[Len(answers)].says = keepAlive
    /\ Front <= got

(* The empty lines that have been consumed, one at least for each response. *)
Consumed == {e \in EmptyLines : e <= Front}
Counted  == Len(answers) <= Cardinality(Consumed)

(* A plain client is never more than one request ahead. *)
OneAhead == Plain => Len(requests) <= Delivered + 1

XInv == TypeOK /\ Laid /\ Following /\ EveryAnswerEarned /\ Counted /\ OneAhead /\ AnswersMatch

-----------------------------------------------------------------------------
(* Before the first request everything is in order. *)
LEMMA InitXInv == Init => XInv
<1> SUFFICES ASSUME Init
             PROVE  XInv
  OBVIOUS
<1> USE KindsAssumption, SizesAssumption DEF Init
<1>1. TypeOK
  <2>1. requests \in Seq(Request) /\ answers \in Seq(Answer)
    OBVIOUS
  <2>2. Total = 0
    BY DEF Total
  <2>3. /\ sent \in 0..Total /\ base \in Nat /\ got \in base..sent
        /\ got - base <= BufferSize - 1
    BY <2>2
  <2>4. left \in 0..AnswerSize /\ retry \in 0..MaxRetry /\ room \in 0..SendRoom
    OBVIOUS
  <2> QED
    BY <2>1, <2>3, <2>4 DEF TypeOK
<1>2. Laid /\ Following
  BY DEF Laid, Following, Front
<1>3. EveryAnswerEarned /\ AnswersMatch
  BY DEF EveryAnswerEarned, AnswersMatch
<1>4. Counted
  <2>1. Consumed = {}
    BY DEF Consumed, EmptyLines
  <2> QED
    BY <2>1, FS_EmptySet DEF Counted
<1>5. OneAhead
  BY DEF OneAhead, Delivered
<1> QED
  BY <1>1, <1>2, <1>3, <1>4, <1>5 DEF XInv

LEMMA FrontNat == TypeOK => Front \in Nat
<1> SUFFICES ASSUME TypeOK, answers # <<>>
             PROVE  answers[Len(answers)].to \in Nat
  BY DEF Front
<1>1. answers \in Seq(Answer) /\ Len(answers) \in DOMAIN answers
  BY DEF TypeOK
<1>2. answers[Len(answers)] \in Answer
  BY <1>1
<1> QED
  BY <1>2 DEF Answer

(* Steps that touch neither the client's requests nor the responses and leave
   the read buffer where it begins. *)
LEMMA QuietKeepsXInv ==
    ASSUME XInv, TypeOK', UNCHANGED <<requests, base, keepAlive, answers>>,
           got' >= got, left' > 0 => left > 0,
           \/ pc' = "closed"
           \/ pc \in {"armed", "read", "check"} /\ pc' \in {"armed", "read", "check"}
           \/ pc' = pc /\ got' = got
    PROVE  XInv'
<1> USE DEF XInv
<1>1. Laid'
  BY DEF Laid, Total
<1>2. Front' = Front
  BY DEF Front
<1>7. Following'
  <2>1. Front \in Nat /\ got \in Nat /\ got' \in Nat /\ left \in Nat /\ left' \in Nat
    BY FrontNat DEF TypeOK
  <2> QED
    BY <1>2, <2>1 DEF Following
<1>3. EveryAnswerEarned'
  BY DEF EveryAnswerEarned, EmptyLines
<1>4. Counted'
  BY <1>2 DEF Counted, Consumed, EmptyLines
<1>5. Plain' = Plain /\ AnswersMatch'
  BY DEF AnswersMatch, Plain
<1>6. OneAhead'
  <2>1. Delivered' >= Delivered /\ Delivered \in Int /\ Delivered' \in Int
    BY DEF Delivered, TypeOK
  <2> QED
    BY <2>1, <1>5 DEF OneAhead, TypeOK
<1> QED
  BY <1>1, <1>2, <1>3, <1>4, <1>5, <1>6, <1>7

-----------------------------------------------------------------------------
(* The types *)

LEMMA TotalNat == TypeOK => Total \in Nat
<1> SUFFICES ASSUME TypeOK, requests # <<>>
             PROVE  requests[Len(requests)].last \in Nat
  BY DEF Total
<1>1. requests \in Seq(Request) /\ Len(requests) \in DOMAIN requests
  BY DEF TypeOK
<1>2. requests[Len(requests)] \in Request
  BY <1>1
<1> QED
  BY <1>2 DEF Request

LEMMA RequestNat ==
    ASSUME TypeOK, NEW i \in DOMAIN requests
    PROVE  requests[i].first \in Nat /\ requests[i].head \in Nat /\ requests[i].last \in Nat
<1>1. requests \in Seq(Request)
  BY DEF TypeOK
<1>2. requests[i] \in Request
  BY <1>1
<1> QED
  BY <1>2 DEF Request

(* Requests are finite in number, and so are the empty lines. *)
LEMMA LinesFinite ==
    ASSUME TypeOK, Laid, NEW S \in SUBSET EmptyLines
    PROVE  IsFiniteSet(S) /\ Cardinality(S) \in Nat /\ S \subseteq 1..Total
<1>1. EmptyLines \subseteq 1..Total
  <2> SUFFICES ASSUME NEW i \in DOMAIN requests, NEW e \in requests[i].lines
               PROVE  e \in 1..Total
    BY DEF EmptyLines
  <2>1. /\ e \in requests[i].head..requests[i].last
        /\ requests[i].first <= requests[i].head /\ requests[i].last <= Total
    BY DEF Laid
  <2>2. 1 <= requests[i].first
    <3>1. i = 1 \/ i - 1 \in DOMAIN requests
      BY DEF TypeOK
    <3>2. i # 1 => requests[i - 1].last \in Nat
      BY <3>1, RequestNat
    <3> QED
      BY <3>2 DEF Laid
  <2> QED
    BY <2>1, <2>2, RequestNat, TotalNat
<1>2. IsFiniteSet(1..Total)
  BY TotalNat, FS_Interval
<1> QED
  BY <1>1, <1>2, FS_Subset, FS_CardinalityType

(* What a client asks for next lies behind everything it has asked for. *)
LEMMA AskLays ==
    ASSUME TypeOK, NEW k \in Kinds, Ask(k)
    PROVE  \E r \in Request :
             /\ requests' = Append(requests, r)
             /\ r.first = Total + 1 /\ r.first <= r.head /\ r.head <= r.last
             /\ r.head \in r.lines /\ r.lines \subseteq r.head..r.last
             /\ Total' = r.last
             /\ r.waited = (Delivered = Len(requests))
<1> DEFINE r == [fate |-> k.fate, keep |-> k.keep, first |-> Total + 1,
                 head |-> Total + k.head, last |-> Total + k.head + k.body,
                 lines |-> {Total + k.head + b : b \in {0} \cup k.blanks},
                 waited |-> (Delivered = Len(requests))]
<1>1. /\ k.fate \in Fates /\ k.keep \in BOOLEAN /\ k.head \in Nat \ {0} /\ k.body \in Nat
      /\ k.blanks \subseteq 1..k.body
  BY KindsAssumption
<1>2. Total \in Nat
  BY TotalNat
<1>8. /\ Total + k.head \in r.lines
      /\ r.lines \subseteq (Total + k.head)..(Total + k.head + k.body)
      /\ r.lines \subseteq Nat
  BY <1>1, <1>2
<1>3. r \in Request
  BY <1>1, <1>2, <1>8 DEF Request
<1>4. requests' = Append(requests, r) /\ requests \in Seq(Request)
  BY DEF Ask, TypeOK
<1>5. Total' = r.last
  <2>1. requests' # <<>> /\ Len(requests') = Len(requests) + 1
        /\ requests'[Len(requests) + 1] = r
    BY <1>3, <1>4
  <2> QED
    BY <2>1 DEF Total
<1>6. /\ r.first = Total + 1 /\ r.first <= r.head /\ r.head <= r.last
      /\ r.head \in r.lines /\ r.lines \subseteq r.head..r.last
  BY <1>1, <1>2, <1>8
<1> HIDE DEF r
<1>7. r.waited = (Delivered = Len(requests))
  BY DEF r
<1> QED
  BY <1>3, <1>4, <1>5, <1>6, <1>7

LEMMA ReadKeepsTypes ==
    ASSUME TypeOK, ReadSome
    PROVE  TypeOK' /\ got' > got /\ UNCHANGED <<requests, base, keepAlive, answers, pc, left>>
<1>1. got' \in base..sent /\ got' > got /\ got' - base <= BufferSize - 1
  BY SizesAssumption DEF ReadSome, SpaceLeft, TypeOK, clientVars
<1>2. UNCHANGED <<requests, sent, fin, base, keepAlive, pc, left, retry, room, answers>>
  BY DEF ReadSome, clientVars
<1> QED
  BY <1>1, <1>2 DEF TypeOK, Total

LEMMA WriteKeepsTypes ==
    ASSUME TypeOK, WriteSome \/ WriteBlocked
    PROVE  /\ TypeOK' /\ left' <= left
           /\ UNCHANGED <<requests, base, got, keepAlive, answers, pc>>
<1>1. /\ left' \in 0..AnswerSize /\ retry' \in 0..MaxRetry /\ room' \in 0..SendRoom
      /\ left' <= left
  BY SizesAssumption DEF WriteSome, WriteBlocked, Retried, TypeOK
<1>2. UNCHANGED <<requests, sent, fin, base, got, keepAlive, pc, answers>>
  BY DEF WriteSome, WriteBlocked, clientVars
<1> QED
  BY <1>1, <1>2 DEF TypeOK, Total

(* Every other step, but for the client's requests and the responses. *)
Turns == \/ Send \/ HangUp \/ Receive \/ Wake \/ WouldBlock \/ Incomplete
         \/ Expire \/ ReadFails \/ BufferFull \/ PeerGone
         \/ GiveUp \/ WriteFails \/ CloseAnswered

LEMMA TurnsKeepTypes ==
    ASSUME TypeOK, Turns
    PROVE  /\ TypeOK' /\ UNCHANGED <<requests, base, got, keepAlive, answers, left>>
           /\ \/ pc' = "closed" \/ pc' = pc
              \/ pc \in {"armed", "read", "check"} /\ pc' \in {"armed", "read", "check"}
<1> USE DEF clientVars
<1>1. CASE Send
  <2>1. sent' \in 0..Total /\ got \in base..sent'
    BY <1>1, TotalNat DEF Send, TypeOK
  <2>2. UNCHANGED <<requests, fin, base, got, keepAlive, pc, left, retry, room, answers>>
    BY <1>1 DEF Send
  <2> QED
    BY <2>1, <2>2 DEF TypeOK, Total
<1>2. CASE HangUp
  BY <1>2 DEF HangUp, TypeOK, Total
<1>3. CASE Receive
  <2>1. room' \in 0..SendRoom
    BY <1>3, SizesAssumption DEF Receive, TypeOK
  <2>2. UNCHANGED <<requests, sent, fin, base, got, keepAlive, pc, left, retry, answers>>
    BY <1>3 DEF Receive
  <2> QED
    BY <2>1, <2>2 DEF TypeOK, Total
<1>4. CASE Wake \/ WouldBlock \/ Incomplete
  <2>1. /\ UNCHANGED <<requests, sent, fin, base, got, keepAlive, left, retry, room, answers>>
        /\ pc \in {"armed", "read", "check"} /\ pc' \in {"armed", "read", "check"}
    BY <1>4 DEF Wake, WouldBlock, Incomplete
  <2> QED
    BY <2>1 DEF TypeOK, Total
<1>5. CASE \/ Expire \/ ReadFails \/ BufferFull \/ PeerGone
           \/ GiveUp \/ WriteFails \/ CloseAnswered
  <2>1. Close
    BY <1>5 DEF Expire, ReadFails, BufferFull, PeerGone, GiveUp, WriteFails, CloseAnswered
  <2> QED
    BY <2>1 DEF Close, TypeOK, Total
<1> QED
  BY <1>1, <1>2, <1>3, <1>4, <1>5 DEF Turns

-----------------------------------------------------------------------------
(* The steps that do more *)

(* A request brings its empty lines to those of the stream. *)
LEMMA AppendLines ==
    ASSUME TypeOK, NEW r \in Request, requests' = Append(requests, r)
    PROVE  EmptyLines' = EmptyLines \cup r.lines
<1>1. /\ DOMAIN requests' = DOMAIN requests \cup {Len(requests) + 1}
      /\ requests'[Len(requests) + 1] = r
      /\ \A i \in DOMAIN requests : requests'[i] = requests[i]
  BY DEF TypeOK
<1> QED
  BY <1>1 DEF EmptyLines

LEMMA AskKeepsXInv ==
    ASSUME XInv, NEW k \in Kinds, Ask(k)
    PROVE  XInv'
<1> USE DEF XInv
<1>1. PICK r \in Request :
        /\ requests' = Append(requests, r)
        /\ r.first = Total + 1 /\ r.first <= r.head /\ r.head <= r.last
        /\ r.head \in r.lines /\ r.lines \subseteq r.head..r.last
        /\ Total' = r.last
        /\ r.waited = (Delivered = Len(requests))
  BY AskLays
<1>2. UNCHANGED <<sent, fin, base, got, keepAlive, pc, left, retry, room, answers>>
  BY DEF Ask
<1>3. /\ DOMAIN requests = 1..Len(requests) /\ Len(requests) \in Nat
      /\ DOMAIN requests' = 1..(Len(requests) + 1)
      /\ requests' \in Seq(Request)
      /\ Len(requests') = Len(requests) + 1
      /\ requests'[Len(requests) + 1] = r
      /\ \A i \in DOMAIN requests : requests'[i] = requests[i] /\ requests[i] \in Request
  BY <1>1 DEF TypeOK
<1>4. r.first \in Nat /\ r.head \in Nat /\ r.last \in Nat /\ Total \in Nat
  BY TotalNat DEF Request
<1>5. \A i \in DOMAIN requests :
        requests[i].first \in Nat /\ requests[i].head \in Nat /\ requests[i].last \in Nat
  BY <1>3 DEF Request
<1>6. TypeOK'
  BY <1>1, <1>2, <1>3, <1>4 DEF TypeOK
<1>7. Laid'
  <2>1. \A i \in DOMAIN requests' :
          /\ requests'[i].first <= requests'[i].head /\ requests'[i].head <= requests'[i].last
          /\ requests'[i].last <= Total'
          /\ requests'[i].head \in requests'[i].lines
          /\ requests'[i].lines \subseteq requests'[i].head..requests'[i].last
    BY <1>1, <1>3, <1>4, <1>5 DEF Laid
  <2>2. \A i, j \in DOMAIN requests' : i < j => requests'[i].last < requests'[j].first
    BY <1>1, <1>3, <1>4, <1>5 DEF Laid
  <2>3. \A i \in DOMAIN requests' :
          requests'[i].first = IF i = 1 THEN 1 ELSE requests'[i - 1].last + 1
    <3>1. Total = IF Len(requests) = 0 THEN 0 ELSE requests[Len(requests)].last
      BY <1>3 DEF Total, TypeOK
    <3> QED
      BY <1>1, <1>3, <1>4, <1>5, <3>1 DEF Laid
  <2> QED
    BY <2>1, <2>2, <2>3 DEF Laid
<1>8. Front' = Front /\ Following'
  BY <1>2 DEF Front, Following
<1>14. EmptyLines' = EmptyLines \cup r.lines
  BY <1>1, AppendLines
<1>9. EveryAnswerEarned'
  BY <1>2, <1>14 DEF EveryAnswerEarned
<1>10. Counted'
  <2>1. \A e \in r.lines : ~(e <= Front)
    BY <1>1, <1>4, FrontNat DEF Following, TypeOK
  <2>2. Consumed' = Consumed
    BY <1>8, <1>14, <2>1 DEF Consumed
  <2> QED
    BY <1>2, <2>2 DEF Counted
<1>11. Plain' => Plain /\ r.waited
  BY <1>3 DEF Plain
<1>12. OneAhead'
  <2>1. Plain' => Delivered = Len(requests)
    BY <1>1, <1>11, Zenon
  <2>2. Delivered' = Delivered
    BY <1>2 DEF Delivered
  <2> QED
    BY <1>3, <2>1, <2>2 DEF OneAhead
<1>13. AnswersMatch'
  BY <1>2, <1>3, <1>11 DEF AnswersMatch
<1> QED
  BY <1>6, <1>7, <1>8, <1>9, <1>10, <1>12, <1>13

(* A plain client's buffer that is complete holds exactly its next request. *)
LEMMA NextRequest ==
    ASSUME XInv, Plain, pc \in {"armed", "read", "check"}, got > base
    PROVE  LET n == Len(answers) + 1 IN
             /\ n = Len(requests) /\ requests[n].first = base + 1
             /\ requests[n].head = requests[n].last /\ got <= requests[n].last
<1> USE DEF XInv
<1>1. base = Front /\ Delivered = Len(answers) /\ Len(answers) \in Nat /\ Len(requests) \in Nat
  BY DEF Following, Delivered, TypeOK
<1>2. /\ DOMAIN requests = 1..Len(requests) /\ DOMAIN answers = 1..Len(answers)
      /\ base \in Nat /\ got \in Nat /\ sent \in Nat /\ Total \in Nat
      /\ got <= sent /\ sent <= Total
  BY TotalNat DEF TypeOK
<1>3. Len(answers) <= Len(requests)
  <2>1. answers # <<>> => Len(answers) \in DOMAIN answers
    BY <1>2 DEF TypeOK
  <2> QED
    BY <1>1, <1>2, <2>1 DEF AnswersMatch, TypeOK
<1>4. Front = IF Len(answers) = 0 THEN 0 ELSE requests[Len(answers)].last
  BY <1>1, <1>2 DEF Front, AnswersMatch, TypeOK
<1>5. Total = IF Len(requests) = 0 THEN 0 ELSE requests[Len(requests)].last
  BY <1>1, <1>2 DEF Total, TypeOK
<1>6. Len(requests) = Len(answers) + 1
  <2>1. Len(requests) <= Len(answers) + 1
    BY <1>1 DEF OneAhead
  <2>2. CASE Len(requests) = Len(answers)
    <3>1. Total = Front
      BY <1>4, <1>5, <2>2
    <3>2. base = Total
      BY <1>1, <3>1
    <3>3. ~(got > base)
      BY <1>2, <3>2
    <3> QED
      BY <3>3
  <2> QED
    BY <1>1, <1>3, <2>1, <2>2
<1>7. requests[Len(requests)].first = base + 1
  BY <1>1, <1>2, <1>4, <1>6 DEF Laid
<1> QED
  BY <1>1, <1>2, <1>5, <1>6, <1>7 DEF Plain

LEMMA RespondKeepsXInv ==
    ASSUME XInv, pc = "check", Complete,
           NEW fate \in Fates, NEW keep \in BOOLEAN, Respond(fate, keep)
    PROVE  XInv'
<1> USE DEF XInv
<1> DEFINE a == [from |-> base + 1, to |-> got, fate |-> fate,
                 says |-> (fate = "page" /\ keep)]
           n == Len(answers) + 1
<1>1. /\ pc' = "write" /\ keepAlive' = keep /\ left' = AnswerSize /\ retry' = 0
      /\ answers' = Append(answers, a)
      /\ UNCHANGED <<requests, sent, fin, base, got, room>>
  BY DEF Respond, clientVars
<1>2. base \in Nat /\ got \in Nat /\ base = Front /\ left = 0 /\ Len(answers) \in Nat
  BY DEF Following, TypeOK
<1>3. a \in Answer
  BY <1>2 DEF Answer
<1>4. /\ answers' \in Seq(Answer) /\ Len(answers') = n /\ answers'[n] = a
      /\ DOMAIN answers = 1..Len(answers) /\ DOMAIN answers' = 1..n
      /\ \A j \in DOMAIN answers : answers'[j] = answers[j]
  BY <1>1, <1>3 DEF TypeOK
<1>5. TypeOK'
  <2>1. left' \in 0..AnswerSize /\ retry' \in 0..MaxRetry
    BY <1>1, SizesAssumption
  <2> QED
    BY <1>1, <1>4, <2>1 DEF TypeOK, Total
<1>6. Front' = got
  BY <1>2, <1>4 DEF Front
<1>7. Laid'
  BY <1>1 DEF Laid, Total
<1>8. Following'
  BY <1>1, <1>2, <1>4, <1>6 DEF Following
<1>9. PICK e \in EmptyLines : e \in (base + 1)..got
  BY DEF Complete
<1>16. EmptyLines' = EmptyLines /\ EmptyLines \subseteq Nat
  <2>1. EmptyLines' = EmptyLines
    BY <1>1 DEF EmptyLines
  <2>2. EmptyLines \subseteq 1..Total
    BY LinesFinite
  <2> QED
    BY <2>1, <2>2, TotalNat
<1>10. EveryAnswerEarned'
  <2>1. \A j \in DOMAIN answers' : EmptyLines \cap answers'[j].from..answers'[j].to # {}
    <3> SUFFICES ASSUME NEW j \in DOMAIN answers'
                 PROVE  EmptyLines \cap answers'[j].from..answers'[j].to # {}
      OBVIOUS
    <3>1. CASE j = n
      BY <1>4, <1>9, <3>1
    <3>2. CASE j \in DOMAIN answers
      BY <1>4, <3>2 DEF EveryAnswerEarned
    <3> QED
      BY <1>2, <1>4, <3>1, <3>2
  <2>2. \A j \in DOMAIN answers' : j > 1 => answers'[j].from = answers'[j - 1].to + 1
    <3> SUFFICES ASSUME NEW j \in DOMAIN answers', j > 1
                 PROVE  answers'[j].from = answers'[j - 1].to + 1
      OBVIOUS
    <3>1. j - 1 \in DOMAIN answers
      BY <1>2, <1>4
    <3>2. CASE j = n
      BY <1>2, <1>4, <3>1, <3>2 DEF Front
    <3>3. CASE j \in DOMAIN answers
      BY <1>4, <3>1, <3>3 DEF EveryAnswerEarned
    <3> QED
      BY <1>2, <1>4, <3>2, <3>3
  <2> QED
    BY <1>1, <1>16, <2>1, <2>2 DEF EveryAnswerEarned
<1>12. Counted'
  <2>0. Front \in Nat /\ Front <= got /\ e \in Nat
    BY <1>16, FrontNat DEF Following
  <2>1. Consumed \cup {e} \subseteq Consumed' /\ e \notin Consumed
    <3>1. e \notin Consumed
      BY <1>2, <1>9, <2>0 DEF Consumed
    <3>2. e \in Consumed'
      BY <1>2, <1>6, <1>9, <1>16, <2>0 DEF Consumed
    <3>3. \A d \in Consumed : d \in Consumed'
      BY <1>2, <1>6, <1>16, <2>0 DEF Consumed
    <3> QED
      BY <3>1, <3>2, <3>3
  <2>2. IsFiniteSet(Consumed) /\ Cardinality(Consumed) \in Nat
    BY LinesFinite DEF Consumed
  <2>3. IsFiniteSet(Consumed') /\ Cardinality(Consumed') \in Nat
    <3>1. Consumed' \in SUBSET EmptyLines
      BY <1>16 DEF Consumed
    <3> QED
      BY <3>1, LinesFinite
  <2>4. Cardinality(Consumed \cup {e}) = Cardinality(Consumed) + 1
    BY <2>1, <2>2, FS_AddElement
  <2>5. Cardinality(Consumed \cup {e}) <= Cardinality(Consumed')
    BY <2>1, <2>3, FS_Subset
  <2> QED
    BY <1>2, <1>4, <2>2, <2>3, <2>4, <2>5 DEF Counted
<1>13. Plain' = Plain
  BY <1>1 DEF Plain
<1>14. OneAhead'
  <2>1. Delivered' = Delivered
    BY <1>1, <1>2, <1>4, SizesAssumption DEF Delivered
  <2> QED
    BY <1>1, <1>13, <2>1 DEF OneAhead
<1>15. AnswersMatch'
  <2> SUFFICES ASSUME Plain
               PROVE  \A j \in DOMAIN answers' :
                        /\ j \in DOMAIN requests
                        /\ answers'[j].from = requests[j].first
                        /\ answers'[j].to = requests[j].last
    BY <1>1, <1>13 DEF AnswersMatch
  <2>1. got > base
    BY <1>2, <1>9, <1>16
  <2>2. /\ n = Len(requests) /\ requests[n].first = base + 1
        /\ requests[n].head = requests[n].last /\ got <= requests[n].last
    BY <2>1, NextRequest
  <2>3. DOMAIN requests = 1..Len(requests) /\ n \in DOMAIN requests /\ requests \in Seq(Request)
    BY <1>2, <2>2 DEF TypeOK
  <2>4. PICK i \in DOMAIN requests : e \in requests[i].lines
    BY <1>9 DEF EmptyLines
  <2>6. e \in requests[i].head..requests[i].last
    BY <2>4 DEF Laid
  <2>7. i = n
    <3> SUFFICES ASSUME i < n
                 PROVE  FALSE
      BY <2>2, <2>3
    <3>1. requests[i].last < requests[n].first
      BY <2>3 DEF Laid
    <3>2. requests[i].last \in Nat
      BY RequestNat
    <3> QED
      BY <1>2, <1>9, <1>16, <2>2, <2>6, <3>1, <3>2
  <2>5. got = requests[n].last
    <3>1. requests[n].last \in Nat
      BY <2>3, RequestNat
    <3>2. e = requests[n].last
      BY <2>2, <2>6, <2>7, <3>1
    <3> QED
      BY <1>2, <1>9, <2>2, <3>1, <3>2
  <2> QED
    BY <1>2, <1>4, <2>2, <2>3, <2>5 DEF AnswersMatch
<1> QED
  BY <1>5, <1>7, <1>8, <1>10, <1>12, <1>14, <1>15

LEMMA KeepOpenKeepsXInv ==
    ASSUME XInv, KeepOpen
    PROVE  XInv'
<1> USE DEF XInv
<1>1. /\ base' = got /\ pc' = "armed" /\ pc = "write" /\ left = 0
      /\ UNCHANGED <<requests, sent, fin, got, keepAlive, left, retry, room, answers>>
  BY DEF KeepOpen, BaseReset, clientVars
<1>2. TypeOK'
  BY <1>1, SizesAssumption DEF TypeOK, Total
<1>3. Front' = Front /\ Front = got
  BY <1>1 DEF Front, Following
<1>4. Laid' /\ Following' /\ EveryAnswerEarned'
  <2>1. Laid'
    BY <1>1 DEF Laid, Total
  <2>2. Following'
    BY <1>1, <1>3, FrontNat DEF Following, TypeOK
  <2>3. EveryAnswerEarned'
    BY <1>1 DEF EveryAnswerEarned, EmptyLines
  <2> QED
    BY <2>1, <2>2, <2>3
<1>5. Counted' /\ OneAhead' /\ AnswersMatch'
  BY <1>1, <1>3 DEF Counted, Consumed, EmptyLines, OneAhead, Delivered, Plain, AnswersMatch
<1> QED
  BY <1>2, <1>4, <1>5

-----------------------------------------------------------------------------
(* The invariant *)

LEMMA NextKeepsXInv ==
    ASSUME XInv, Next
    PROVE  XInv'
<1>1. CASE \E k \in Kinds : Ask(k)
  BY <1>1, AskKeepsXInv
<1>2. CASE Turns
  <2>1. /\ TypeOK' /\ UNCHANGED <<requests, base, got, keepAlive, answers, left>>
        /\ \/ pc' = "closed" \/ pc' = pc
           \/ pc \in {"armed", "read", "check"} /\ pc' \in {"armed", "read", "check"}
    BY <1>2, TurnsKeepTypes DEF XInv
  <2>2. got' >= got
    BY <2>1 DEF XInv, TypeOK
  <2> QED
    BY <2>1, <2>2, QuietKeepsXInv
<1>3. CASE ReadSome
  <2>1. /\ TypeOK' /\ UNCHANGED <<requests, base, keepAlive, answers, pc, left>>
        /\ pc \in {"armed", "read", "check"} /\ got' > got
    BY <1>3, ReadKeepsTypes DEF XInv, ReadSome
  <2>2. got' >= got
    BY <2>1 DEF XInv, TypeOK
  <2> QED
    BY <2>1, <2>2, QuietKeepsXInv
<1>4. CASE WriteSome \/ WriteBlocked
  <2>1. /\ TypeOK' /\ left' <= left
        /\ UNCHANGED <<requests, base, got, keepAlive, answers, pc>>
    BY <1>4, WriteKeepsTypes DEF XInv
  <2>2. got' >= got /\ (left' > 0 => left > 0)
    BY <2>1 DEF XInv, TypeOK
  <2> QED
    BY <2>1, <2>2, QuietKeepsXInv
<1>5. CASE Handle
  <2>1. PICK i \in AtFront :
          Respond(requests[i].fate,
                  IF requests[i].fate = "malformed" THEN keepAlive ELSE requests[i].keep)
    BY <1>5 DEF Handle
  <2>2. requests[i] \in Request /\ keepAlive \in BOOLEAN
    BY DEF AtFront, XInv, TypeOK
  <2>3. /\ requests[i].fate \in Fates
        /\ (IF requests[i].fate = "malformed" THEN keepAlive ELSE requests[i].keep) \in BOOLEAN
    BY <2>2 DEF Request
  <2> QED
    BY <1>5, <2>1, <2>3, RespondKeepsXInv DEF Handle
<1>6. CASE HandleRemains
  <2>1. "malformed" \in Fates /\ {"page", "error"} \subseteq Fates /\ keepAlive \in BOOLEAN
    BY DEF Fates, XInv, TypeOK
  <2> QED
    BY <1>6, <2>1, RespondKeepsXInv DEF HandleRemains
<1>7. CASE KeepOpen
  BY <1>7, KeepOpenKeepsXInv
<1> QED
  BY <1>1, <1>2, <1>3, <1>4, <1>5, <1>6, <1>7 DEF Next, Server, Client, Worker, Turns

LEMMA StutterKeepsXInv == XInv /\ UNCHANGED vars => XInv'
<1> SUFFICES ASSUME XInv, UNCHANGED vars
             PROVE  XInv'
  OBVIOUS
<1> USE DEF vars, XInv
<1>1. TypeOK' /\ Laid' /\ Following'
  BY DEF TypeOK, Total, Laid, Following, Front
<1>2. EveryAnswerEarned' /\ Counted' /\ OneAhead' /\ AnswersMatch'
  BY DEF EveryAnswerEarned, EmptyLines, Counted, Consumed, Front, OneAhead, Delivered, Plain, AnswersMatch
<1> QED
  BY <1>1, <1>2

(* The invariant holds throughout every exchange. *)
THEOREM Invariance == Spec => []XInv
<1>1. XInv /\ [Next]_vars => XInv'
  BY NextKeepsXInv, StutterKeepsXInv
<1> QED
  BY InitXInv, <1>1, PTL DEF Spec

(* Every variable of the exchange keeps its type, and what is read stays inside
   read_buf, whose last byte is never filled. *)
THEOREM TypeCorrect == Spec => []TypeOK
BY Invariance, PTL DEF XInv

(* No response without an empty line of its own that follows what the response
   before it consumed, whatever the client does. *)
THEOREM AnswersEarned == Spec => []EveryAnswerEarned
BY Invariance, PTL DEF XInv

(* A plain client's responses are for its requests, one for each, in order. *)
THEOREM Matched == Spec => []AnswersMatch
BY Invariance, PTL DEF XInv

(* After a page the connection is what the page said of it (keep_alive). *)
THEOREM PagesKept == Spec => PagesHonoured
<1> DEFINE Told == pc = "write" /\ left = 0 /\ pc' # pc /\ answers[Len(answers)].fate = "page"
                     => (pc' = "armed") = answers[Len(answers)].says
<1>1. XInv /\ [Next]_vars => [Told]_vars
  <2> SUFFICES ASSUME XInv, Next, pc = "write", left = 0, pc' # pc,
                      answers[Len(answers)].fate = "page"
               PROVE  (pc' = "armed") = answers[Len(answers)].says
    OBVIOUS
  <2>1. answers[Len(answers)].says = keepAlive /\ keepAlive \in BOOLEAN
    BY DEF XInv, Following, TypeOK
  <2>2. \/ KeepOpen \/ CloseAnswered
    <3>1. ~(left > 0)
      OBVIOUS
    <3>2. ~Client
      BY DEF Client, Ask, Send, HangUp, Receive
    <3>3. ~(Wake \/ Expire \/ ReadFails \/ ReadSome \/ BufferFull \/ PeerGone \/ WouldBlock)
      BY DEF Wake, Expire, ReadFails, ReadSome, BufferFull, PeerGone, WouldBlock
    <3>4. ~(Incomplete \/ Handle \/ HandleRemains)
      BY DEF Incomplete, Handle, HandleRemains
    <3>5. ~(WriteSome \/ WriteBlocked \/ GiveUp \/ WriteFails)
      BY <3>1 DEF WriteSome, WriteBlocked, GiveUp, WriteFails
    <3> QED
      BY <3>2, <3>3, <3>4, <3>5 DEF Next, Server, Worker
  <2>3. CASE KeepOpen
    <3>1. keepAlive /\ pc' = "armed"
      BY <2>3 DEF KeepOpen, Kept
    <3> QED
      BY <2>1, <3>1
  <2>4. CASE CloseAnswered
    <3>1. ~keepAlive /\ pc' = "closed"
      BY <2>4 DEF CloseAnswered, Close, Kept
    <3> QED
      BY <2>1, <3>1
  <2> QED
    BY <2>2, <2>3, <2>4
<1> QED
  BY <1>1, Invariance, PTL DEF Spec, PagesHonoured

(* A plain client is turned away for lack of space only with a request that
   leaves no byte of the read buffer free. *)
THEOREM Fitting == Spec => FittingServed
<1> DEFINE Served == Plain /\ BufferFull =>
                       \E i \in AtFront : requests[i].head - base >= BufferSize - 1
<1>1. XInv /\ [Next]_vars => [Served]_vars
  <2> SUFFICES ASSUME XInv, Plain, BufferFull
               PROVE  \E i \in AtFront : requests[i].head - base >= BufferSize - 1
    OBVIOUS
  <2> DEFINE n == Len(answers) + 1
  <2>1. got - base >= BufferSize - 1 /\ pc = "read"
    BY SizesAssumption DEF BufferFull, SpaceLeft, XInv, TypeOK
  <2>2. got > base /\ base \in Nat /\ got \in Nat /\ n \in Nat /\ n > 0
    BY <2>1, SizesAssumption DEF XInv, TypeOK
  <2>3. /\ n = Len(requests) /\ requests[n].first = base + 1
        /\ requests[n].head = requests[n].last /\ got <= requests[n].last
    BY <2>1, <2>2, NextRequest
  <2>4. n \in DOMAIN requests
    BY <2>2, <2>3 DEF XInv, TypeOK
  <2>5. n \in AtFront /\ requests[n].head \in Nat
    BY <2>3, <2>4, RequestNat DEF AtFront, XInv
  <2> QED
    BY <2>1, <2>2, <2>3, <2>5, SizesAssumption
<1> QED
  BY <1>1, Invariance, PTL DEF Spec, FittingServed

-----------------------------------------------------------------------------
(* How long a client can hold a worker *)

Busy == pc \in {"read", "check", "write"}

(* The steps a worker has at most left to take for a response of which n pieces
   are to be written and r retries used: every piece may wait MaxRetry times. *)
ToWrite(n, r) == n * (MaxRetry + 1) + (MaxRetry - r) + 1

WholeWrite == ToWrite(AnswerSize, 0)

(* And for the event it was woken for. *)
Effort ==
    IF pc = "read" THEN SpaceLeft + WholeWrite + 2
    ELSE IF pc = "check" THEN WholeWrite + 1
    ELSE IF pc = "write" THEN ToWrite(left, retry)
    ELSE 0

LEMMA ToWriteBounds ==
    ASSUME NEW n \in 0..AnswerSize, NEW r \in 0..MaxRetry
    PROVE  ToWrite(n, r) \in Nat /\ 1 <= ToWrite(n, r) /\ ToWrite(n, r) <= WholeWrite
<1> DEFINE m == MaxRetry + 1
<1>1. m \in Nat /\ n \in Nat /\ AnswerSize \in Nat /\ n <= AnswerSize /\ r \in Nat /\ r <= MaxRetry
      /\ MaxRetry \in Nat
  BY SizesAssumption
<1>2. n * m \in Nat /\ AnswerSize * m \in Nat
  BY <1>1
<1>3. n * m <= AnswerSize * m
  <2>1. \A a, b, c \in Nat : a <= b => a * c <= b * c
    OBVIOUS
  <2> QED
    BY <1>1, <2>1
<1> HIDE DEF m
<1> QED
  BY <1>1, <1>2, <1>3 DEF ToWrite, WholeWrite, m

(* A piece written is worth every retry before the next. *)
LEMMA PieceWritten ==
    ASSUME NEW n \in 0..AnswerSize, NEW k \in 0..AnswerSize, k < n, NEW r \in 0..MaxRetry
    PROVE  ToWrite(k, 0) < ToWrite(n, r)
<1> DEFINE m == MaxRetry + 1
<1>1. m \in Nat /\ n \in Nat /\ k \in Nat /\ k + 1 <= n /\ r \in Nat /\ r <= MaxRetry
      /\ MaxRetry \in Nat
  BY SizesAssumption
<1>2. (k + 1) * m <= n * m
  <2>1. \A a, b, c \in Nat : a <= b => a * c <= b * c
    OBVIOUS
  <2> QED
    BY <1>1, <2>1
<1>3. (k + 1) * m = k * m + m
  BY <1>1
<1>4. n * m \in Nat /\ k * m \in Nat
  BY <1>1
<1>5. k * m + m <= n * m
  BY <1>2, <1>3
<1>6. ToWrite(k, 0) = k * m + MaxRetry + 1 /\ ToWrite(n, r) = n * m + (MaxRetry - r) + 1
  BY <1>1, <1>4 DEF ToWrite
<1>7. m = MaxRetry + 1
  OBVIOUS
<1> HIDE DEF m
<1> QED
  BY <1>1, <1>4, <1>5, <1>6, <1>7

(* What a worker has left to do is bounded, and is nothing when it is released. *)
LEMMA EffortBounds ==
    ASSUME XInv
    PROVE  /\ Effort \in Nat /\ Effort <= BufferSize + WholeWrite + 1
           /\ Busy <=> Effort > 0
<1>1. left \in 0..AnswerSize /\ retry \in 0..MaxRetry /\ got \in Int /\ base \in Int /\ got >= base
  BY DEF XInv, TypeOK
<1>2. /\ WholeWrite \in Nat /\ 1 <= WholeWrite
      /\ ToWrite(left, retry) \in Nat /\ 1 <= ToWrite(left, retry)
      /\ ToWrite(left, retry) <= WholeWrite
  BY <1>1, ToWriteBounds, SizesAssumption DEF WholeWrite
<1>3. SpaceLeft \in Nat /\ SpaceLeft <= BufferSize - 1 /\ BufferSize \in Nat
  BY <1>1, SizesAssumption DEF SpaceLeft, XInv, TypeOK
<1> QED
  BY <1>2, <1>3 DEF Effort, Busy

(* Every step of the worker takes it nearer to its release, and no step of the
   client adds to its work. *)
LEMMA EffortDrops ==
    ASSUME XInv, Busy, [Next]_vars
    PROVE  \/ Effort' < Effort
           \/ UNCHANGED <<pc, Effort>> /\ ~Worker
<1>a. /\ left \in 0..AnswerSize /\ retry \in 0..MaxRetry /\ room \in 0..SendRoom
      /\ got \in Int /\ base \in Int /\ sent \in Int
  BY DEF XInv, TypeOK
<1>b. Effort \in Nat /\ Effort > 0
  BY EffortBounds
<1>c. WholeWrite \in Nat /\ 1 <= WholeWrite
  BY <1>a, ToWriteBounds, SizesAssumption DEF WholeWrite
<1>d. SpaceLeft \in Nat
  BY <1>a, SizesAssumption DEF SpaceLeft, XInv, TypeOK
<1>1. CASE pc' = "closed" /\ UNCHANGED <<got, base, left, retry>>
  BY <1>1, <1>b DEF Effort
<1>2. CASE ReadSome
  <2>1. pc = "read" /\ pc' = "read" /\ got' > got /\ got' \in Int /\ base' = base
    BY <1>2, <1>a, <1>d DEF ReadSome
  <2>2. SpaceLeft' = BufferSize - (got' - base) - 1 /\ SpaceLeft = BufferSize - (got - base) - 1
    BY <2>1 DEF SpaceLeft
  <2>3. Effort' = SpaceLeft' + WholeWrite + 2 /\ Effort = SpaceLeft + WholeWrite + 2
    BY <2>1 DEF Effort
  <2>4. \A g, h, b, w \in Int : g < h =>
          (BufferSize - (h - b) - 1) + w + 2 < (BufferSize - (g - b) - 1) + w + 2
    BY SizesAssumption
  <2>5. Effort' < Effort
    BY <2>1, <2>2, <2>3, <2>4, <1>a, <1>c
  <2> QED
    BY <2>5
<1>3. CASE WouldBlock
  BY <1>3, <1>c, <1>d DEF WouldBlock, Effort
<1>4. CASE Incomplete
  BY <1>4, <1>c DEF Incomplete, Effort
<1>5. CASE Handle \/ HandleRemains
  <2>1. pc = "check" /\ pc' = "write" /\ left' = AnswerSize /\ retry' = 0
    BY <1>5 DEF Handle, HandleRemains, Respond
  <2> QED
    BY <2>1, <1>c DEF Effort, WholeWrite
<1>6. CASE WriteSome
  <2>1. pc = "write" /\ pc' = "write" /\ retry' = 0 /\ left' \in 0..AnswerSize /\ left' < left
    BY <1>6, <1>a, SizesAssumption DEF WriteSome
  <2>2. ToWrite(left', 0) < ToWrite(left, retry)
    BY <2>1, <1>a, PieceWritten
  <2> QED
    BY <2>1, <2>2 DEF Effort
<1>7. CASE WriteBlocked
  <2>1. pc = "write" /\ pc' = "write" /\ retry' = retry + 1 /\ left' = left
    BY <1>7 DEF WriteBlocked, Retried
  <2>2. left * (MaxRetry + 1) \in Int
    BY <1>a, SizesAssumption
  <2>3. ToWrite(left, retry + 1) < ToWrite(left, retry)
    BY <2>2, <1>a, SizesAssumption DEF ToWrite
  <2> QED
    BY <2>1, <2>3 DEF Effort
<1>8. CASE KeepOpen
  BY <1>8, <1>b DEF KeepOpen, Effort
<1>9. CASE BufferFull \/ PeerGone \/ GiveUp \/ CloseAnswered \/ ReadFails \/ WriteFails
  BY <1>1, <1>9 DEF BufferFull, PeerGone, GiveUp, CloseAnswered, ReadFails, WriteFails, Close
<1>10. CASE ~Worker /\ ~ReadFails /\ ~WriteFails
  <2>1. ~Wake /\ ~Expire
    BY DEF Busy, Wake, Expire
  <2>2. UNCHANGED <<pc, got, base, left, retry>>
    BY <1>10, <2>1 DEF Next, Server, Client, Ask, Send, HangUp, Receive, vars
  <2> QED
    BY <1>10, <2>2 DEF Effort, SpaceLeft
<1> QED
  BY <1>2, <1>3, <1>4, <1>5, <1>6, <1>7, <1>8, <1>9, <1>10 DEF Worker

(* A request costs a bounded number of a worker's steps, whatever its client
   does or leaves undone (epoll_handler.c:262): the buffer is read full at most
   once, and MaxRetry retries are all that each write may need. *)
EffortBounded ==
    /\ [](Effort <= BufferSize + WholeWrite + 1)
    /\ [][Busy => Effort' < Effort \/ (UNCHANGED <<pc, Effort>> /\ ~Worker)]_vars

(* No client gives a worker more to do than EffortBounded says, for buffers,
   responses and retries of any number. *)
THEOREM WorkersWorkIsBounded == Spec => EffortBounded
<1>1. XInv => Effort <= BufferSize + WholeWrite + 1
  BY EffortBounds
<1>2. XInv /\ [Next]_vars =>
        [Busy => Effort' < Effort \/ (UNCHANGED <<pc, Effort>> /\ ~Worker)]_vars
  BY EffortDrops
<1> QED
  BY <1>1, <1>2, Invariance, PTL DEF Spec, EffortBounded

(* A busy worker always has a step to take; ENABLED is beyond the provers here,
   the guards show it. *)
WorkerCanGo == Busy => ENABLED <<Worker>>_vars

At(n)    == Busy /\ Effort = n
Below(n) == Effort < n

(* What is left for a worker to do gets less. *)
WorkerAdvances(n) == At(n) ~> Below(n)

(* If workers are scheduled no client keeps one anywhere for ever. *)
THEOREM WorkersAdvance ==
    ASSUME NEW CONSTANT n \in Nat
    PROVE  FairSpec /\ []WorkerCanGo => WorkerAdvances(n)
<1>1. XInv /\ At(n) /\ [Next]_vars => At(n)' \/ Below(n)'
  <2> SUFFICES ASSUME XInv, At(n), [Next]_vars
               PROVE  At(n)' \/ Below(n)'
    OBVIOUS
  <2>1. \/ Effort' < Effort
        \/ UNCHANGED <<pc, Effort>>
    BY EffortDrops DEF At
  <2> QED
    BY <2>1 DEF At, Below, Busy
<1>2. XInv /\ At(n) /\ [Next]_vars /\ <<Worker>>_vars => Below(n)'
  <2> SUFFICES ASSUME XInv, At(n), [Next]_vars, Worker
               PROVE  Below(n)'
    OBVIOUS
  <2> QED
    BY EffortDrops DEF At, Below
<1>3. At(n) => Busy
  BY DEF At
<1> QED
  BY <1>1, <1>2, <1>3, Invariance, PTL DEF FairSpec, Spec, WorkerCanGo, WorkerAdvances

-----------------------------------------------------------------------------
(* HttpExchange implements RequestResponse *)

asked == Cardinality(Arrived)
open  == pc # "closed"

(* A step that asks for nothing, answers nothing and closes nothing. *)
Stutters == asked' = asked /\ Delivered' = Delivered /\ open' = open

LEMMA AskedFinite ==
    ASSUME XInv
    PROVE  /\ IsFiniteSet(Arrived) /\ Arrived \subseteq Nat
           /\ asked \in Nat /\ Len(answers) <= asked
<1> USE DEF XInv
<1>1. IsFiniteSet(Arrived) /\ Cardinality(Arrived) \in Nat /\ Arrived \subseteq 1..Total
  BY LinesFinite DEF Arrived
<1>2. Consumed \subseteq Arrived
  <2>1. EmptyLines \subseteq 1..Total
    BY LinesFinite
  <2>2. Front \in Nat /\ Front <= sent /\ sent \in Nat
    BY FrontNat, TotalNat DEF Following, TypeOK
  <2> SUFFICES ASSUME NEW e \in Consumed
               PROVE  e \in Arrived
    OBVIOUS
  <2>3. e \in EmptyLines /\ e <= Front /\ e \in Nat /\ 1 <= e
    BY <2>1, TotalNat DEF Consumed
  <2> QED
    BY <2>2, <2>3 DEF Arrived
<1>3. Cardinality(Consumed) <= Cardinality(Arrived) /\ Cardinality(Consumed) \in Nat
  BY <1>1, <1>2, FS_Subset, FS_CardinalityType
<1> QED
  BY <1>1, <1>3, TotalNat DEF asked, Counted, TypeOK

LEMMA InitAbstract == Init => Abstract!Init
<1> SUFFICES ASSUME Init
             PROVE  Abstract!Init
  OBVIOUS
<1>1. Arrived = {}
  BY DEF Init, Arrived, EmptyLines
<1>2. Delivered = 0 /\ pc # "closed"
  BY DEF Init, Delivered
<1> QED
  BY <1>1, <1>2, FS_EmptySet DEF Abstract!Init

(* Of what is asked for next no empty line has been sent. *)
LEMMA AskStutters ==
    ASSUME XInv, NEW k \in Kinds, Ask(k)
    PROVE  Stutters
<1> USE DEF XInv
<1>1. PICK r \in Request :
        /\ requests' = Append(requests, r) /\ r.first = Total + 1 /\ r.first <= r.head
        /\ r.lines \subseteq r.head..r.last
  BY AskLays
<1>2. UNCHANGED <<sent, pc, left, answers>>
  BY DEF Ask
<1>3. EmptyLines' = EmptyLines \cup r.lines
  BY <1>1, AppendLines
<1>4. r.lines \cap 1..sent = {}
  BY <1>1, TotalNat DEF Request, TypeOK
<1>5. Arrived' = Arrived
  BY <1>2, <1>3, <1>4 DEF Arrived
<1> QED
  BY <1>2, <1>5 DEF Stutters, asked, open, Delivered

(* A piece more that is sent brings at most one empty line. *)
LEMMA SendAsks ==
    ASSUME XInv, Send
    PROVE  Stutters \/ Abstract!Ask
<1> USE DEF XInv
<1>1. /\ sent' = sent + 1 /\ sent \in Nat /\ pc # "closed"
      /\ UNCHANGED <<requests, pc, left, answers>>
  BY TotalNat DEF Send, TypeOK
<1>2. Delivered' = Delivered /\ open' = open /\ EmptyLines' = EmptyLines
  BY <1>1 DEF Delivered, open, EmptyLines
<1>3. CASE sent + 1 \notin EmptyLines
  <2>1. Arrived' = Arrived
    BY <1>1, <1>2, <1>3 DEF Arrived
  <2> QED
    BY <1>2, <2>1 DEF Stutters, asked
<1>4. CASE sent + 1 \in EmptyLines
  <2>1. Arrived' = Arrived \cup {sent + 1} /\ sent + 1 \notin Arrived
    BY <1>1, <1>2, <1>4 DEF Arrived
  <2>2. Cardinality(Arrived') = Cardinality(Arrived) + 1
    BY <2>1, AskedFinite, FS_AddElement
  <2> QED
    BY <1>1, <1>2, <2>2 DEF Abstract!Ask, open
<1> QED
  BY <1>3, <1>4

(* The last piece of a response is an answer. *)
LEMMA WriteAnswers ==
    ASSUME XInv, WriteSome
    PROVE  Stutters \/ Abstract!Answer
<1> USE DEF XInv
<1>1. /\ pc = "write" /\ left > 0 /\ left' \in 0..AnswerSize
      /\ UNCHANGED <<requests, sent, pc, answers>>
  BY WriteKeepsTypes DEF WriteSome, clientVars, TypeOK
<1>2. asked' = asked /\ open' = open /\ open
  BY <1>1 DEF asked, Arrived, EmptyLines, open
<1>3. CASE left' > 0
  BY <1>1, <1>2, <1>3 DEF Stutters, Delivered
<1>4. CASE left' = 0
  <2>1. Delivered' = Delivered + 1 /\ Delivered < asked
    BY <1>1, <1>4, AskedFinite DEF Delivered, TypeOK
  <2> QED
    BY <1>2, <2>1 DEF Abstract!Answer, asked, open
<1> QED
  BY <1>1, <1>3, <1>4

LEMMA StepImplements ==
    ASSUME XInv, Next
    PROVE  Stutters \/ Abstract!Next
<1>1. CASE \E k \in Kinds : Ask(k)
  BY <1>1, AskStutters
<1>2. CASE Send
  BY <1>2, SendAsks DEF Abstract!Next
<1>3. CASE WriteSome
  BY <1>3, WriteAnswers DEF Abstract!Next
<1>4. CASE \/ Expire \/ ReadFails \/ BufferFull \/ PeerGone
           \/ GiveUp \/ WriteFails \/ CloseAnswered
  <2>1. Close /\ pc # "closed"
    BY <1>4 DEF Expire, ReadFails, BufferFull, PeerGone, GiveUp, WriteFails, CloseAnswered
  <2>2. asked' = asked /\ Delivered' = Delivered
    BY <2>1 DEF Close, clientVars, asked, Arrived, EmptyLines, Delivered
  <2> QED
    BY <2>1, <2>2 DEF Close, Abstract!Next, Abstract!Close, asked
<1>5. CASE Handle \/ HandleRemains
  <2>1. /\ pc = "check" /\ pc' = "write" /\ left' = AnswerSize
        /\ UNCHANGED <<requests, sent>> /\ \E a : answers' = Append(answers, a)
    BY <1>5 DEF Handle, HandleRemains, Respond, clientVars
  <2>2. Delivered' = Delivered
    <3>1. left = 0 /\ answers \in Seq(Answer) /\ Len(answers') = Len(answers) + 1
      BY <2>1 DEF XInv, Following, TypeOK
    <3> QED
      BY <2>1, <3>1, SizesAssumption DEF Delivered
  <2> QED
    BY <2>1, <2>2 DEF Stutters, asked, Arrived, EmptyLines, open
<1>6. CASE \/ HangUp \/ Receive \/ Wake \/ ReadSome \/ WouldBlock \/ Incomplete
           \/ WriteBlocked \/ KeepOpen
  <2>1. /\ pc # "closed" /\ pc' # "closed"
        /\ UNCHANGED <<requests, sent, left, answers>>
    BY <1>6 DEF HangUp, Receive, Wake, ReadSome, WouldBlock, Incomplete, WriteBlocked,
                KeepOpen, clientVars
  <2> QED
    BY <2>1 DEF Stutters, asked, Arrived, EmptyLines, open, Delivered
<1> QED
  BY <1>1, <1>2, <1>3, <1>4, <1>5, <1>6 DEF Next, Server, Client, Worker

(* Whatever its client does, a connection keeps the promise of RequestResponse. *)
THEOREM Implements == Spec => ImplementsRequestResponse
<1>1. XInv /\ [Next]_vars => [Abstract!Next]_(Abstract!vars)
  <2> SUFFICES ASSUME XInv, [Next]_vars
               PROVE  Abstract!Next \/ UNCHANGED Abstract!vars
    OBVIOUS
  <2>1. CASE Next
    BY <2>1, StepImplements DEF Stutters, asked, open, Abstract!vars
  <2>2. CASE UNCHANGED vars
    BY <2>2 DEF vars, Abstract!vars, Arrived, EmptyLines, Delivered
  <2> QED
    BY <2>1, <2>2
<1> QED
  BY InitAbstract, <1>1, Invariance, PTL DEF Spec, ImplementsRequestResponse, Abstract!Spec
=============================================================================

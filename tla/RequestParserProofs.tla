------------------------ MODULE RequestParserProofs -------------------------
(***************************************************************************)
(* Proofs about RequestParser, for requests of any number of lines, in any *)
(* order, and tables of any size.                                          *)
(***************************************************************************)
EXTENDS RequestParser, FiniteSetTheorems, SequenceTheorems, TLAPS

(* The lines with a colon among the first n. *)
Colons(n) == {k \in 1..n : lines[k].name # NONE}

(* The members of S that come before line q. *)
Before(S, q) == {j \in S : j < q}

(* The lines that the fields which are kept apart are taken from. *)
Connections == {j \in Counted : lines[j].name = "Connection" /\ lines[j].value \in {0, 1}}
Lengths     == {j \in Counted : lines[j].name = "Content-Length"}
Hosts       == {j \in Counted : lines[j].name = "Host"}

(* v is the value of the last line of S, or d if S is empty. *)
IsLast(S, v, d) ==
    /\ S = {} => v = d
    /\ S # {} => \E j \in S : (\A k \in S : k <= j) /\ v = lines[j].value

ParserTypes ==
    /\ uriLength \in Nat /\ lines \in Seq(Lines) /\ rest \in Nat
    /\ p \in 1..(Len(lines) + 1) /\ header_count \in 0..MaxHeaders
    /\ content_length \in Int

(* The loop is where it is, and stops counting when the table is full. *)
Progress ==
    /\ pc \in {"body", "parsed"} => p = Len(lines) + 1
    /\ pc \in {"headers", "body", "parsed"} => uri = uriLength
    /\ body # NoBody => pc = "parsed"
    /\ header_count = Cardinality(Before(Counted, p))
    /\ header_count < MaxHeaders => header_count = Cardinality(Colons(p - 1))
    /\ header_count = MaxHeaders => Cardinality(Colons(p - 1)) >= MaxHeaders

Fields ==
    /\ IsLast(Before(Connections, p), keep_alive, 1)
    /\ IsLast(Before(Lengths, p), content_length, 0)
    /\ IsLast(Before(Hosts, p), host, 0)

PInv == ParserTypes /\ Progress /\ Fields /\ BodyIsTheRest

-----------------------------------------------------------------------------
(* The lines *)

LEMMA LinesAre ==
    ASSUME ParserTypes
    PROVE  /\ Len(lines) \in Nat /\ DOMAIN lines = 1..Len(lines)
           /\ \A j \in DOMAIN lines : lines[j] \in Lines /\ lines[j].value \in Int
BY InputsAssumption DEF ParserTypes

LEMMA ColonsFinite ==
    ASSUME NEW n \in Nat
    PROVE  IsFiniteSet(Colons(n)) /\ Cardinality(Colons(n)) \in Nat
<1>1. IsFiniteSet(1..n)
  BY FS_Interval
<1>2. Colons(n) \subseteq 1..n
  BY DEF Colons
<1> QED
  BY <1>1, <1>2, FS_Subset, FS_CardinalityType

LEMMA BeforeFinite ==
    ASSUME ParserTypes, NEW q \in Nat
    PROVE  IsFiniteSet(Before(Counted, q)) /\ Cardinality(Before(Counted, q)) \in Nat
<1>1. IsFiniteSet(1..Len(lines))
  BY LinesAre, FS_Interval
<1>2. Before(Counted, q) \subseteq 1..Len(lines)
  BY LinesAre DEF Before, Counted
<1> QED
  BY <1>1, <1>2, FS_Subset, FS_CardinalityType

(* One line on: the colons are one more, or as many. *)
LEMMA OneLine ==
    ASSUME ParserTypes, p <= Len(lines)
    PROVE  /\ p \in DOMAIN lines
           /\ lines[p].name # NONE => Cardinality(Colons(p)) = Cardinality(Colons(p - 1)) + 1
           /\ lines[p].name = NONE => Cardinality(Colons(p)) = Cardinality(Colons(p - 1))
<1>1. p \in DOMAIN lines /\ p \in Nat /\ p - 1 \in Nat
  BY LinesAre DEF ParserTypes
<1>2. CASE lines[p].name # NONE
  <2>1. Colons(p) = Colons(p - 1) \cup {p} /\ p \notin Colons(p - 1)
    BY <1>1, <1>2 DEF Colons
  <2> QED
    BY <1>1, <1>2, <2>1, ColonsFinite, FS_AddElement
<1>3. CASE lines[p].name = NONE
  <2>1. Colons(p) = Colons(p - 1)
    BY <1>1, <1>3 DEF Colons
  <2> QED
    BY <1>1, <1>3, <2>1
<1> QED
  BY <1>1, <1>2, <1>3

(* The line at p counts just when it is stored. *)
LEMMA StoredCounts ==
    ASSUME PInv, p <= Len(lines)
    PROVE  p \in Counted <=> Stored(lines[p])
<1>1. ParserTypes /\ Progress
  BY DEF PInv
<1>2. /\ header_count \in 0..MaxHeaders /\ MaxHeaders \in Nat
      /\ p \in Nat /\ p - 1 \in Nat /\ Cardinality(Colons(p - 1)) \in Nat
  <2>1. p \in Nat /\ p - 1 \in Nat
    BY <1>1, LinesAre DEF ParserTypes
  <2> QED
    BY <1>1, <2>1, ColonsFinite, SizesAssumption DEF ParserTypes
<1>3. p \in Counted <=> lines[p].name # NONE /\ Cardinality(Colons(p)) <= MaxHeaders
  BY <1>1, OneLine DEF Counted, Colons
<1>4. CASE lines[p].name # NONE
  BY <1>1, <1>2, <1>3, <1>4, OneLine DEF Progress, Stored
<1>5. CASE lines[p].name = NONE
  BY <1>3, <1>5 DEF Stored
<1> QED
  BY <1>4, <1>5

LEMMA BeforeGrows ==
    ASSUME NEW S \in SUBSET Nat, NEW q \in Nat
    PROVE  /\ q \in S => Before(S, q + 1) = Before(S, q) \cup {q}
           /\ q \notin S => Before(S, q + 1) = Before(S, q)
           /\ q \notin Before(S, q)
<1>1. \A j \in S : j < q + 1 <=> j < q \/ j = q
  OBVIOUS
<1>2. Before(S, q + 1) = {j \in S : j < q \/ j = q}
  BY <1>1 DEF Before
<1>3. ~(q < q)
  OBVIOUS
<1> QED
  BY <1>2, <1>3, Zenon DEF Before

(* There is only one last line. *)
LEMMA LastIsLast ==
    ASSUME NEW S \in SUBSET Nat, NEW v, NEW d, IsLast(S, v, d)
    PROVE  v = LastOf(S, d)
<1>1. CASE S = {}
  BY <1>1 DEF IsLast, LastOf
<1>2. CASE S # {}
  <2>1. PICK j \in S : (\A k \in S : k <= j) /\ v = lines[j].value
    BY <1>2 DEF IsLast
  <2>2. \A i \in S : (\A k \in S : k <= i) => i = j
    BY <2>1
  <2>3. (CHOOSE i \in S : \A k \in S : k <= i) = j
    BY <2>1, <2>2
  <2>4. LastOf(S, d) = lines[CHOOSE i \in S : \A k \in S : k <= i].value
    BY <1>2 DEF LastOf
  <2> QED
    BY <2>1, <2>3, <2>4
<1> QED
  BY <1>1, <1>2

-----------------------------------------------------------------------------
(* The steps *)

LEMMA InitPInv == Init => PInv
<1> SUFFICES ASSUME Init
             PROVE  PInv
  OBVIOUS
<1>1. lines \in Seq(Lines)
  <2>1. PICK n \in 0..MaxLines : lines \in [1..n -> Lines]
    BY DEF Init
  <2>2. n \in Nat
    BY <2>1, SizesAssumption
  <2> QED
    BY <2>1, <2>2, IsASeq
<1>2. ParserTypes
  <2>1. Len(lines) \in Nat
    BY <1>1
  <2> QED
    BY <1>1, <2>1, InputsAssumption, SizesAssumption DEF Init, ParserTypes
<1>3. Counted \subseteq Nat /\ \A S \in SUBSET Counted : Before(S, p) = {}
  <2>1. Counted \subseteq Nat /\ \A j \in Counted : ~(j < 1)
    BY <1>2, LinesAre DEF Counted
  <2> QED
    BY <2>1 DEF Before, Init
<1>4. Progress
  <2>1. Cardinality(Before(Counted, p)) = 0
    BY <1>3, FS_EmptySet
  <2>2. Colons(p - 1) = {}
    BY DEF Colons, Init
  <2>3. Cardinality(Colons(p - 1)) = 0
    BY <2>2, FS_EmptySet
  <2>4. header_count = 0 /\ pc = "line" /\ body = NoBody /\ MaxHeaders \in Nat
    BY SizesAssumption DEF Init
  <2> QED
    BY <2>1, <2>3, <2>4 DEF Progress
<1>5. Fields
  BY <1>3 DEF Fields, IsLast, Init, Connections, Lengths, Hosts
<1> QED
  BY <1>2, <1>4, <1>5 DEF PInv, BodyIsTheRest, Init

(* Steps that do not move along the lines. *)
LEMMA SameLineKeeps ==
    ASSUME PInv, UNCHANGED <<input, p, header_count, host, keep_alive, content_length>>
    PROVE  /\ ParserTypes' /\ Fields'
           /\ header_count' = Cardinality(Before(Counted, p))'
           /\ (header_count < MaxHeaders => header_count = Cardinality(Colons(p - 1)))'
           /\ (header_count = MaxHeaders => Cardinality(Colons(p - 1)) >= MaxHeaders)'
<1> USE DEF PInv, input
<1>1. ParserTypes'
  BY DEF ParserTypes
<1>2. Counted' = Counted
  BY DEF Counted
<1>3. Fields'
  BY <1>2 DEF Fields, IsLast, Before, Connections, Lengths, Hosts
<1>4. Colons(p - 1)' = Colons(p - 1) /\ Before(Counted, p)' = Before(Counted, p)
  BY <1>2 DEF Colons, Before
<1> QED
  BY <1>1, <1>3, <1>4 DEF Progress

LEMMA RequestLineKeeps ==
    ASSUME PInv, ParseRequestLine \/ RequestLineFails
    PROVE  PInv'
<1>1. /\ UNCHANGED <<input, p, header_count, host, keep_alive, content_length, body>>
      /\ body' = NoBody
  BY DEF ParseRequestLine, RequestLineFails, PInv, Progress
<1>2. pc' = "failed" \/ (pc' = "headers" /\ uri' = uriLength)
  <2>1. CASE ParseRequestLine
    <3>1. uriLength < UriSize
      BY <2>1, SizesAssumption DEF ParseRequestLine, LineKept, PInv, ParserTypes
    <3> QED
      BY <2>1, <3>1 DEF ParseRequestLine
  <2> QED
    BY <2>1 DEF RequestLineFails
<1>3. BodyIsTheRest'
  BY <1>1 DEF PInv, BodyIsTheRest, input
<1>4. Progress'
  <2>1. body' = NoBody'
    BY <1>1 DEF NoBody
  <2> QED
    BY <1>1, <1>2, <2>1, SameLineKeeps DEF Progress, input
<1> QED
  BY <1>1, <1>3, <1>4, SameLineKeeps DEF PInv

LEMMA EndOfHeaderKeeps ==
    ASSUME PInv, EmptyLine \/ ParseNoBody \/ Cleanup
    PROVE  PInv'
<1>1. /\ UNCHANGED <<input, p, header_count, uri, host, keep_alive, content_length>>
      /\ body' = NoBody
  BY DEF EmptyLine, ParseNoBody, Cleanup, PInv, Progress
<1>2. /\ pc' \in {"body", "parsed"} => p = Len(lines) + 1 /\ uri = uriLength
      /\ pc' \in {"headers", "body", "parsed"} => uri = uriLength
  BY DEF EmptyLine, ParseNoBody, Cleanup, PInv, Progress
<1>3. BodyIsTheRest'
  BY <1>1 DEF PInv, BodyIsTheRest, input, NoBody
<1>4. Progress'
  <2>1. body' = NoBody'
    BY <1>1 DEF NoBody
  <2> QED
    BY <1>1, <1>2, <2>1, SameLineKeeps DEF Progress, input
<1> QED
  BY <1>1, <1>3, <1>4, SameLineKeeps DEF PInv

LEMMA ParseBodyKeeps ==
    ASSUME PInv, ParseBody
    PROVE  PInv'
<1>1. /\ UNCHANGED <<input, p, header_count, uri, host, keep_alive, content_length>>
      /\ pc = "body" /\ pc' = "parsed" /\ body' = [from |-> p, length |-> BodyLength]
  BY DEF ParseBody
<1>2. p = Len(lines) + 1 /\ uri = uriLength /\ Len(lines) \in Nat
  BY <1>1, LinesAre DEF PInv, Progress
<1>3. BodyIsTheRest'
  <2>1. Following = rest
    BY <1>2 DEF Following, PInv, ParserTypes
  <2>2. /\ BodyLength <= rest /\ BodyLength <= content_length
        /\ BodyLength \in {rest, content_length}
    BY <2>1 DEF BodyLength, PInv, ParserTypes
  <2> QED
    BY <1>1, <1>2, <2>2 DEF BodyIsTheRest, input
<1>4. Progress'
  BY <1>1, <1>2, SameLineKeeps DEF Progress, input
<1> QED
  BY <1>1, <1>3, <1>4, SameLineKeeps DEF PInv

(* A step over one line: what has been stored grows by it if it counts. *)
LEMMA NextLine ==
    ASSUME PInv, p <= Len(lines), UNCHANGED <<input, uri, body>>, p' = p + 1,
           pc = "headers", pc' \in {"headers"},
           header_count' = IF Stored(lines[p]) THEN header_count + 1 ELSE header_count,
           content_length' \in Int, Fields'
    PROVE  PInv'
<1> USE DEF PInv
<1>1. /\ header_count \in 0..MaxHeaders /\ MaxHeaders \in Nat
      /\ p \in Nat /\ p - 1 \in Nat /\ p' - 1 = p
  <2>1. p \in Nat /\ p - 1 \in Nat
    BY LinesAre DEF ParserTypes
  <2> QED
    BY <2>1, SizesAssumption DEF ParserTypes
<1>2. Cardinality(Colons(p - 1)) \in Nat /\ Cardinality(Colons(p)) \in Nat
  BY <1>1, ColonsFinite
<1>3. Counted' = Counted /\ Colons(p - 1)' = Colons(p)
  BY <1>1 DEF Counted, Colons, input
<1>4. Counted \in SUBSET Nat
  BY LinesAre DEF Counted
<1>5. header_count' \in 0..MaxHeaders
  BY <1>1 DEF Stored
<1>6. ParserTypes'
  <2>1. p' \in 1..(Len(lines) + 1)
    BY <1>1, LinesAre DEF ParserTypes
  <2> QED
    BY <1>5, <2>1 DEF ParserTypes, input
<1>7. header_count' = Cardinality(Before(Counted, p + 1))
  <2>1. CASE Stored(lines[p])
    <3>1. p \in Counted
      BY <2>1, StoredCounts
    <3>2. Before(Counted, p + 1) = Before(Counted, p) \cup {p} /\ p \notin Before(Counted, p)
      BY <1>1, <1>4, <3>1, BeforeGrows
    <3>3. Cardinality(Before(Counted, p + 1)) = Cardinality(Before(Counted, p)) + 1
      BY <1>1, <3>2, BeforeFinite, FS_AddElement
    <3> QED
      BY <2>1, <3>3 DEF Progress
  <2>2. CASE ~Stored(lines[p])
    <3>1. p \notin Counted
      BY <2>2, StoredCounts
    <3>2. Before(Counted, p + 1) = Before(Counted, p)
      BY <1>1, <1>4, <3>1, BeforeGrows
    <3> QED
      BY <2>2, <3>2 DEF Progress
  <2> QED
    BY <2>1, <2>2
<1>8. /\ header_count' < MaxHeaders => header_count' = Cardinality(Colons(p))
      /\ header_count' = MaxHeaders => Cardinality(Colons(p)) >= MaxHeaders
  <2>1. CASE lines[p].name # NONE
    BY <1>1, <1>2, <2>1, OneLine DEF Progress, Stored
  <2>2. CASE lines[p].name = NONE
    BY <1>1, <1>2, <2>2, OneLine DEF Progress, Stored
  <2> QED
    BY <2>1, <2>2
<1>9. Progress'
  <2>1. Before(Counted, p)' = Before(Counted, p + 1)
    BY <1>3 DEF Before
  <2> QED
    BY <1>1, <1>3, <1>7, <1>8, <2>1 DEF Progress, input
<1>10. BodyIsTheRest'
  BY DEF Progress, BodyIsTheRest
<1> QED
  BY <1>6, <1>9, <1>10

LEMMA SkipKeeps ==
    ASSUME PInv, LineSkipped
    PROVE  PInv'
<1>1. /\ pc = "headers" /\ pc' = "headers" /\ p <= Len(lines) /\ ~Stored(lines[p])
      /\ p' = p + 1
      /\ UNCHANGED <<input, header_count, uri, host, keep_alive, content_length, body>>
  BY DEF LineSkipped, AfterSkip
<1>2. ParserTypes /\ p \in Nat /\ p \notin Counted
  BY <1>1, StoredCounts, LinesAre DEF PInv, ParserTypes
<1>3. \A S \in SUBSET Counted : Before(S, p + 1) = Before(S, p)
  <2>1. Counted \in SUBSET Nat
    BY <1>2, LinesAre DEF Counted
  <2> QED
    BY <1>2, <2>1, BeforeGrows
<1>4. Fields'
  <2>1. Connections' = Connections /\ Lengths' = Lengths /\ Hosts' = Hosts
    BY <1>1 DEF Connections, Lengths, Hosts, Counted, input
  <2>2. Before(Connections, p)' = Before(Connections, p)
        /\ Before(Lengths, p)' = Before(Lengths, p)
        /\ Before(Hosts, p)' = Before(Hosts, p)
    BY <1>1, <1>3, <2>1 DEF Before, Connections, Lengths, Hosts
  <2> QED
    BY <1>1, <2>2 DEF Fields, IsLast, PInv, input
<1>5. content_length' \in Int
  BY <1>1, <1>2 DEF ParserTypes
<1> QED
  BY <1>1, <1>4, <1>5, NextLine

(* What is set aside when the line at p is stored. *)
LEMMA FieldOneOn ==
    ASSUME PInv, p <= Len(lines), NEW S \in SUBSET Counted, NEW v, NEW d,
           IsLast(Before(S, p), v, d)
    PROVE  IsLast(Before(S, p + 1), IF p \in S THEN lines[p].value ELSE v, d)
<1>1. p \in Nat /\ S \in SUBSET Nat
  <2>1. ParserTypes
    BY DEF PInv
  <2>2. Len(lines) \in Nat /\ DOMAIN lines = 1..Len(lines)
    BY <2>1, LinesAre
  <2>3. Counted \subseteq Nat
    BY <2>2 DEF Counted
  <2>4. p \in Nat
    BY <2>1, <2>2 DEF ParserTypes
  <2> QED
    BY <2>3, <2>4
<1>2. CASE p \in S
  <2>1. Before(S, p + 1) = Before(S, p) \cup {p}
    BY <1>1, <1>2, BeforeGrows
  <2>2. \A k \in Before(S, p) \cup {p} : k <= p
    BY <1>1 DEF Before
  <2> QED
    BY <1>2, <2>1, <2>2 DEF IsLast
<1>3. CASE p \notin S
  BY <1>1, <1>3, BeforeGrows
<1> QED
  BY <1>2, <1>3

LEMMA HeaderKeeps ==
    ASSUME PInv, HeaderLine
    PROVE  PInv'
<1>1. /\ pc = "headers" /\ pc' = pc /\ p <= Len(lines) /\ Stored(lines[p])
      /\ p' = p + 1 /\ header_count' = header_count + 1 /\ Remember(lines[p])
      /\ UNCHANGED <<input, uri, body>>
  BY DEF HeaderLine
<1>2. /\ ParserTypes /\ p \in Nat /\ p \in Counted /\ p \in DOMAIN lines
      /\ lines[p].value \in Int
  BY <1>1, StoredCounts, LinesAre, OneLine DEF PInv, ParserTypes
<1>3. Connections' = Connections /\ Lengths' = Lengths /\ Hosts' = Hosts
  BY <1>1 DEF Connections, Lengths, Hosts, Counted, input
<1>4. /\ p \in Connections <=> lines[p].name = "Connection" /\ lines[p].value \in {0, 1}
      /\ p \in Lengths <=> lines[p].name = "Content-Length"
      /\ p \in Hosts <=> lines[p].name = "Host"
  BY <1>2 DEF Connections, Lengths, Hosts
<1>6. IsLast(Before(Connections, p + 1), keep_alive', 1)
  <2>1. IsLast(Before(Connections, p), keep_alive, 1) /\ Connections \in SUBSET Counted
    BY DEF PInv, Fields, Connections
  <2>2. keep_alive' = IF p \in Connections THEN lines[p].value ELSE keep_alive
    BY <1>1, <1>4 DEF Remember
  <2> QED
    BY <1>1, <2>1, <2>2, FieldOneOn
<1>7. IsLast(Before(Lengths, p + 1), content_length', 0)
  <2>1. IsLast(Before(Lengths, p), content_length, 0) /\ Lengths \in SUBSET Counted
    BY DEF PInv, Fields, Lengths
  <2>2. content_length' = IF p \in Lengths THEN lines[p].value ELSE content_length
    BY <1>1, <1>4 DEF Remember
  <2> QED
    BY <1>1, <2>1, <2>2, FieldOneOn
<1>8. IsLast(Before(Hosts, p + 1), host', 0)
  <2>1. IsLast(Before(Hosts, p), host, 0) /\ Hosts \in SUBSET Counted
    BY DEF PInv, Fields, Hosts
  <2>2. host' = IF p \in Hosts THEN lines[p].value ELSE host
    BY <1>1, <1>4 DEF Remember
  <2> QED
    BY <1>1, <2>1, <2>2, FieldOneOn
<1>9. Fields'
  <2>1. /\ Before(Connections, p)' = Before(Connections, p + 1)
        /\ Before(Lengths, p)' = Before(Lengths, p + 1)
        /\ Before(Hosts, p)' = Before(Hosts, p + 1)
    BY <1>1, <1>3 DEF Before
  <2> QED
    BY <1>1, <1>6, <1>7, <1>8, <2>1 DEF Fields, IsLast, input
<1>10. content_length' \in Int
  BY <1>1, <1>2 DEF Remember, ParserTypes
<1> QED
  BY <1>1, <1>9, <1>10, NextLine

-----------------------------------------------------------------------------
(* The results *)

LEMMA ParserInvariance == Spec => []PInv
<1>1. PInv /\ UNCHANGED vars => PInv'
  <2> SUFFICES ASSUME PInv, UNCHANGED vars
               PROVE  PInv'
    OBVIOUS
  <2>1. BodyIsTheRest'
    BY DEF PInv, BodyIsTheRest, vars
  <2> QED
    BY <2>1, SameLineKeeps DEF vars, input, PInv, Progress
<1>2. PInv /\ Next => PInv'
  BY RequestLineKeeps, HeaderKeeps, SkipKeeps, EndOfHeaderKeeps, ParseBodyKeeps DEF Next
<1> QED
  BY InitPInv, <1>1, <1>2, PTL DEF Spec

(* headers[] is never overrun, each field has the value of the last line that
   counts for it, and the URI is never cut. *)
THEOREM FieldsSound == Spec => []FieldsAsSent
<1>1. PInv => FieldsAsSent
  <2> SUFFICES ASSUME PInv
               PROVE  FieldsAsSent
    OBVIOUS
  <2>1. header_count = Cardinality({j \in Counted : j < p})
    BY DEF PInv, Progress, Before
  <2>2. ASSUME pc = "parsed"
        PROVE  \A S \in SUBSET Counted : Before(S, p) = S
    <3>1. \A j \in Counted : j < p
      BY <2>2, LinesAre DEF Counted, PInv, Progress
    <3> QED
      BY <3>1 DEF Before
  <2>3. ASSUME pc = "parsed"
        PROVE  /\ keep_alive = LastOf(Connections, 1)
               /\ content_length = LastOf(Lengths, 0)
               /\ host = LastOf(Hosts, 0)
    <3>1. /\ Connections \in SUBSET Counted /\ Lengths \in SUBSET Counted
          /\ Hosts \in SUBSET Counted
      BY DEF Connections, Lengths, Hosts
    <3>2. /\ IsLast(Connections, keep_alive, 1)
          /\ IsLast(Lengths, content_length, 0)
          /\ IsLast(Hosts, host, 0)
      BY <2>2, <2>3, <3>1 DEF PInv, Fields
    <3>3. Counted \in SUBSET Nat
      BY LinesAre DEF Counted, PInv
    <3> QED
      BY <3>1, <3>2, <3>3, LastIsLast
  <2> QED
    BY <2>1, <2>3 DEF FieldsAsSent, PInv, Progress, Connections, Lengths, Hosts
<1> QED
  BY <1>1, ParserInvariance, PTL

(* The body is what follows the empty line, whatever lines came before. *)
THEOREM BodySound == Spec => []BodyIsTheRest
<1>1. PInv => BodyIsTheRest
  BY DEF PInv
<1> QED
  BY <1>1, ParserInvariance, PTL
=============================================================================

------------------------ MODULE RequestHandlerProofs ------------------------
(***************************************************************************)
(* Proofs about RequestHandler, for files and buffers of any sizes and     *)
(* whatever lseek says of directories.                                     *)
(***************************************************************************)
EXTENDS RequestHandler, TLAPS

Steps == {"route", "open", "measure", "openIndex", "admit", "read", "done"}

HandlerTypes ==
    /\ method \in {"GET", "HEAD", "POST", "other"} /\ dotted \in BOOLEAN
    /\ node \in {"none", "dir", "file"} /\ hasIndex \in BOOLEAN
    /\ length \in [File -> Nat]
    /\ pc \in Steps
    /\ fd \in {"none", "dir", "page", "index"} /\ size \in Nat
    /\ reply \in [status : Nat, announced : Nat, body : Nat]
    /\ shrunk \in BOOLEAN /\ missed \in BOOLEAN /\ refused \in BOOLEAN

(* A descriptor is open from its measuring to its reading, and nothing has been
   answered before the end. *)
OpenBetween ==
    /\ fd # "none" <=> pc \in {"measure", "admit", "read"}
    /\ pc # "done" => reply = NoReply

(* The size is that of the open file, unless the file has been cut. *)
SizeKept ==
    pc \in {"admit", "read"} /\ fd \in File /\ ~shrunk => size <= length[fd]

(* What goes on to be read has been found to fit. *)
Admitted == pc = "read" => ~TooLarge

(* While nothing has been missing or refused a directory that was opened is one
   still, and what is not opened at once is one. *)
DirStays ==
    /\ ~missed => Servable
    /\ ~missed /\ ~refused /\ (fd = "dir" \/ pc = "openIndex") => node = "dir"

HInv == /\ HandlerTypes /\ OpenBetween /\ SizeKept /\ Admitted /\ DirStays
        /\ ReplySound /\ NotFoundIsMissing

-----------------------------------------------------------------------------
(* The request as it comes satisfies the invariant. *)
LEMMA InitHInv == Init => HInv
<1> SUFFICES ASSUME Init
             PROVE  HInv
  OBVIOUS
<1> USE SizesAssumption DEF Init, File
<1>1. HandlerTypes
  <2>1. length \in [File -> Nat]
    OBVIOUS
  <2> QED
    BY <2>1 DEF HandlerTypes, Steps, NoReply
<1>2. OpenBetween /\ SizeKept /\ Admitted
  BY DEF OpenBetween, SizeKept, Admitted
<1>3. DirStays
  BY DEF DirStays
<1>4. ReplySound /\ NotFoundIsMissing
  BY DEF ReplySound, FitsBuffer, LengthHonest, NotFoundIsMissing, NoReply
<1> QED
  BY <1>1, <1>2, <1>3, <1>4 DEF HInv

(* Nobody who renames, cuts or extends files breaks it. *)
LEMMA WorldKeepsHInv ==
    ASSUME HInv, Rename \/ \E n \in Sizes : Resize(n)
    PROVE  HInv'
<1>1. CASE Rename
  <2> USE <1>1, SizesAssumption DEF Rename, request, HInv, HandlerTypes, Steps, File
  <2>1. HandlerTypes'
    OBVIOUS
  <2>2. OpenBetween' /\ Admitted'
    BY DEF OpenBetween, Admitted, TooLarge
  <2>3. SizeKept'
    BY DEF SizeKept
  <2>4. DirStays'
    BY DEF DirStays, Servable
  <2>5. ReplySound' /\ NotFoundIsMissing'
    BY DEF ReplySound, FitsBuffer, LengthHonest, NotFoundIsMissing
  <2> QED
    BY <2>1, <2>2, <2>3, <2>4, <2>5
<1>2. ASSUME NEW n \in Sizes, Resize(n)
      PROVE  HInv'
  <2> USE <1>2, SizesAssumption DEF Resize, request, HInv, HandlerTypes, Steps, File
  <2>1. HandlerTypes'
    OBVIOUS
  <2>2. OpenBetween' /\ Admitted' /\ DirStays'
    BY DEF OpenBetween, Admitted, TooLarge, DirStays, Servable
  <2>3. SizeKept'
    <3>1. length[fd] \in Nat /\ n \in Nat /\ length'[fd] = n
      OBVIOUS
    <3>2. SizeKept
      OBVIOUS
    <3>3. CASE n < length[fd]
      <4>1. shrunk'
        BY <3>3
      <4> QED
        BY <4>1 DEF SizeKept
    <3>4. CASE length[fd] <= n
      <4>1. shrunk' = shrunk
        BY <3>1, <3>4
      <4> QED
        BY <3>1, <3>2, <3>4, <4>1 DEF SizeKept
    <3> QED
      BY <3>1, <3>3, <3>4
  <2>4. ReplySound' /\ NotFoundIsMissing'
    BY DEF OpenBetween, NoReply, ReplySound, FitsBuffer, LengthHonest, NotFoundIsMissing
  <2> QED
    BY <2>1, <2>2, <2>3, <2>4
<1> QED
  BY <1>1, <1>2

(* No step of the handler breaks it: one case per system call. *)
LEMMA HandlerKeepsHInv ==
    ASSUME HInv, Handler
    PROVE  HInv'
<1> USE SizesAssumption
    DEF HInv, HandlerTypes, Steps, File, request, files, OpenBetween, SizeKept, Admitted,
        DirStays, ReplySound, FitsBuffer, LengthHonest, NotFoundIsMissing, NoReply
<1>1. CASE Route
  BY <1>1 DEF Route, SendError, Servable
<1>2. CASE OpenPage
  <2>1. /\ pc = "open" /\ fd = "none" /\ reply = NoReply
        /\ UNCHANGED <<method, dotted, node, hasIndex, length, size, reply, shrunk, missed>>
    BY <1>2 DEF OpenPage
  <2>2. CASE node # "none" /\ pc' = "measure" /\ refused' = refused
             /\ fd' = IF node = "dir" THEN "dir" ELSE "page"
    BY <2>1, <2>2 DEF Servable
  <2>3. CASE refused' = (refused \/ node # "none") /\ pc' = "openIndex" /\ fd' = fd
    <3>1. ~missed /\ ~refused' => FALSE
      BY <2>1, <2>3 DEF Servable
    <3> QED
      BY <2>1, <2>3, <3>1 DEF Servable
  <2> QED
    BY <1>2, <2>2, <2>3 DEF OpenPage
<1>3. CASE Unmeasured
  <2>1. /\ pc = "measure" /\ fd' = "none" /\ refused' = (refused \/ fd # "dir")
        /\ UNCHANGED <<method, dotted, node, hasIndex, length, size, shrunk, missed>>
    BY <1>3 DEF Unmeasured, Closed
  <2>2. /\ \/ pc' = "openIndex" /\ reply' = reply
           \/ fd = "index" /\ SendError(404)
        /\ reply = NoReply
    BY <1>3, <2>1 DEF Unmeasured
  <2>3. /\ pc' \in {"openIndex", "done"}
        /\ pc' # "done" => reply' = NoReply
        /\ reply' \in [status : Nat, announced : Nat, body : Nat]
        /\ refused' \in BOOLEAN
        /\ reply'.status # 200 /\ HeaderLen + reply'.body <= WriteSize
        /\ reply'.status = 404 => refused'
    <3>1. CASE pc' = "openIndex" /\ reply' = reply
      BY <2>1, <2>2, <3>1
    <3>2. CASE fd = "index" /\ SendError(404)
      <4>1. refused' = TRUE
        BY <2>1, <3>2
      <4>2. /\ reply' = [status |-> 404, announced |-> ErrorLen, body |-> ErrorLen]
            /\ pc' = "done"
        BY <3>2 DEF SendError
      <4> QED
        BY <4>1, <4>2
    <3> QED
      BY <2>2, <3>1, <3>2
  <2>4. HandlerTypes' /\ OpenBetween' /\ SizeKept' /\ Admitted'
    BY <2>1, <2>2, <2>3
  <2>5. DirStays'
    BY <2>1, <2>3 DEF Servable
  <2>6. ReplySound' /\ NotFoundIsMissing'
    BY <2>3
  <2> QED
    BY <2>4, <2>5, <2>6
<1>4. CASE Measure
  <2>1. size' \in Nat /\ (fd \in File => size' = length[fd])
    BY <1>4 DEF Measure
  <2>2. HandlerTypes'
    <3>1. size' \in Nat /\ ~shrunk' /\ pc' = "admit"
      BY <1>4, <2>1 DEF Measure
    <3>2. UNCHANGED <<method, dotted, node, hasIndex, length, fd, reply, missed, refused>>
      BY <1>4 DEF Measure
    <3>3. shrunk' \in BOOLEAN
      BY <1>4 DEF Measure
    <3> QED
      BY <3>1, <3>2, <3>3
  <2>5. OpenBetween' /\ Admitted' /\ DirStays'
    BY <1>4 DEF Measure, Servable
  <2>3. SizeKept'
    BY <1>4, <2>1 DEF Measure
  <2>4. ReplySound' /\ NotFoundIsMissing'
    BY <1>4 DEF Measure
  <2> QED
    BY <2>2, <2>3, <2>4, <2>5
<1>5. CASE OpenIndex
  BY <1>5 DEF OpenIndex, IndexThere, SendError, Servable
<1>6. CASE AnswerHead
  BY <1>6 DEF AnswerHead, Servable
<1>7. CASE Refuse
  BY <1>7 DEF Refuse, SendError, Servable
<1>8. CASE Admit
  BY <1>8 DEF Admit, TooLarge, Servable
<1>9. CASE Read
  BY <1>9 DEF Read, BytesRead, TooLarge, Servable
<1>10. CASE ReadFails
  BY <1>10 DEF ReadFails, SendError, Servable
<1> QED
  BY <1>1, <1>2, <1>3, <1>4, <1>5, <1>6, <1>7, <1>8, <1>9, <1>10 DEF Handler

(* The invariant holds throughout every request. *)
THEOREM Invariance == Spec => []HInv
<1>1. HInv /\ UNCHANGED vars => HInv'
  BY DEF vars, HInv, HandlerTypes, OpenBetween, SizeKept, Admitted, TooLarge, DirStays,
         Servable, ReplySound, FitsBuffer, LengthHonest, NotFoundIsMissing
<1>2. HInv /\ [Next]_vars => HInv'
  BY <1>1, WorldKeepsHInv, HandlerKeepsHInv DEF Next
<1> QED
  BY InitHInv, <1>2, PTL DEF Spec

(* Header and content fit write_buf and the length announced is the length
   sent, for files of any sizes that change at any moment (http_request.c:105). *)
THEOREM RepliesSound == Spec => []ReplySound
BY Invariance, PTL DEF HInv

(* A 404 means that there was nothing to serve, at least for a moment, or that
   open or lseek failed on what was there. *)
THEOREM NotFoundMissing == Spec => []NotFoundIsMissing
BY Invariance, PTL DEF HInv

(* No path through the errors of open, lseek and read loses a descriptor. *)
THEOREM DescriptorsClosed == Spec => NoDescriptorLost
<1> DEFINE Kept == /\ pc' = "done" => fd' = "none"
                   /\ fd # "none" => fd' \in {fd, "none"}
<1>1. HInv /\ HInv' /\ [Next]_vars => [Kept]_vars
  <2> SUFFICES ASSUME HInv, HInv', Next
               PROVE  Kept
    OBVIOUS
  <2>1. pc' = "done" => fd' = "none"
    BY DEF HInv, OpenBetween
  <2>2. fd # "none" => fd' \in {fd, "none"}
    BY DEF HInv, OpenBetween, Next, Handler, Rename, Resize, Route, OpenPage, Unmeasured,
           Closed, Measure, OpenIndex, AnswerHead, Refuse, Admit, Read, ReadFails
  <2> QED
    BY <2>1, <2>2
<1> QED
  BY <1>1, Invariance, PTL DEF Spec, NoDescriptorLost

=============================================================================

--------------------------- MODULE RequestHandler ---------------------------
(***************************************************************************)
(* How one request becomes a response: build_file_path, get_file_size,     *)
(* handle_get and handle_head of src/src/http_request.c, the choice among  *)
(* them, and http_send_error of src/src/http_response.c, while somebody    *)
(* else may create, remove, cut and extend the files being served.         *)
(*                                                                         *)
(* A request names one node of the file system, file_path, and by it also  *)
(* index_path, file_path/index.html.  Every system call is a step.  A file *)
(* is its length.  /status is in RequestStats, the Connection header in    *)
(* HttpExchange.                                                           *)
(***************************************************************************)
EXTENDS Integers

CONSTANTS Sizes,      \* the lengths files may have
          DirSizes,   \* what lseek(fd, 0, SEEK_END) may say of a directory: it
                      \* fails (-1) or gives a number, as the file system likes
          WriteSize,  \* BUFFER_SIZE * 4, the size of write_buf
          Reserve,    \* the 512 bytes kept for a header
          HeaderLen,  \* the length of a header
          ErrorLen    \* the length of an error page

ASSUME SizesAssumption ==
    /\ Sizes \subseteq Nat /\ DirSizes \subseteq Nat \cup {-1}
    /\ WriteSize \in Nat /\ Reserve \in Nat /\ HeaderLen \in Nat /\ ErrorLen \in Nat
    /\ HeaderLen <= Reserve /\ HeaderLen + ErrorLen <= WriteSize

VARIABLES
    method, dotted,  \* the request: its method, and has its URI a ".."
    node,            \* what file_path names: none, dir, file
    hasIndex,        \* is there an index.html in it when it is a directory
    length,          \* of the file, and of the index file, opened or named
    pc,              \* the next step of the handler
    fd,              \* what its descriptor refers to: none, dir, page, index
    size,            \* file_size
    reply,           \* the response in write_buf
    shrunk,          \* history: has an open file been cut since it was measured
    missed,          \* history: has there been nothing to serve at some moment,
                     \* or something else in its place
    refused          \* history: has open or lseek failed on what is there

vars == <<method, dotted, node, hasIndex, length, pc, fd, size, reply, shrunk,
          missed, refused>>
request == <<method, dotted>>
files   == <<node, hasIndex, length>>

File == {"page", "index"}
NoReply == [status |-> 0, announced |-> 0, body |-> 0]

(* Is there something to serve under the requested name? *)
Servable == node = "file" \/ (node = "dir" /\ hasIndex)

Init ==
    /\ method \in {"GET", "HEAD", "POST", "other"} /\ dotted \in BOOLEAN
    /\ node \in {"none", "dir", "file"} /\ hasIndex \in BOOLEAN
    /\ length \in [File -> Sizes]
    /\ pc = "route" /\ fd = "none" /\ size = 0 /\ reply = NoReply
    /\ shrunk = FALSE /\ missed = ~Servable /\ refused = FALSE

-----------------------------------------------------------------------------
(* The world *)

(* A name comes, goes, or changes what it stands for.  An open file stays what
   it is, under whatever name. *)
Rename ==
    /\ pc # "done"
    /\ node' \in {"none", "dir", "file"} /\ hasIndex' \in BOOLEAN
    /\ length' \in [File -> Sizes]
    /\ \A f \in File : f = fd => length'[f] = length[f]
    /\ missed' = (missed \/ ~Servable' \/ node' # node)
    /\ UNCHANGED <<request, pc, fd, size, reply, shrunk, refused>>

(* The open file is cut or extended. *)
Resize(n) ==
    /\ fd \in File
    /\ length' = [length EXCEPT ![fd] = n]
    /\ shrunk' = (shrunk \/ n < length[fd])
    /\ UNCHANGED <<request, node, hasIndex, pc, fd, size, reply, missed, refused>>

-----------------------------------------------------------------------------
(* The handler *)

(* http_send_error: the response is an error page, also for HEAD. *)
SendError(status) ==
    /\ reply' = [status |-> status, announced |-> ErrorLen, body |-> ErrorLen]
    /\ pc' = "done"

(* http_handle_request chooses, and build_file_path refuses "..". *)
Route ==
    /\ pc = "route"
    /\ \/ method \in {"GET", "HEAD"} /\ ~dotted /\ pc' = "open" /\ UNCHANGED reply
       \/ method \in {"GET", "HEAD"} /\ dotted /\ SendError(403)
       \/ method = "POST" /\ SendError(501)
       \/ method = "other" /\ SendError(405)
    /\ UNCHANGED <<request, files, fd, size, shrunk, missed, refused>>

(* get_file_size(file_path): open, which opens directories too.  Any failure
   leads to the index file: nothing there, no permission (EACCES) or no
   descriptor left (EMFILE, ENFILE). *)
OpenPage ==
    /\ pc = "open"
    /\ \/ /\ node # "none"
          /\ fd' = IF node = "dir" THEN "dir" ELSE "page"
          /\ pc' = "measure"
          /\ UNCHANGED refused
       \/ /\ refused' = (refused \/ node # "none")
          /\ pc' = "openIndex"
          /\ UNCHANGED fd
    /\ UNCHANGED <<request, files, size, reply, shrunk, missed>>

(* Mutant of Closed: close(fd) is missing. *)
ClosedNot == fd
Closed    == "none"

(* lseek fails: the descriptor is closed and the index file is tried, or it was
   the index file. *)
Unmeasured ==
    /\ pc = "measure"
    /\ fd = "dir" => -1 \in DirSizes
    /\ refused' = (refused \/ fd # "dir")
    /\ fd' = Closed
    /\ IF fd = "index" THEN SendError(404) ELSE pc' = "openIndex" /\ UNCHANGED reply
    /\ UNCHANGED <<request, files, size, shrunk, missed>>

(* The number lseek gives is the size; then the offset is put back to 0. *)
Measure ==
    /\ pc = "measure"
    /\ size' \in IF fd = "dir" THEN DirSizes \ {-1} ELSE {length[fd]}
    /\ shrunk' = FALSE
    /\ pc' = "admit"
    /\ UNCHANGED <<request, files, fd, reply, missed, refused>>

(* Mutant of IndexThere: a directory is not looked into. *)
IndexNever == FALSE
IndexThere == node = "dir" /\ hasIndex

(* get_file_size(index_path): any failure of open is a 404. *)
OpenIndex ==
    /\ pc = "openIndex"
    /\ \/ /\ IndexThere
          /\ fd' = "index" /\ pc' = "measure"
          /\ UNCHANGED <<reply, refused>>
       \/ /\ refused' = (refused \/ IndexThere)
          /\ SendError(404)
          /\ UNCHANGED fd
    /\ UNCHANGED <<request, files, size, shrunk, missed>>

(* handle_head closes the file and answers with its size, whatever that is. *)
AnswerHead ==
    /\ pc = "admit" /\ method = "HEAD"
    /\ fd' = "none"
    /\ reply' = [status |-> 200, announced |-> size, body |-> 0]
    /\ pc' = "done"
    /\ UNCHANGED <<request, files, size, shrunk, missed, refused>>

TooLarge == size > WriteSize - Reserve

Refuse ==
    /\ pc = "admit" /\ method = "GET"
    /\ TooLarge
    /\ fd' = "none"
    /\ SendError(413)
    /\ UNCHANGED <<request, files, size, shrunk, missed, refused>>

Admit ==
    /\ pc = "admit" /\ method = "GET"
    /\ ~TooLarge
    /\ pc' = "read"
    /\ UNCHANGED <<request, files, fd, size, reply, shrunk, missed, refused>>

(* Mutant of BytesRead: as much as there is. *)
BytesReadAll == length[fd]

(* read(fd, ..., file_size), of a file as it is now. *)
BytesRead == IF length[fd] < size THEN length[fd] ELSE size

Read ==
    /\ pc = "read"
    /\ fd \in File
    /\ reply' = [status |-> 200, announced |-> size, body |-> BytesRead]
    /\ fd' = "none"
    /\ pc' = "done"
    /\ UNCHANGED <<request, files, size, shrunk, missed, refused>>

(* read fails, as it always does for a directory. *)
ReadFails ==
    /\ pc = "read"
    /\ fd' = "none"
    /\ SendError(500)
    /\ UNCHANGED <<request, files, size, shrunk, missed, refused>>

-----------------------------------------------------------------------------
Handler == \/ Route \/ OpenPage \/ Unmeasured \/ Measure \/ OpenIndex
           \/ AnswerHead \/ Refuse \/ Admit \/ Read \/ ReadFails

Next == Handler \/ Rename \/ \E n \in Sizes : Resize(n)

Spec == Init /\ [][Next]_vars

-----------------------------------------------------------------------------
(* Properties *)

Statuses == {0, 200, 403, 404, 405, 413, 500, 501}

TypeOK ==
    /\ method \in {"GET", "HEAD", "POST", "other"} /\ dotted \in BOOLEAN
    /\ node \in {"none", "dir", "file"} /\ hasIndex \in BOOLEAN
    /\ length \in [File -> Sizes]
    /\ pc \in {"route", "open", "measure", "openIndex", "admit", "read", "done"}
    /\ fd \in {"none", "dir"} \cup File /\ size \in Nat
    /\ reply \in [status : Statuses, announced : Nat, body : Nat]
    /\ shrunk \in BOOLEAN /\ missed \in BOOLEAN /\ refused \in BOOLEAN

(* Whatever happens to the file in between, header and content fit write_buf,
   the length announced is never exceeded, and it is the length sent unless the
   file was cut between its being measured and read. *)
FitsBuffer   == HeaderLen + reply.body <= WriteSize
LengthHonest ==
    reply.status = 200 /\ method = "GET" =>
        /\ reply.body <= reply.announced
        /\ reply.body < reply.announced => shrunk
ReplySound == FitsBuffer /\ LengthHonest

(* A 404 says that at some moment of the request there was nothing to serve or
   something else in its place, or that a call failed on what is there: the
   code makes a 404 of every failing open and lseek, "no permission" and "too
   many open files" included.  When no call fails, what stays there is found. *)
NotFoundIsMissing == reply.status = 404 => missed \/ refused

(* No descriptor is left behind: none is open at the end, and none is replaced
   by another one without having been closed, on any path through the errors. *)
NoDescriptorLost ==
    [][/\ pc' = "done" => fd' = "none"
       /\ fd # "none" => fd' \in {fd, "none"}]_vars

=============================================================================

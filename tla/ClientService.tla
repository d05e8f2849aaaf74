---------------------------- MODULE ClientService ----------------------------
(***************************************************************************)
(* The life of one connection in the web server of HW1, from make_client() *)
(* to the free() of the consumer that serves it: read_request(),           *)
(* switch_state(), write_reply() and flush_buffer() of clients_common.c.   *)
(*                                                                         *)
(* The reply is a stream of HeaderSize bytes of header followed by the     *)
(* bytes of the file; a byte is named by its place in the stream, and      *)
(* `received` is what reached the peer.  Reads and writes return any       *)
(* length the system call allows, or fail, those of the file included.    *)
(* The file does not change while it is sent.                              *)
(***************************************************************************)
EXTENDS Integers, Sequences

CONSTANTS
  BufferSize,      \* BUFFER_SIZE (4096)
  HeaderSize,      \* bytes of the header of a reply
  MaxRequest,      \* bound: the longest header of a request
  MaxFile          \* bound: the largest file

ASSUME ServiceAssumption ==
  /\ BufferSize \in Nat /\ BufferSize > 1
  /\ HeaderSize \in 1 .. BufferSize - 1
  /\ MaxRequest \in Nat \ {0}
  /\ MaxFile \in Nat

VARIABLES
  pc,              \* where the consumer is
  requestSize,     \* how many bytes the peer's request header has
  fileSize,        \* how many bytes the file has
  readable,        \* history: how many of them fread() gives, before it fails
  nread, nwritten, ntowrite,
  base,            \* place in the stream of the buffer's first byte
  readResult,      \* the local variable of write_reply()
  status, file, socket,
  received

peerVars == <<requestSize, fileSize, readable>>
bufVars  == <<nwritten, ntowrite, base, readResult>>
vars == <<pc, peerVars, nread, bufVars, status, file, socket, received>>

-----------------------------------------------------------------------------
\* make_client().
Init ==
  /\ pc = "read"
  /\ requestSize \in 1 .. MaxRequest
  /\ fileSize \in 0 .. MaxFile
  /\ readable = fileSize
  /\ nread = 0 /\ nwritten = 0 /\ ntowrite = 0
  /\ base = 1
  /\ readResult = BufferSize
  /\ status = "OK"
  /\ file = "none"
  /\ socket = "open"
  /\ received = <<>>

\* Variant: the socket stays open.
FinishOpen ==
  /\ status' = "BAD"
  /\ pc' = "returned"
  /\ UNCHANGED <<peerVars, nread, bufVars, file, socket, received>>

\* finish_client(), with the status the callers set before.
FinishBad ==
  /\ status' = "BAD"
  /\ socket' = "closed"
  /\ pc' = "returned"
  /\ UNCHANGED <<peerVars, nread, bufVars, file, received>>

\* Lines 66-78: a chunk, appended to the buffer, completes the header or not.
ReadChunk ==
  /\ pc = "read"
  /\ nread < BufferSize - 1
  /\ \E n \in 1 .. BufferSize - nread : nread' = nread + n
  /\ pc' = IF nread' >= requestSize THEN "parse" ELSE "read"
  /\ UNCHANGED <<peerVars, bufVars, status, file, socket, received>>

\* Lines 69-73: the peer has gone, or the read failed.
ReadFails == pc = "read" /\ nread < BufferSize - 1 /\ FinishBad

\* Lines 95-97: the buffer is full and the header is not complete.
RequestTooLong == pc = "read" /\ nread >= BufferSize - 1 /\ FinishBad

\* Lines 83-87.
BadHeader == pc = "parse" /\ FinishBad

\* switch_state(): the header of the reply replaces the request.
SwitchState ==
  /\ pc = "parse"
  /\ \/ status' \in {"404", "403"} /\ UNCHANGED file
     \/ file' = "open" /\ UNCHANGED status
  /\ ntowrite' = HeaderSize
  /\ nwritten' = 0
  /\ base' = 1
  /\ pc' = "flush"
  /\ UNCHANGED <<peerVars, nread, readResult, socket, received>>

\* Variant: a write is taken to have sent all it was given.
WriteChunkWhole ==
  /\ pc = "flush"
  /\ ntowrite > 0
  /\ \E n \in 1 .. ntowrite :
       received' = received \o [i \in 1 .. n |-> base + nwritten + i - 1]
  /\ nwritten' = nwritten + ntowrite
  /\ ntowrite' = 0
  /\ UNCHANGED <<pc, peerVars, nread, base, readResult, status, file, socket>>

\* flush_buffer(), lines 194-203: a write sends a part of the buffer.
WriteChunk ==
  /\ pc = "flush"
  /\ ntowrite > 0
  /\ \E n \in 1 .. ntowrite :
       /\ received' = received \o [i \in 1 .. n |-> base + nwritten + i - 1]
       /\ nwritten' = nwritten + n
       /\ ntowrite' = ntowrite - n
  /\ UNCHANGED <<pc, peerVars, nread, base, readResult, status, file, socket>>

\* Variant: a failed write is tried again on the closed socket.
WriteFailsOnce ==
  /\ pc = "flush" /\ ntowrite > 0
  /\ status' = "BAD" /\ socket' = "closed"
  /\ UNCHANGED <<pc, peerVars, nread, bufVars, file, received>>

\* Variant: a failed write is forgotten.
WriteFailsQuietly ==
  /\ pc = "flush" /\ ntowrite > 0
  /\ socket' = "closed" /\ ntowrite' = 0
  /\ UNCHANGED <<pc, peerVars, nread, nwritten, base, readResult, status,
                 file, received>>

\* Lines 197, 155-159 and 168-172: EPIPE, as SIGPIPE is ignored, or EINTR.
WriteFails == pc = "flush" /\ ntowrite > 0 /\ FinishBad

\* What is left of the file, as far as it fits the buffer.
FilePart ==
  LET rest == fileSize - (base + nwritten - 1 - HeaderSize)
  IN  IF rest < BufferSize THEN rest ELSE BufferSize

Refilling ==
  /\ pc = "flush" /\ ntowrite = 0
  /\ file = "open" /\ readResult = BufferSize
  /\ base' = base + nwritten
  /\ UNCHANGED <<pc, requestSize, fileSize, nread, status, file, socket,
                 received>>

\* Variant: nwritten is not reset.
RefillNoReset(n) ==
  /\ Refilling
  /\ readResult' = n /\ ntowrite' = n /\ UNCHANGED nwritten

\* Variant: readResult is not set.
RefillForever(n) ==
  /\ Refilling
  /\ ntowrite' = n /\ nwritten' = 0 /\ UNCHANGED readResult

\* Lines 163-167: what was flushed is replaced by the next n bytes of the file.
Refill(n) ==
  /\ Refilling
  /\ readResult' = n /\ ntowrite' = n /\ nwritten' = 0

ReadFile == Refill(FilePart) /\ UNCHANGED readable

\* The fread() of line 164 fails (EIO, or EISDIR as access() and fopen() let
\* a directory pass) after n bytes: the code takes it for the end of the file.
ReadFileFails ==
  \E n \in 0 .. FilePart - 1 :
    /\ Refill(n)
    /\ readable' = base' - 1 - HeaderSize + n

\* Lines 163 and 174: less than a buffer was read, the file is closed.
CloseFile ==
  /\ pc = "flush" /\ ntowrite = 0
  /\ file = "open" /\ readResult # BufferSize
  /\ file' = "closed"
  /\ pc' = "returned"
  /\ UNCHANGED <<peerVars, nread, bufVars, status, socket, received>>

\* Line 175, for a reply without a file.
NoFile ==
  /\ pc = "flush" /\ ntowrite = 0
  /\ file = "none"
  /\ pc' = "returned"
  /\ UNCHANGED <<peerVars, nread, bufVars, status, file, socket, received>>

\* thread_pool.c:63-67: the consumer looks at the status and frees the client.
FreeClient ==
  /\ pc = "returned"
  /\ pc' = "freed"
  /\ UNCHANGED <<peerVars, nread, bufVars, status, file, socket, received>>

Next ==
  \/ ReadChunk \/ ReadFails \/ RequestTooLong \/ BadHeader \/ SwitchState
  \/ WriteChunk \/ WriteFails \/ ReadFile \/ ReadFileFails
  \/ CloseFile \/ NoFile \/ FreeClient

Spec == Init /\ [][Next]_vars

\* Every read() and write() returns: the peer sends, reads, or goes away.
\* The code has no timeout, so this is an assumption on the peer.
FairSpec == Spec /\ WF_vars(Next)

-----------------------------------------------------------------------------
(* What holds of the code as it stands.                                    *)

\* Every variable keeps its type, nwritten and ntowrite stay in the buffer.
TypeOK ==
  /\ pc \in {"read", "parse", "flush", "returned", "freed"}
  /\ requestSize \in 1 .. MaxRequest
  /\ fileSize \in 0 .. MaxFile
  /\ readable \in 0 .. fileSize
  /\ nread \in 0 .. BufferSize
  /\ nwritten \in 0 .. BufferSize
  /\ ntowrite \in 0 .. BufferSize - nwritten
  /\ base \in 1 .. HeaderSize + fileSize + 1
  /\ readResult \in 0 .. BufferSize
  /\ status \in {"OK", "BAD", "403", "404"}
  /\ file \in {"none", "open", "closed"}
  /\ socket \in {"open", "closed"}
  /\ received \in Seq(1 .. HeaderSize + fileSize)

\* However the writes are cut, the peer gets the bytes of the reply in
\* order, none twice and none left out.
InOrder == \A i \in DOMAIN received : received[i] = i

\* A request that ends with STATUS_OK, and is counted as served, delivered
\* the header and the whole file, unless a read of the file failed: then all
\* that was read before.  One that ends with 403 or 404 delivered its header.
WholeReply ==
  pc = "freed" =>
    /\ status = "OK" => Len(received) = HeaderSize + readable
    /\ status \in {"403", "404"} => Len(received) = HeaderSize

\* The reply as the client sees it.
ReplyStage ==
  CASE status = "BAD"         -> "failed"
    [] pc \in {"read", "parse"} -> "request"
    [] pc = "flush"           -> IF status = "OK" THEN "page" ELSE "notice"
    [] OTHER                  -> IF status = "OK" THEN "page sent"
                                 ELSE "notice sent"
ReplyOf == INSTANCE Reply WITH
             size <- fileSize, readable <- readable,
             stage <- ReplyStage, delivered <- Len(received)

\* The service implements Reply: nothing is sent before the request is read or
\* after the client was finished, and whatever a consumer takes for served was
\* delivered whole, as far as the file could be read.
ImplementsReply == ReplyOf!Spec

\* Serving a client ends, for every way the reads and writes are cut.
Ends == <>(pc = "freed")

\* A client that failed has its socket closed, wherever the failure came, and
\* one that was answered the file it was given.
Released ==
  pc = "freed" => /\ status = "BAD" => socket = "closed"
                  /\ status # "BAD" => file # "open"
=============================================================================

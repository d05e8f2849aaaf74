---------------------------- MODULE EventClients ----------------------------
(***************************************************************************)
(* The clients of HW1's event-driven server: the list and the handlers of   *)
(* clients_statemachine.c, called in the rounds of server_statemachine.c.   *)
(* A round accepts at most one connection, handles the clients select()     *)
(* reported, and removes the finished ones.  What select() reports is       *)
(* chosen freely: its own arguments are not modelled.                      *)
(*                                                                         *)
(* The reply is a stream of bytes as in ClientService; `sent` counts those  *)
(* the peer received.  The file does not change while it is sent.          *)
(***************************************************************************)
EXTENDS Integers, FiniteSetsExt

CONSTANTS
  Clients,         \* bound: the connections that ever arrive
  None,            \* a null pointer
  BufferSize,      \* BUFFER_SIZE (4096)
  HeaderSize,      \* bytes of the header of a reply
  RequestSizes,    \* bytes of a request's header
  FileSizes        \* bytes of a file

ASSUME EventAssumption ==
  /\ IsFiniteSet(Clients)
  /\ None \notin Clients
  /\ BufferSize \in Nat /\ BufferSize > 1
  /\ HeaderSize \in 1 .. BufferSize - 1
  /\ RequestSizes \subseteq Nat \ {0}
  /\ FileSizes \subseteq Nat

VARIABLES
  head, tail, prev, next,         \* the list
  stage,                          \* "none", "listed" or "freed"
  client,                         \* the fields of each struct client
  sent,                           \* bytes of the reply the peer received
  requestSize, fileSize,          \* what each peer asks for
  readable,                       \* history: bytes of it fread() gives
  current,                        \* the loop variable of the server
  operations_completed, done,
  pc                              \* the part of the round

listVars == <<head, tail, prev, next, stage>>
dataVars == <<client, sent, operations_completed>>
peerVars == <<requestSize, fileSize, readable>>
vars == <<listVars, dataVars, peerVars, current, done, pc>>

\* make_client(); base is the place in the stream of the buffer's first byte.
NewClient(open) ==
  [open |-> open, state |-> "recv", file |-> "none", nread |-> 0,
   nwritten |-> 0, ntowrite |-> 0, base |-> 1, status |-> "OK"]

-----------------------------------------------------------------------------
\* init(), and the top of the loop.
Init ==
  /\ head = None /\ tail = None
  /\ prev = [c \in Clients |-> None] /\ next = [c \in Clients |-> None]
  /\ stage = [c \in Clients |-> "none"]
  /\ client = [c \in Clients |-> NewClient(FALSE)]
  /\ sent = [c \in Clients |-> 0]
  /\ requestSize \in [Clients -> RequestSizes]
  /\ fileSize \in [Clients -> FileSizes]
  /\ readable = fileSize
  /\ current = None
  /\ operations_completed = 0 /\ done = FALSE
  /\ pc = "test"

\* Variant: the old head does not point back.
InsertOneWay(c) ==
  /\ prev' = [prev EXCEPT ![c] = None]
  /\ next' = [next EXCEPT ![c] = head]
  /\ head' = c
  /\ tail' = IF tail = None THEN c ELSE tail

\* insert_client().
Insert(c) ==
  /\ prev' = [d \in Clients |->
                IF d = c THEN None ELSE IF d = head THEN c ELSE prev[d]]
  /\ next' = [next EXCEPT ![c] = head]
  /\ head' = c
  /\ tail' = IF tail = None THEN c ELSE tail

\* Line 63 of the server.  SIGTERM also comes after this test.
WhileTest ==
  /\ pc = "test" /\ ~done
  /\ pc' = "accept"
  /\ UNCHANGED <<listVars, dataVars, peerVars, current, done>>

\* Lines 111-125 of the server: a connection, or a socket of -1 when
\* accept_client() fails, is inserted.
Accept ==
  /\ pc = "accept"
  /\ \E c \in Clients, open \in BOOLEAN :
       /\ stage[c] = "none"
       /\ Insert(c)
       /\ stage' = [stage EXCEPT ![c] = "listed"]
       /\ client' = [client EXCEPT ![c] = NewClient(open)]
  /\ pc' = "handle"
  /\ current' = head'
  /\ UNCHANGED <<sent, operations_completed, peerVars, done>>

NoConnection ==
  /\ pc = "accept"
  /\ pc' = "handle"
  /\ current' = head
  /\ UNCHANGED <<listVars, dataVars, peerVars, done>>

Sigterm ==
  /\ ~done /\ done' = TRUE
  /\ UNCHANGED <<listVars, dataVars, peerVars, current, pc>>

\* Lines 145-149: every socket is closed.
Shutdown ==
  /\ pc = "test" /\ done
  /\ pc' = "ended"
  /\ UNCHANGED <<listVars, dataVars, peerVars, current, done>>

-----------------------------------------------------------------------------
(* handle_client(), for the client the loop is at.                         *)

Handling(state) ==
  /\ pc = "handle" /\ current # None
  /\ client[current].open
  /\ client[current].state = state

Advance == current' = next[current] /\ UNCHANGED <<listVars, peerVars, done, pc>>

\* The fields of the client at hand change, and the loop goes on.
Set(fields) ==
  /\ client' = [client EXCEPT ![current] = fields]
  /\ Advance

\* finish_client().
Finished(fields) == [fields EXCEPT !.open = FALSE, !.status = "BAD"]

\* The client was not reported, or its socket is -1.
NotReady ==
  /\ pc = "handle" /\ current # None
  /\ Advance
  /\ UNCHANGED dataVars

\* Lines 116-125: the peer has gone, the read failed, or nread leaves no room
\* and nothing is asked for.
ReadFails ==
  /\ Handling("recv")
  /\ Set(Finished(client[current]))
  /\ UNCHANGED <<sent, operations_completed>>

\* Fields after switch_state(): the reply's header is in the buffer.
Replies(fields) ==
  LET sends == [fields EXCEPT !.state = "send", !.ntowrite = HeaderSize,
                              !.nwritten = 0]
  IN  {[sends EXCEPT !.status = s] : s \in {"403", "404"}}
        \cup {[sends EXCEPT !.file = "open"]}

\* Variant: the read may fill the buffer, as in read_request().
ReadChunkFull ==
  /\ Handling("recv")
  /\ \E n \in 1 .. BufferSize - client[current].nread :
       LET fields == [client[current] EXCEPT !.nread = @ + n] IN
       IF fields.nread < requestSize[current]
       THEN Set(fields)
       ELSE \E reply \in Replies(fields) : Set(reply)
  /\ UNCHANGED <<sent, operations_completed>>

\* Lines 127-144: a header that is not valid finishes the client, and is
\* answered all the same.
ReadChunk ==
  /\ Handling("recv")
  /\ \E n \in 1 .. BufferSize - 1 - client[current].nread :
       LET fields == [client[current] EXCEPT !.nread = @ + n] IN
       IF fields.nread < requestSize[current]
       THEN Set(fields)
       ELSE \E reply \in Replies(fields) \cup Replies(Finished(fields)) :
              Set(reply)
  /\ UNCHANGED <<sent, operations_completed>>

\* Variant: nwritten stays.
WriteChunkStuck ==
  /\ Handling("send") /\ client[current].ntowrite > 0
  /\ \E n \in 1 .. client[current].ntowrite :
       /\ Set([client[current] EXCEPT !.ntowrite = @ - n])
       /\ sent' = [sent EXCEPT ![current] = @ + n]
  /\ UNCHANGED operations_completed

\* Lines 150-162.
WriteChunk ==
  /\ Handling("send") /\ client[current].ntowrite > 0
  /\ \E n \in 1 .. client[current].ntowrite :
       /\ Set([client[current] EXCEPT !.nwritten = @ + n, !.ntowrite = @ - n])
       /\ sent' = [sent EXCEPT ![current] = @ + n]
  /\ UNCHANGED operations_completed

\* Variant: the status stays.
WriteFailsQuietly ==
  /\ Handling("send") /\ client[current].ntowrite > 0
  /\ Set([client[current] EXCEPT !.open = FALSE, !.nwritten = @ - 1,
                                 !.ntowrite = @ + 1])
  /\ UNCHANGED <<sent, operations_completed>>

\* Variant: the client is not finished, and writes again.
WriteFailsAgain ==
  /\ Handling("send") /\ client[current].ntowrite > 0
  /\ Set([client[current] EXCEPT !.nwritten = @ - 1, !.ntowrite = @ + 1])
  /\ UNCHANGED <<sent, operations_completed>>

\* Lines 153-161: the client is finished, and the -1 is counted as written.
WriteFails ==
  /\ Handling("send") /\ client[current].ntowrite > 0
  /\ Set([Finished(client[current]) EXCEPT !.nwritten = @ - 1,
                                           !.ntowrite = @ + 1])
  /\ UNCHANGED <<sent, operations_completed>>

Refilling ==
  /\ Handling("send") /\ client[current].ntowrite = 0
  /\ client[current].file = "open"

\* Where the next read of the file starts in the stream.
NextBase == client[current].base + client[current].nwritten

\* What is left of the file, as far as it fits the buffer.
FilePart ==
  LET rest == fileSize[current] - (NextBase - 1 - HeaderSize)
  IN  IF rest < BufferSize THEN rest ELSE BufferSize

\* Lines 172-182: n bytes are read; less than a buffer, the file is closed.
Refill(n) ==
  /\ client' = [client EXCEPT ![current].base = NextBase,
                              ![current].nwritten = 0,
                              ![current].ntowrite = n,
                              ![current].file = IF n < BufferSize THEN "none"
                                                ELSE "open"]
  /\ current' = next[current]
  /\ UNCHANGED <<sent, operations_completed, listVars, requestSize, fileSize,
                 done, pc>>

ReadFile == Refilling /\ Refill(FilePart) /\ UNCHANGED readable

\* The fread() of line 173 fails after n bytes: the code takes it for the end
\* of the file.
ReadFileFails ==
  /\ Refilling
  /\ \E n \in 0 .. FilePart - 1 :
       /\ Refill(n)
       /\ readable' = [readable EXCEPT ![current] = NextBase - 1 - HeaderSize + n]

\* Lines 164-171.
Complete ==
  /\ Handling("send") /\ client[current].ntowrite = 0
  /\ client[current].file = "none"
  /\ Set([client[current] EXCEPT !.open = FALSE])
  /\ operations_completed' =
       operations_completed + (IF client[current].status = "OK" THEN 1 ELSE 0)
  /\ UNCHANGED sent

\* Line 129: the end of the list.
HandledAll ==
  /\ pc = "handle" /\ current = None
  /\ pc' = "remove"
  /\ UNCHANGED <<listVars, dataVars, peerVars, current, done>>

-----------------------------------------------------------------------------
(* while(remove_client(-1)), line 137 of the server.                       *)

\* The clients from the head on, as search_client() meets them.
FromHead[k \in 0 .. Cardinality(Clients)] ==
  IF k = 0 THEN head
  ELSE IF FromHead[k - 1] = None THEN None ELSE next[FromHead[k - 1]]

FinishedPlaces ==
  {k \in DOMAIN FromHead : FromHead[k] # None /\ ~client[FromHead[k]].open}

\* Variant: the tail does not move.
UnlinkKeepTail(c) ==
  /\ next' = [d \in Clients |-> IF d = prev[c] THEN next[c] ELSE next[d]]
  /\ prev' = [d \in Clients |-> IF d = next[c] THEN prev[c] ELSE prev[d]]
  /\ head' = IF prev[c] = None THEN next[c] ELSE head
  /\ UNCHANGED tail

\* Lines 81-93.
Unlink(c) ==
  /\ next' = [d \in Clients |-> IF d = prev[c] THEN next[c] ELSE next[d]]
  /\ prev' = [d \in Clients |-> IF d = next[c] THEN prev[c] ELSE prev[d]]
  /\ head' = IF prev[c] = None THEN next[c] ELSE head
  /\ tail' = IF next[c] = None THEN prev[c] ELSE tail

\* Variant: one client is removed in a round.
RemoveOnce(again) ==
  /\ pc = "remove" /\ FinishedPlaces # {}
  /\ LET c == FromHead[Min(FinishedPlaces)] IN
       /\ Unlink(c)
       /\ stage' = [stage EXCEPT ![c] = "freed"]
  /\ pc' = "test"
  /\ UNCHANGED <<dataVars, peerVars, current, done>>

\* remove_client(-1), and the loop test.
Remove(again) ==
  /\ pc = "remove" /\ FinishedPlaces # {}
  /\ LET c == FromHead[Min(FinishedPlaces)] IN
       /\ Unlink(c)
       /\ stage' = [stage EXCEPT ![c] = "freed"]
  /\ pc' = again
  /\ UNCHANGED <<dataVars, peerVars, current, done>>

RemovedAll ==
  /\ pc = "remove" /\ FinishedPlaces = {}
  /\ pc' = "test"
  /\ UNCHANGED <<listVars, dataVars, peerVars, current, done>>

Next ==
  \/ WhileTest \/ Accept \/ NoConnection \/ Sigterm \/ Shutdown
  \/ NotReady \/ ReadFails \/ ReadChunk \/ WriteChunk \/ WriteFails
  \/ ReadFile \/ ReadFileFails \/ Complete \/ HandledAll
  \/ Remove("remove") \/ RemovedAll

Spec == Init /\ [][Next]_vars

-----------------------------------------------------------------------------
(* What holds of the code as it stands.                                    *)

Listed == {c \in Clients : stage[c] = "listed"}

\* Every variable keeps its type.  The buffer's counters stay in the buffer,
\* but for those of a failed write.
TypeOK ==
  /\ {head, tail, current} \subseteq Clients \cup {None}
  /\ prev \in [Clients -> Clients \cup {None}]
  /\ next \in [Clients -> Clients \cup {None}]
  /\ stage \in [Clients -> {"none", "listed", "freed"}]
  /\ \A c \in Clients :
       /\ client[c].state \in {"recv", "send"}
       /\ client[c].file \in {"none", "open"}
       /\ client[c].status \in {"OK", "BAD", "403", "404"}
       /\ client[c].nread \in 0 .. BufferSize - 1
       /\ client[c].open => /\ client[c].nwritten \in 0 .. BufferSize
                            /\ client[c].ntowrite \in 0 .. BufferSize
  /\ readable \in [Clients -> Nat]
  /\ operations_completed \in Nat
  /\ done \in BOOLEAN
  /\ pc \in {"test", "accept", "handle", "remove", "ended"}

\* insert_client() and remove_client() keep the list whole in both
\* directions: it holds the clients not freed, each once.
ListWhole ==
  /\ Listed = {FromHead[k] : k \in DOMAIN FromHead} \ {None}
  /\ \A c \in Listed :
       IF next[c] = None THEN c = tail ELSE prev[next[c]] = c
  /\ (head = None) = (tail = None)
  /\ head # None => prev[head] = None

\* A client that finished in a round is gone before the next one: none is
\* handled again, with a socket of -1 and counters that are off.
GoneByNextRound ==
  pc \in {"test", "accept"} => \A c \in Listed : client[c].open

\* What the peer received is what the counters say was written.
InStep ==
  \A c \in Clients :
    client[c].open /\ client[c].state = "send" =>
       sent[c] = client[c].base + client[c].nwritten - 1

\* The reply of a client as its peer sees it.  After an invalid header the
\* client has its socket closed and is given an answer that is never written.
ReplyStage(c) ==
  LET answer == IF client[c].status = "OK" THEN "page" ELSE "notice"
      \* Something of the answer was written.
      begun  == client[c].nwritten # 0 \/ client[c].base # 1
  IN  IF stage[c] = "none" THEN "request"
      ELSE IF client[c].status = "BAD" THEN "failed"
      ELSE IF client[c].open
           THEN IF client[c].state = "recv" THEN "request" ELSE answer
      ELSE IF ~begun THEN "failed"
      ELSE IF answer = "page" THEN "page sent" ELSE "notice sent"
ReplyOf(c) == INSTANCE Reply WITH
  size <- fileSize[c], readable <- readable[c],
  stage <- ReplyStage(c), delivered <- sent[c]

\* Every client gets a Reply, whatever happens to the others in its rounds: the
\* same promise that the threads of the other server keep.
ImplementsReply ==
  /\ \A c \in Clients : ReplyOf(c)!Init
  /\ [][\A c \in Clients : [ReplyOf(c)!Next]_(ReplyOf(c)!vars)]_vars

\* A client that is freed with STATUS_OK received the header and the whole
\* file, or all of it that was read before a read failed, and those clients are
\* the ones operations_completed counts.
Whole(c) == sent[c] = HeaderSize + readable[c]
CountedWhole ==
  /\ \A c \in Clients :
       stage[c] = "freed" /\ client[c].status = "OK" =>
         Whole(c) \/ client[c].nread = 0
  /\ operations_completed =
       Cardinality({c \in Clients : /\ ~client[c].open
                                    /\ client[c].status = "OK" /\ Whole(c)})
=============================================================================

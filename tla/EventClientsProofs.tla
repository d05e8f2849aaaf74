------------------------- MODULE EventClientsProofs -------------------------
(* Theorems about EventClients, for any number of clients, any sizes of the  *)
(* buffer, the requests and the files, and whatever select() reports.       *)
EXTENDS EventClients, FiniteSetTheorems, WellFoundedInduction, TLAPS

\* The fields of a struct client.
ClientFields ==
  [open : BOOLEAN, state : {"recv", "send"}, file : {"none", "open"},
   nread : 0 .. BufferSize - 1, nwritten : Int, ntowrite : Int, base : Int,
   status : {"OK", "BAD", "403", "404"}]

Typed ==
  /\ {head, tail, current} \subseteq Clients \cup {None}
  /\ prev \in [Clients -> Clients \cup {None}]
  /\ next \in [Clients -> Clients \cup {None}]
  /\ stage \in [Clients -> {"none", "listed", "freed"}]
  /\ client \in [Clients -> ClientFields]
  /\ sent \in [Clients -> Int]
  /\ fileSize \in [Clients -> Nat] /\ readable \in [Clients -> Nat]
  /\ operations_completed \in Nat
  /\ done \in BOOLEAN
  /\ pc \in {"test", "accept", "handle", "remove", "ended"}

\* Nothing of a reply is in the buffer before the request was read.
Receiving(f, got) ==
  /\ f.status = "OK" /\ f.file = "none"
  /\ f.nwritten = 0 /\ f.ntowrite = 0 /\ f.base = 1
  /\ got = 0

\* The bytes of the reply up to the end of what the buffer holds.
Loaded(f) == f.base - 1 + f.nwritten + f.ntowrite

\* The buffer holds a part of the reply: the rest of the file is still to be
\* read, or the reply ends with it.  The size is that of what can be read.
Sending(f, size, got) ==
  /\ f.status # "BAD"
  /\ f.nread # 0
  /\ f.nwritten >= 0 /\ f.ntowrite >= 0 /\ f.base >= 1
  /\ f.nwritten + f.ntowrite <= BufferSize
  /\ got = f.base + f.nwritten - 1
  /\ f.file = "open" =>
       f.status = "OK" /\ Loaded(f) \in HeaderSize .. HeaderSize + size
  /\ f.file = "none" =>
       Loaded(f) = IF f.status = "OK" THEN HeaderSize + size ELSE HeaderSize

\* A client that was finished without a failure was answered in full, or came
\* with a socket of -1.
Ended(f, size, got) ==
  f.status = "OK" => IF f.nread = 0 THEN got = 0 ELSE got = HeaderSize + size

\* What the fields of a client say of the bytes that its peer received.
Account(f, size, got) ==
  /\ f.open /\ f.state = "recv" => Receiving(f, got)
  /\ f.open /\ f.state = "send" => Sending(f, size, got)
  /\ ~f.open => Ended(f, size, got)

Accounts == \A c \in Clients : Account(client[c], readable[c], sent[c])

\* No read of a file that is still to be read has failed.
Unbroken(f, size, can) ==
  f.open /\ (f.state = "recv" \/ f.file = "open") => can = size

Intact == \A c \in Clients : Unbroken(client[c], fileSize[c], readable[c])

\* The place of a client that has not come yet is not in use, and the socket
\* of one that was freed is closed.
Unused ==
  \A c \in Clients :
    /\ stage[c] = "none" => /\ client[c] = NewClient(FALSE) /\ sent[c] = 0
                            /\ readable[c] = fileSize[c]
    /\ stage[c] = "freed" => ~client[c].open

\* The clients that operations_completed counts.
Served ==
  {c \in Clients : ~client[c].open /\ client[c].status = "OK" /\ Whole(c)}

Counted == operations_completed = Cardinality(Served)

\* The n clients of s, in this order, are the list from h to t, which holds
\* the set L.
ListOf(h, t, pv, nx, L, n, s) ==
  /\ s \in [1 .. n -> Clients]
  /\ \A i, j \in 1 .. n : s[i] = s[j] => i = j
  /\ L = {s[i] : i \in 1 .. n}
  /\ h = IF n = 0 THEN None ELSE s[1]
  /\ t = IF n = 0 THEN None ELSE s[n]
  /\ \A i \in 1 .. n :
       /\ nx[s[i]] = IF i = n THEN None ELSE s[i + 1]
       /\ pv[s[i]] = IF i = 1 THEN None ELSE s[i - 1]

Chain(n, s) == ListOf(head, tail, prev, next, Listed, n, s)

Chained == \E n \in Nat : \E s \in [1 .. n -> Clients] : Chain(n, s)

IInv ==
  /\ Typed /\ Accounts /\ Intact /\ Unused /\ Counted
  /\ Chained /\ GoneByNextRound

-----------------------------------------------------------------------------
(* What the handlers do to one client's fields.                            *)

LEMMA FieldTypes ==
  ASSUME NEW f \in ClientFields
  PROVE  /\ f.open \in BOOLEAN
         /\ f.state \in {"recv", "send"} /\ f.file \in {"none", "open"}
         /\ f.nread \in 0 .. BufferSize - 1 /\ f.nwritten \in Int
         /\ f.ntowrite \in Int /\ f.base \in Int
         /\ f.status \in {"OK", "BAD", "403", "404"}
BY DEF ClientFields

LEMMA SizeTypes ==
  /\ BufferSize \in Nat /\ BufferSize > 1
  /\ HeaderSize \in 1 .. BufferSize - 1
BY EventAssumption

\* accept_client().
LEMMA FieldsNew ==
  ASSUME NEW open \in BOOLEAN, NEW size \in Nat
  PROVE  /\ NewClient(open) \in ClientFields
         /\ Account(NewClient(open), size, 0)
<1>1. 0 \in 0 .. BufferSize - 1
  BY SizeTypes
<1>2. NewClient(open) \in ClientFields
  BY <1>1 DEF NewClient, ClientFields
<1>3. Account(NewClient(open), size, 0)
  BY DEF NewClient, Account, Receiving, Sending, Ended
<1> QED
  BY <1>2, <1>3

\* finish_client().
LEMMA FieldsFinished ==
  ASSUME NEW f \in ClientFields, NEW size \in Nat, NEW got \in Int
  PROVE  /\ Finished(f) \in ClientFields
         /\ ~Finished(f).open /\ Finished(f).status = "BAD"
         /\ Account(Finished(f), size, got)
<1>1. Finished(f) \in ClientFields
  BY Zenon DEF Finished, ClientFields
<1>2. ~Finished(f).open /\ Finished(f).status = "BAD"
  BY Zenon DEF Finished, ClientFields
<1>3. Account(Finished(f), size, got)
  BY <1>2 DEF Account, Ended
<1> QED
  BY <1>1, <1>2, <1>3

\* A read that leaves the request incomplete.
LEMMA FieldsRead ==
  ASSUME NEW f \in ClientFields, NEW size \in Nat, NEW got \in Int,
         f.open, f.state = "recv", Account(f, size, got),
         NEW n \in 1 .. BufferSize - 1 - f.nread,
         NEW g, g = [f EXCEPT !.nread = @ + n]
  PROVE  /\ g \in ClientFields
         /\ g.open /\ g.state = "recv" /\ g.nread # 0
         /\ Receiving(g, got)
         /\ Account(g, size, got)
<1>1. f.nread + n \in 0 .. BufferSize - 1 /\ f.nread + n # 0
  BY FieldTypes, SizeTypes
<1>2. g \in ClientFields
  BY <1>1, Zenon DEF ClientFields
<1>3. /\ g.open = f.open /\ g.state = f.state /\ g.file = f.file
      /\ g.nread = f.nread + n /\ g.nwritten = f.nwritten
      /\ g.ntowrite = f.ntowrite /\ g.base = f.base /\ g.status = f.status
  BY Zenon DEF ClientFields
<1>4. g.open /\ g.state = "recv" /\ g.nread # 0
  BY <1>1, <1>3
<1>5. Receiving(g, got)
  BY <1>3 DEF Account, Receiving
<1>6. Account(g, size, got)
  BY <1>4, <1>5 DEF Account
<1> QED
  BY <1>2, <1>4, <1>5, <1>6

\* switch_state(), for a client that is still open and for a finished one.
LEMMA FieldsReply ==
  ASSUME NEW f \in ClientFields, NEW size \in Nat, NEW got \in Int,
         f.nread # 0, f.open => Receiving(f, got),
         ~f.open => f.status = "BAD",
         f.base = 1, f.file = "none",
         NEW reply \in Replies(f)
  PROVE  /\ reply \in ClientFields
         /\ reply.open = f.open /\ reply.state = "send"
         /\ reply.nwritten = 0 /\ reply.base = 1
         /\ reply.status \in {f.status, "403", "404"}
         /\ Account(reply, size, got)
<1> DEFINE sends == [f EXCEPT !.state = "send", !.ntowrite = HeaderSize,
                              !.nwritten = 0]
<1>1. HeaderSize \in Int /\ HeaderSize >= 1 /\ HeaderSize <= BufferSize
      /\ BufferSize \in Int
  BY SizeTypes
<1>2. sends \in ClientFields
  BY <1>1, 0 \in Int, Zenon DEF ClientFields
<1>3. /\ sends.open = f.open /\ sends.state = "send" /\ sends.file = f.file
      /\ sends.nread = f.nread /\ sends.nwritten = 0
      /\ sends.ntowrite = HeaderSize /\ sends.base = f.base
      /\ sends.status = f.status
  BY Zenon DEF ClientFields
<1>4. \/ \E s \in {"403", "404"} : reply = [sends EXCEPT !.status = s]
      \/ reply = [sends EXCEPT !.file = "open"]
  BY DEF Replies
<1> HIDE DEF sends
<1>5. ASSUME NEW s \in {"403", "404"}, reply = [sends EXCEPT !.status = s]
      PROVE  /\ reply \in ClientFields
             /\ reply.open = f.open /\ reply.state = "send"
             /\ reply.nwritten = 0 /\ reply.base = 1
             /\ reply.status \in {f.status, "403", "404"}
             /\ Account(reply, size, got)
  <2>1. reply \in ClientFields
    BY <1>2, <1>5, Zenon DEF ClientFields
  <2>2. /\ reply.open = sends.open /\ reply.state = sends.state
        /\ reply.file = sends.file /\ reply.nread = sends.nread
        /\ reply.nwritten = sends.nwritten /\ reply.ntowrite = sends.ntowrite
        /\ reply.base = sends.base /\ reply.status = s
    BY <1>2, <1>5, Zenon DEF ClientFields
  <2>3. reply.open => Sending(reply, size, got)
    BY <1>1, <1>3, <2>2 DEF Sending, Receiving, Loaded
  <2>4. Account(reply, size, got)
    BY <1>3, <2>2, <2>3 DEF Account, Ended
  <2> QED
    BY <1>3, <2>1, <2>2, <2>4
<1>6. ASSUME reply = [sends EXCEPT !.file = "open"]
      PROVE  /\ reply \in ClientFields
             /\ reply.open = f.open /\ reply.state = "send"
             /\ reply.nwritten = 0 /\ reply.base = 1
             /\ reply.status \in {f.status, "403", "404"}
             /\ Account(reply, size, got)
  <2>1. reply \in ClientFields
    BY <1>2, <1>6, Zenon DEF ClientFields
  <2>2. /\ reply.open = sends.open /\ reply.state = sends.state
        /\ reply.file = "open" /\ reply.nread = sends.nread
        /\ reply.nwritten = sends.nwritten /\ reply.ntowrite = sends.ntowrite
        /\ reply.base = sends.base /\ reply.status = sends.status
    BY <1>2, <1>6, Zenon DEF ClientFields
  <2>3. reply.open => Sending(reply, size, got)
    BY <1>1, <1>3, <2>2 DEF Sending, Receiving, Loaded
  <2>4. Account(reply, size, got)
    BY <1>3, <2>2, <2>3 DEF Account, Ended
  <2> QED
    BY <1>3, <2>1, <2>2, <2>4
<1> QED
  BY <1>4, <1>5, <1>6

\* A write of n bytes, and one that failed and counted -1.
LEMMA FieldsWritten ==
  ASSUME NEW f \in ClientFields, NEW size \in Nat, NEW got \in Int,
         f.open, f.state = "send", Account(f, size, got),
         NEW n \in 1 .. f.ntowrite,
         NEW g, g = [f EXCEPT !.nwritten = @ + n, !.ntowrite = @ - n]
  PROVE  /\ g \in ClientFields
         /\ g.open /\ g.state = "send" /\ g.status = f.status
         /\ g.file = f.file
         /\ Account(g, size, got + n)
<1>1. f.nwritten + n \in Int /\ f.ntowrite - n \in Int
  BY FieldTypes
<1>2. g \in ClientFields
  BY <1>1, Zenon DEF ClientFields
<1>3. /\ g.open = f.open /\ g.state = f.state /\ g.file = f.file
      /\ g.nread = f.nread /\ g.nwritten = f.nwritten + n
      /\ g.ntowrite = f.ntowrite - n /\ g.base = f.base
      /\ g.status = f.status
  BY Zenon DEF ClientFields
<1>4. Sending(f, size, got)
  BY DEF Account
<1>5. Loaded(g) = Loaded(f)
  BY <1>3, FieldTypes DEF Loaded
<1>6. g.open /\ g.state = "send"
  BY <1>3
<1>7. Sending(g, size, got + n)
  <2>1. /\ g.nwritten >= 0 /\ g.ntowrite >= 0 /\ g.base >= 1
        /\ g.nwritten + g.ntowrite <= BufferSize
        /\ got + n = g.base + g.nwritten - 1
    BY <1>3, <1>4, FieldTypes, SizeTypes DEF Sending
  <2> QED
    BY <1>3, <1>4, <1>5, <2>1 DEF Sending
<1>8. Account(g, size, got + n)
  BY <1>6, <1>7 DEF Account
<1> QED
  BY <1>2, <1>3, <1>6, <1>8

LEMMA FieldsLost ==
  ASSUME NEW f \in ClientFields, NEW size \in Nat, NEW got \in Int,
         NEW g, g = [Finished(f) EXCEPT !.nwritten = @ - 1, !.ntowrite = @ + 1]
  PROVE  /\ g \in ClientFields
         /\ ~g.open /\ g.status = "BAD"
         /\ Account(g, size, got)
<1> DEFINE e == Finished(f)
<1>1. e \in ClientFields /\ ~e.open /\ e.status = "BAD"
  BY FieldsFinished
<1> HIDE DEF e
<1>2. e.nwritten - 1 \in Int /\ e.ntowrite + 1 \in Int
  BY <1>1, FieldTypes
<1>3. g = [e EXCEPT !.nwritten = @ - 1, !.ntowrite = @ + 1]
  BY DEF e
<1>4. g \in ClientFields
  BY <1>1, <1>2, <1>3, Zenon DEF ClientFields
<1>5. g.open = e.open /\ g.status = e.status
  BY <1>1, <1>3, Zenon DEF ClientFields
<1>6. Account(g, size, got)
  BY <1>1, <1>5 DEF Account, Ended
<1> QED
  BY <1>1, <1>4, <1>5, <1>6

\* The fields after fread().
Refilled(f, n) ==
  [f EXCEPT !.base = f.base + f.nwritten, !.nwritten = 0, !.ntowrite = n,
            !.file = IF n < BufferSize THEN "none" ELSE "open"]

\* The file goes on in the buffer: less than a buffer is the rest of what can
\* be read of it.
LEMMA FieldsFile ==
  ASSUME NEW f \in ClientFields, NEW size \in Nat, NEW got \in Int,
         f.open, f.state = "send", Account(f, size, got),
         f.ntowrite = 0, f.file = "open",
         NEW n \in 0 .. BufferSize, NEW can \in Nat,
         f.base + f.nwritten - 1 - HeaderSize + n <= can,
         n < BufferSize => f.base + f.nwritten - 1 - HeaderSize + n = can
  PROVE  /\ Refilled(f, n) \in ClientFields
         /\ Refilled(f, n).open /\ Refilled(f, n).state = "send"
         /\ Refilled(f, n).status = f.status
         /\ n < BufferSize => Refilled(f, n).file = "none"
         /\ Account(Refilled(f, n), can, got)
<1> DEFINE base == f.base + f.nwritten
           g    == Refilled(f, n)
           file == IF n < BufferSize THEN "none" ELSE "open"
<1>1. /\ f.base \in Int /\ f.nwritten \in Int /\ BufferSize \in Int
      /\ HeaderSize \in Int /\ n \in Int
  BY FieldTypes, SizeTypes
<1>2. base \in Int /\ file \in {"none", "open"}
  BY <1>1
<1>3. g = [f EXCEPT !.base = base, !.nwritten = 0, !.ntowrite = n,
                    !.file = file]
  BY DEF Refilled
<1> HIDE DEF file, g
<1>4. g \in ClientFields
  BY <1>1, <1>2, <1>3, 0 \in Int, Zenon DEF ClientFields
<1>5. /\ g.open = f.open /\ g.state = f.state /\ g.file = file
      /\ g.nread = f.nread /\ g.nwritten = 0
      /\ g.ntowrite = n /\ g.base = base /\ g.status = f.status
  BY <1>3, Zenon DEF ClientFields
<1>6. Sending(f, size, got)
  BY DEF Account
<1>7. /\ f.status = "OK"
      /\ base - 1 >= HeaderSize
      /\ base >= 1 /\ got = base - 1
  BY <1>1, <1>6 DEF Sending, Loaded
<1>8. Sending(g, can, got)
  <2>1. /\ g.nwritten >= 0 /\ g.ntowrite >= 0 /\ g.base >= 1
        /\ g.nwritten + g.ntowrite <= BufferSize
        /\ got = g.base + g.nwritten - 1
    BY <1>1, <1>2, <1>5, <1>7, SizeTypes
  <2>2. CASE n < BufferSize
    <3>1. g.file = "none"
      BY <1>5, <2>2 DEF file
    <3>2. Loaded(g) = HeaderSize + can
      BY <1>1, <1>2, <1>5, <2>2 DEF Loaded
    <3> QED
      BY <1>5, <1>6, <1>7, <2>1, <3>1, <3>2 DEF Sending
  <2>3. CASE ~(n < BufferSize)
    <3>1. g.file = "open"
      BY <1>5, <2>3 DEF file
    <3>2. Loaded(g) \in HeaderSize .. HeaderSize + can
      BY <1>1, <1>2, <1>5, <1>7, <2>3, SizeTypes DEF Loaded
    <3> QED
      BY <1>5, <1>6, <1>7, <2>1, <3>1, <3>2 DEF Sending
  <2> QED
    BY <2>2, <2>3
<1>9. n < BufferSize => g.file = "none"
  BY <1>5 DEF file
<1>10. g.open /\ g.state = "send"
  BY <1>5
<1> QED
  BY <1>4, <1>5, <1>8, <1>9, <1>10 DEF Account, g

\* The reply is complete.
LEMMA FieldsComplete ==
  ASSUME NEW f \in ClientFields, NEW size \in Nat, NEW got \in Int,
         f.open, f.state = "send", Account(f, size, got),
         f.ntowrite = 0, f.file = "none",
         NEW g, g = [f EXCEPT !.open = FALSE]
  PROVE  /\ g \in ClientFields
         /\ ~g.open
         /\ g.status = f.status /\ g.nread = f.nread
         /\ g.nwritten = f.nwritten /\ g.base = f.base
         /\ got = IF f.status = "OK" THEN HeaderSize + size ELSE HeaderSize
         /\ got = g.base + g.nwritten - 1
         /\ f.status # "BAD"
         /\ Account(g, size, got)
<1>1. g \in ClientFields
  BY Zenon DEF ClientFields
<1>2. /\ g.open = FALSE
      /\ g.status = f.status /\ g.nread = f.nread
      /\ g.nwritten = f.nwritten /\ g.base = f.base
  BY Zenon DEF ClientFields
<1>3. Sending(f, size, got)
  BY DEF Account
<1>4. got = f.base + f.nwritten - 1
  BY <1>3 DEF Sending
<1>5. got = IF f.status = "OK" THEN HeaderSize + size ELSE HeaderSize
  BY <1>3, FieldTypes, SizeTypes DEF Sending, Loaded
<1>6. f.status # "BAD" /\ f.nread # 0
  BY <1>3 DEF Sending
<1>7. Account(g, size, got)
  BY <1>2, <1>5, <1>6 DEF Account, Ended
<1> QED
  BY <1>1, <1>2, <1>4, <1>5, <1>6, <1>7

-----------------------------------------------------------------------------
(* A step of the loop over the list, for the client it is at.              *)

\* The actions of handle_client() that change the client.
Handler ==
  \/ ReadFails \/ ReadChunk \/ WriteChunk \/ WriteFails
  \/ ReadFile \/ ReadFileFails \/ Complete

\* How a client's fields f become g, and its peer's bytes become k.
Fails(f, g, got, k) ==
  /\ k = got /\ ~g.open
  /\ \/ g.status = "BAD"
     \/ g.status \in {"403", "404"} /\ g.nwritten = 0 /\ g.base = 1
Reads(f, g, got, k) ==
  /\ k = got /\ g.open
  /\ f.state = "recv" /\ g.state = "recv"
Chooses(f, g, got, k) ==
  /\ k = got /\ g.open
  /\ f.state = "recv" /\ g.state = "send"
Delivers(f, g, got, k) ==
  /\ k >= got /\ g.open
  /\ f.state = "send" /\ g.state = "send" /\ g.status = f.status
Completes(f, g, got, k, size) ==
  /\ k = got /\ ~g.open
  /\ f.state = "send" /\ g.status = f.status /\ f.status # "BAD"
  /\ got = IF f.status = "OK" THEN HeaderSize + size ELSE HeaderSize
  /\ got = g.base + g.nwritten - 1

Turn(f, g, got, k, size) ==
  \/ Fails(f, g, got, k)
  \/ Reads(f, g, got, k)
  \/ Chooses(f, g, got, k)
  \/ Delivers(f, g, got, k)
  \/ Completes(f, g, got, k, size)

\* A read of its file failed: of the bytes it has, r can be read.
Cuts(f, g, got, k, size, can, r) ==
  /\ k = got /\ g.open
  /\ f.state = "send" /\ g.state = "send" /\ g.status = f.status
  /\ f.status = "OK"
  /\ can = size /\ r \in 0 .. size - 1 /\ got <= HeaderSize + r

\* The client at hand takes its turn, and no other client changes.
Turned(g, k, r) ==
  /\ pc = "handle" /\ current \in Clients /\ client[current].open
  /\ client' = [client EXCEPT ![current] = g]
  /\ sent' = [sent EXCEPT ![current] = k]
  /\ readable' = [readable EXCEPT ![current] = r]
  /\ Account(g, r, k)
  /\ Unbroken(g, fileSize[current], r)
  /\ \/ /\ r = readable[current]
        /\ Turn(client[current], g, sent[current], k, r)
     \/ Cuts(client[current], g, sent[current], k, fileSize[current],
             readable[current], r)
  /\ operations_completed' =
       operations_completed + (IF ~g.open /\ g.status = "OK" THEN 1 ELSE 0)
  /\ current' = next[current]
  /\ UNCHANGED <<listVars, requestSize, fileSize, done, pc>>

LEMMA HandlerTurns ==
  ASSUME Typed, Accounts, Intact, Handler
  PROVE  \E g \in ClientFields, k \in Int, r \in Nat : Turned(g, k, r)
<1> DEFINE f == client[current]
           got == sent[current]
           size == readable[current]
<1>1. /\ pc = "handle" /\ current # None /\ client[current].open
      /\ current' = next[current]
      /\ UNCHANGED <<listVars, requestSize, fileSize, done, pc>>
  <2>1. CASE ReadFails
    BY <2>1 DEF ReadFails, Handling, Set, Advance, peerVars
  <2>2. CASE ReadChunk
    BY <2>2 DEF ReadChunk, Handling, Set, Advance, peerVars
  <2>3. CASE WriteChunk
    BY <2>3 DEF WriteChunk, Handling, Set, Advance, peerVars
  <2>4. CASE WriteFails
    BY <2>4 DEF WriteFails, Handling, Set, Advance, peerVars
  <2>5. CASE ReadFile
    BY <2>5 DEF ReadFile, Refilling, Refill, Handling
  <2>6. CASE Complete
    BY <2>6 DEF Complete, Handling, Set, Advance, peerVars
  <2>7. CASE ReadFileFails
    BY <2>7 DEF ReadFileFails, Refilling, Refill, Handling
  <2> QED
    BY <2>1, <2>2, <2>3, <2>4, <2>5, <2>6, <2>7 DEF Handler
<1>2. current \in Clients
  BY <1>1 DEF Typed
<1>3. /\ f \in ClientFields /\ got \in Int /\ size \in Nat
      /\ Account(f, size, got)
      /\ operations_completed \in Nat
      /\ Unbroken(f, fileSize[current], size)
  BY <1>2 DEF Typed, Accounts, Intact
<1>4. f.open
  BY <1>1
<1>5. /\ sent = [sent EXCEPT ![current] = got]
      /\ readable = [readable EXCEPT ![current] = size]
  BY <1>2 DEF Typed
<1>6. ASSUME NEW g \in ClientFields, NEW k \in Int,
             client' = [client EXCEPT ![current] = g],
             sent' = [sent EXCEPT ![current] = k],
             readable' = readable,
             Account(g, size, k),
             Unbroken(g, fileSize[current], size),
             Turn(f, g, got, k, size),
             operations_completed' =
               operations_completed
                 + (IF ~g.open /\ g.status = "OK" THEN 1 ELSE 0)
      PROVE  Turned(g, k, size)
  BY <1>1, <1>2, <1>5, <1>6 DEF Turned
\* Outside of ReadFileFails the file goes on as before.
<1>7. ASSUME ReadFails \/ ReadChunk \/ WriteChunk \/ WriteFails \/ ReadFile
              \/ Complete
       PROVE  readable' = readable
  BY <1>7 DEF ReadFails, ReadChunk, WriteChunk, WriteFails, ReadFile, Complete,
               Set, Advance, peerVars
\* A client that is open or was not answered with a page is not counted.
<1>8. ASSUME NEW g \in ClientFields, NEW k \in Int,
             client' = [client EXCEPT ![current] = g],
             sent' = [sent EXCEPT ![current] = k],
             readable' = readable,
             Account(g, size, k),
             Unbroken(g, fileSize[current], size),
             Turn(f, g, got, k, size),
             operations_completed' = operations_completed,
             g.open \/ g.status # "OK"
      PROVE  Turned(g, k, size)
  <2>1. operations_completed' =
          operations_completed + (IF ~g.open /\ g.status = "OK" THEN 1 ELSE 0)
    BY <1>3, <1>8
  <2> QED
    BY <1>6, <1>8, <2>1
<1>9. CASE ReadFails
  <2> DEFINE g == Finished(f)
  <2>1. /\ g \in ClientFields /\ ~g.open /\ g.status = "BAD"
        /\ Account(g, size, got)
    BY <1>3, FieldsFinished
  <2>2. /\ client' = [client EXCEPT ![current] = g]
        /\ sent' = [sent EXCEPT ![current] = got]
        /\ operations_completed' = operations_completed
    BY <1>5, <1>9 DEF ReadFails, Set
  <2> HIDE DEF f, g, got, size
  <2>3. Turn(f, g, got, got, size)
    BY <2>1 DEF Turn, Fails
  <2>4. g.status # "OK" /\ Unbroken(g, fileSize[current], size)
    BY <2>1 DEF Unbroken
  <2>5. Turned(g, got, size)
    BY <1>3, <1>8, <1>7, <1>9, <2>1, <2>2, <2>3, <2>4
  <2> QED
    BY <1>3, <2>1, <2>5
<1>10. CASE ReadChunk
  <2>1. f.state = "recv"
    BY <1>10 DEF ReadChunk, Handling
  <2>2. /\ sent' = [sent EXCEPT ![current] = got]
        /\ operations_completed' = operations_completed
    BY <1>5, <1>10 DEF ReadChunk
  <2>3. PICK n \in 1 .. BufferSize - 1 - f.nread :
          LET fields == [f EXCEPT !.nread = @ + n] IN
          IF fields.nread < requestSize[current]
          THEN Set(fields)
          ELSE \E reply \in Replies(fields) \cup Replies(Finished(fields)) :
                 Set(reply)
    BY <1>10 DEF ReadChunk
  <2> DEFINE e == [f EXCEPT !.nread = @ + n]
             x == Finished(e)
  <2>4. \/ Set(e)
        \/ \E reply \in Replies(e) : Set(reply)
        \/ \E reply \in Replies(x) : Set(reply)
    <3>1. IF e.nread < requestSize[current]
          THEN Set(e)
          ELSE \E reply \in Replies(e) \cup Replies(x) : Set(reply)
      BY <2>3
    <3> HIDE DEF e, x
    <3> QED
      BY <3>1
  <2>5. /\ e \in ClientFields
        /\ e.open /\ e.state = "recv" /\ e.nread # 0
        /\ Receiving(e, got)
        /\ Account(e, size, got)
    BY <1>3, <1>4, <2>1, FieldsRead
  <2>6. /\ x \in ClientFields
        /\ ~x.open /\ x.status = "BAD"
        /\ x.nread = e.nread /\ x.base = e.base /\ x.file = e.file
    <3> HIDE DEF e
    <3>1. x \in ClientFields /\ ~x.open /\ x.status = "BAD"
      BY <1>3, <2>5, FieldsFinished
    <3>2. x.nread = e.nread /\ x.base = e.base /\ x.file = e.file
      BY <2>5, Zenon DEF Finished, ClientFields
    <3> QED
      BY <3>1, <3>2
  <2> HIDE DEF e, f, got, size
  <2>7. \A g : Unbroken(g, fileSize[current], size)
    BY <1>3, <1>4, <2>1 DEF Unbroken
  <2>8. CASE Set(e)
    <3>1. client' = [client EXCEPT ![current] = e]
      BY <2>8 DEF Set
    <3>2. Turn(f, e, got, got, size)
      BY <2>1, <2>5 DEF Turn, Reads
    <3>3. Turned(e, got, size)
      BY <1>3, <1>8, <1>10, <1>7, <2>2, <2>5, <2>7, <3>1, <3>2
    <3> QED
      BY <1>3, <2>5, <3>3
  <2>9. ASSUME NEW reply \in Replies(e), Set(reply)
        PROVE  \E g \in ClientFields, k \in Int, r \in Nat : Turned(g, k, r)
    <3>1. e.base = 1 /\ e.file = "none"
      BY <2>5 DEF Receiving
    <3>2. /\ reply \in ClientFields
          /\ reply.open = e.open /\ reply.state = "send"
          /\ Account(reply, size, got)
      BY <1>3, <2>5, <3>1, FieldsReply
    <3>3. client' = [client EXCEPT ![current] = reply]
      BY <2>9 DEF Set
    <3>4. reply.open
      BY <2>5, <3>2
    <3>5. Turn(f, reply, got, got, size)
      BY <2>1, <3>2, <3>4 DEF Turn, Chooses
    <3>6. Turned(reply, got, size)
      BY <1>3, <1>8, <1>10, <1>7, <2>2, <2>7, <3>2, <3>3, <3>4, <3>5
    <3> QED
      BY <1>3, <3>2, <3>6
  <2>10. ASSUME NEW reply \in Replies(x), Set(reply)
        PROVE  \E g \in ClientFields, k \in Int, r \in Nat : Turned(g, k, r)
    <3> HIDE DEF x
    <3>1. x.base = 1 /\ x.file = "none" /\ x.nread # 0
      BY <2>5, <2>6 DEF Receiving
    <3>2. /\ reply \in ClientFields
          /\ reply.open = x.open /\ reply.state = "send"
          /\ reply.nwritten = 0 /\ reply.base = 1
          /\ reply.status \in {x.status, "403", "404"}
          /\ Account(reply, size, got)
      BY <1>3, <2>6, <3>1, FieldsReply
    <3>3. client' = [client EXCEPT ![current] = reply]
      BY <2>10 DEF Set
    <3>4. ~reply.open /\ reply.status \in {"BAD", "403", "404"}
      BY <2>6, <3>2
    <3>5. Turn(f, reply, got, got, size)
      BY <3>2, <3>4 DEF Turn, Fails
    <3>6. Turned(reply, got, size)
      BY <1>3, <1>8, <1>10, <1>7, <2>2, <2>7, <3>2, <3>3, <3>4, <3>5
    <3> QED
      BY <1>3, <3>2, <3>6
  <2> QED
    BY <2>4, <2>8, <2>9, <2>10
<1>11. CASE WriteChunk
  <2>1. PICK n \in 1 .. f.ntowrite :
          /\ Set([f EXCEPT !.nwritten = @ + n, !.ntowrite = @ - n])
          /\ sent' = [sent EXCEPT ![current] = got + n]
    BY <1>11 DEF WriteChunk
  <2>2. f.state = "send" /\ operations_completed' = operations_completed
    BY <1>11 DEF WriteChunk, Handling
  <2> DEFINE g == [f EXCEPT !.nwritten = @ + n, !.ntowrite = @ - n]
  <2>3. /\ g \in ClientFields
        /\ g.open /\ g.state = "send" /\ g.status = f.status
        /\ g.file = f.file
        /\ Account(g, size, got + n)
    BY <1>3, <1>4, <2>2, FieldsWritten
  <2>4. client' = [client EXCEPT ![current] = g]
    BY <2>1 DEF Set
  <2>5. got + n \in Int /\ got + n >= got
    BY <1>3
  <2> HIDE DEF f, g, got, size
  <2>6. Turn(f, g, got, got + n, size)
    BY <2>2, <2>3, <2>5 DEF Turn, Delivers
  <2>7. Unbroken(g, fileSize[current], size)
    BY <1>3, <1>4, <2>3 DEF Unbroken
  <2>8. Turned(g, got + n, size)
    BY <1>3, <1>8, <1>11, <1>7, <2>1, <2>2, <2>3, <2>4, <2>5, <2>6, <2>7
  <2> QED
    BY <1>3, <2>3, <2>5, <2>8
<1>12. CASE WriteFails
  <2> DEFINE g == [Finished(f) EXCEPT !.nwritten = @ - 1, !.ntowrite = @ + 1]
  <2>1. /\ g \in ClientFields /\ ~g.open /\ g.status = "BAD"
        /\ Account(g, size, got)
    BY <1>3, FieldsLost
  <2>2. /\ client' = [client EXCEPT ![current] = g]
        /\ sent' = [sent EXCEPT ![current] = got]
        /\ operations_completed' = operations_completed
    BY <1>5, <1>12 DEF WriteFails, Set
  <2> HIDE DEF f, g, got, size
  <2>3. Turn(f, g, got, got, size)
    BY <2>1 DEF Turn, Fails
  <2>4. g.status # "OK" /\ Unbroken(g, fileSize[current], size)
    BY <2>1 DEF Unbroken
  <2>5. Turned(g, got, size)
    BY <1>3, <1>8, <1>7, <1>12, <2>1, <2>2, <2>3, <2>4
  <2> QED
    BY <1>3, <2>1, <2>5
<1>13. ASSUME Refilling
       PROVE  /\ f.state = "send" /\ f.ntowrite = 0 /\ f.file = "open"
              /\ size = fileSize[current] /\ size \in Nat /\ f.status = "OK"
              /\ NextBase = f.base + f.nwritten
              /\ NextBase \in Int /\ got = NextBase - 1
              /\ NextBase - 1 \in HeaderSize .. HeaderSize + size
              /\ FilePart \in 0 .. BufferSize
              /\ NextBase - 1 - HeaderSize + FilePart <= size
              /\ FilePart < BufferSize => NextBase - 1 - HeaderSize + FilePart = size
  <2>1. f.state = "send" /\ f.ntowrite = 0 /\ f.file = "open"
    BY <1>13 DEF Refilling, Handling
  <2>2. size = fileSize[current]
    BY <1>3, <1>4, <2>1 DEF Unbroken
  <2>3. NextBase = f.base + f.nwritten
    BY DEF NextBase
  <2>4. Sending(f, size, got)
    BY <1>3, <1>4, <2>1 DEF Account
  <2>5. /\ f.base \in Int /\ f.nwritten \in Int /\ HeaderSize \in Int
        /\ BufferSize \in Nat
    BY <1>3, FieldTypes, SizeTypes
  <2>6. FilePart = IF size - (NextBase - 1 - HeaderSize) < BufferSize
                   THEN size - (NextBase - 1 - HeaderSize) ELSE BufferSize
    BY <2>2 DEF FilePart
  <2> HIDE DEF f, got, size
  <2>7. f.status = "OK" /\ NextBase - 1 \in HeaderSize .. HeaderSize + size
    BY <1>3, <2>1, <2>3, <2>4, <2>5 DEF Sending, Loaded
  <2>8. got = NextBase - 1 /\ NextBase \in Int
    BY <2>3, <2>4, <2>5 DEF Sending
  <2>9. /\ FilePart \in 0 .. BufferSize
        /\ NextBase - 1 - HeaderSize + FilePart <= size
        /\ FilePart < BufferSize => NextBase - 1 - HeaderSize + FilePart = size
    BY <1>3, <2>5, <2>6, <2>7, <2>8
  <2> QED
    BY <1>3, <2>1, <2>2, <2>3, <2>7, <2>9, <2>8
<1>14. ASSUME NEW n \in 0 .. BufferSize, Refill(n)
       PROVE  /\ client' = [client EXCEPT ![current] = Refilled(f, n)]
              /\ sent' = [sent EXCEPT ![current] = got]
              /\ operations_completed' = operations_completed
  BY <1>2, <1>5, <1>14 DEF Refill, Refilled, NextBase
<1>15. CASE ReadFile
  <2> DEFINE n == FilePart
             g == Refilled(f, n)
  <2>1. Refilling /\ Refill(n) /\ readable' = readable
    BY <1>15 DEF ReadFile
  <2>2. /\ g \in ClientFields
        /\ g.open /\ g.state = "send" /\ g.status = f.status
        /\ Account(g, size, got)
    <3> HIDE DEF n, f, got, size
    <3>1. /\ f.state = "send" /\ f.ntowrite = 0 /\ f.file = "open"
          /\ n \in 0 .. BufferSize
          /\ f.base + f.nwritten - 1 - HeaderSize + n <= size
          /\ n < BufferSize => f.base + f.nwritten - 1 - HeaderSize + n = size
      BY <1>3, <1>13, <2>1, FieldTypes, SizeTypes DEF n
    <3> QED
      BY <1>3, <1>4, <3>1, FieldsFile
  <2>3. /\ client' = [client EXCEPT ![current] = g]
        /\ sent' = [sent EXCEPT ![current] = got]
        /\ operations_completed' = operations_completed
    BY <1>13, <1>14, <2>1
  <2> HIDE DEF f, g, got, size
  <2>4. got >= got /\ f.state = "send" /\ Unbroken(g, fileSize[current], size)
    BY <1>3, <1>13, <2>1 DEF Unbroken
  <2>5. Turn(f, g, got, got, size)
    BY <2>2, <2>4 DEF Turn, Delivers
  <2>6. Turned(g, got, size)
    BY <1>3, <1>8, <2>1, <2>2, <2>3, <2>4, <2>5
  <2> QED
    BY <1>3, <2>2, <2>6
<1>16. CASE ReadFileFails
  <2>1. PICK n \in 0 .. FilePart - 1 :
          /\ Refill(n)
          /\ readable' = [readable EXCEPT ![current] =
                            NextBase - 1 - HeaderSize + n]
    BY <1>16 DEF ReadFileFails
  <2> DEFINE r == NextBase - 1 - HeaderSize + n
             g == Refilled(f, n)
  <2>2. Refilling
    BY <1>16 DEF ReadFileFails
  <2> HIDE DEF f, g, got, size
  <2>3. /\ n \in 0 .. BufferSize /\ n < BufferSize
        /\ r \in 0 .. size - 1 /\ got <= HeaderSize + r
        /\ r = f.base + f.nwritten - 1 - HeaderSize + n
    <3>1. HeaderSize \in Int /\ BufferSize \in Nat
      BY SizeTypes
    <3>2. /\ NextBase \in Int /\ got = NextBase - 1
          /\ NextBase - 1 \in HeaderSize .. HeaderSize + size
          /\ FilePart \in 0 .. BufferSize /\ size \in Nat
          /\ NextBase - 1 - HeaderSize + FilePart <= size
          /\ NextBase = f.base + f.nwritten
      BY <1>13, <2>2
    <3>3. n \in Int /\ 0 <= n /\ n <= FilePart - 1
      BY <3>1, <3>2
    <3>4. n \in 0 .. BufferSize /\ n < BufferSize
      BY <3>1, <3>2, <3>3
    <3>5. r \in 0 .. size - 1 /\ got <= HeaderSize + r
      BY <3>1, <3>2, <3>3
    <3>6. f.base \in Int /\ f.nwritten \in Int
      BY <1>3, FieldTypes
    <3>7. r = f.base + f.nwritten - 1 - HeaderSize + n
      BY <3>1, <3>2, <3>3, <3>6
    <3> QED
      BY <3>4, <3>5, <3>7
  <2> HIDE DEF r
  <2>4. /\ g \in ClientFields
        /\ g.open /\ g.state = "send" /\ g.status = f.status
        /\ g.file = "none"
        /\ Account(g, r, got)
    <3>1. f.state = "send" /\ f.ntowrite = 0 /\ f.file = "open"
      BY <1>13, <2>2
    <3>2. r \in Nat /\ f.base + f.nwritten - 1 - HeaderSize + n = r
      BY <1>3, <2>3
    <3>3. f.base + f.nwritten - 1 - HeaderSize + n <= r
      BY <3>2
    <3> QED
      BY <1>3, <1>4, <2>3, <3>1, <3>2, <3>3, FieldsFile DEF g
  <2>5. /\ client' = [client EXCEPT ![current] = g]
        /\ sent' = [sent EXCEPT ![current] = got]
        /\ operations_completed' = operations_completed
    BY <1>14, <2>1, <2>3 DEF g
  <2>6. Cuts(f, g, got, got, fileSize[current], size, r)
    BY <1>13, <2>2, <2>3, <2>4 DEF Cuts
  <2>7. Unbroken(g, fileSize[current], r)
    BY <2>4 DEF Unbroken
  <2>8. operations_completed' =
          operations_completed + (IF ~g.open /\ g.status = "OK" THEN 1 ELSE 0)
    BY <1>3, <2>4, <2>5
  <2>9. readable' = [readable EXCEPT ![current] = r]
    BY <2>1 DEF r
  <2>10. Turned(g, got, r)
    BY <1>1, <1>2, <2>4, <2>5, <2>6, <2>7, <2>8, <2>9 DEF Turned, f, got, size
  <2> QED
    BY <1>3, <2>3, <2>4, <2>10
<1>17. CASE Complete
  <2> DEFINE g == [f EXCEPT !.open = FALSE]
  <2>1. f.state = "send" /\ f.ntowrite = 0 /\ f.file = "none"
    BY <1>17 DEF Complete, Handling
  <2>2. /\ g \in ClientFields
        /\ ~g.open
        /\ g.status = f.status /\ f.status # "BAD"
        /\ got = IF f.status = "OK" THEN HeaderSize + size ELSE HeaderSize
        /\ got = g.base + g.nwritten - 1
        /\ Account(g, size, got)
    BY <1>3, <1>4, <2>1, FieldsComplete
  <2>3. /\ client' = [client EXCEPT ![current] = g]
        /\ sent' = [sent EXCEPT ![current] = got]
        /\ operations_completed' =
             operations_completed + (IF f.status = "OK" THEN 1 ELSE 0)
    BY <1>5, <1>17 DEF Complete, Set
  <2> HIDE DEF f, g, got, size
  <2>4. Turn(f, g, got, got, size)
    BY <2>1, <2>2 DEF Turn, Completes
  <2>5. operations_completed' =
          operations_completed + (IF ~g.open /\ g.status = "OK" THEN 1 ELSE 0)
    BY <2>2, <2>3
  <2>6. Unbroken(g, fileSize[current], size)
    BY <2>2 DEF Unbroken
  <2>7. Turned(g, got, size)
    BY <1>3, <1>6, <1>17, <1>7, <2>2, <2>3, <2>4, <2>5, <2>6
  <2> QED
    BY <1>3, <2>2, <2>7
<1> QED
  BY <1>9, <1>10, <1>11, <1>12, <1>15, <1>17, <1>16 DEF Handler

-----------------------------------------------------------------------------
(* The list as the sequence of its clients.                                *)

LEMMA NoneApart == None \notin Clients
BY EventAssumption

\* insert_client() puts a client in front.
Inserted(h, t, pv, nx, L, n, s, c) ==
  ListOf(c, IF t = None THEN c ELSE t,
         [d \in Clients |-> IF d = c THEN None ELSE IF d = h THEN c ELSE pv[d]],
         [nx EXCEPT ![c] = h], L \cup {c},
         n + 1, [i \in 1 .. n + 1 |-> IF i = 1 THEN c ELSE s[i - 1]])

LEMMA ListInsert ==
  ASSUME NEW h, NEW t, NEW L,
         NEW pv \in [Clients -> Clients \cup {None}],
         NEW nx \in [Clients -> Clients \cup {None}],
         NEW n \in Nat, NEW s, ListOf(h, t, pv, nx, L, n, s),
         NEW c \in Clients, c \notin L
  PROVE  Inserted(h, t, pv, nx, L, n, s, c)
<1> DEFINE pw == [d \in Clients |-> IF d = c THEN None
                                    ELSE IF d = h THEN c ELSE pv[d]]
           nw == [nx EXCEPT ![c] = h]
           tw == IF t = None THEN c ELSE t
           u  == [i \in 1 .. n + 1 |-> IF i = 1 THEN c ELSE s[i - 1]]
<1>1. /\ \A i \in 1 .. n : s[i] \in Clients /\ s[i] # c /\ s[i] # None
      /\ \A i, j \in 1 .. n : s[i] = s[j] => i = j
  BY NoneApart DEF ListOf
<1>2. /\ u[1] = c
      /\ \A i \in 1 .. n : u[i + 1] = s[i]
      /\ \A i \in 1 .. n + 1 : i # 1 => i - 1 \in 1 .. n /\ u[i] = s[i - 1]
  OBVIOUS
<1>3. u \in [1 .. n + 1 -> Clients]
  BY <1>1
<1>4. \A i, j \in 1 .. n + 1 : u[i] = u[j] => i = j
  BY <1>1, <1>2
<1>5. L \cup {c} = {u[i] : i \in 1 .. n + 1}
  <2>1. L = {s[i] : i \in 1 .. n}
    BY DEF ListOf
  <2>2. 1 \in 1 .. n + 1 /\ \A i \in 1 .. n : i + 1 \in 1 .. n + 1
    OBVIOUS
  <2>3. ASSUME NEW x \in L \cup {c} PROVE \E i \in 1 .. n + 1 : x = u[i]
    <3>1. CASE x = c
      BY <1>2, <2>2, <3>1
    <3>2. CASE x # c
      <4>1. PICK i \in 1 .. n : x = s[i]
        BY <2>1, <3>2
      <4> QED
        BY <1>2, <2>2, <4>1
    <3> QED
      BY <3>1, <3>2
  <2>4. \A i \in 1 .. n + 1 : u[i] \in L \cup {c}
    BY <1>2, <2>1
  <2> QED
    BY <2>3, <2>4
<1>6. tw = u[n + 1]
  <2>1. CASE n = 0
    BY <1>2, <2>1 DEF ListOf
  <2>2. CASE n # 0
    BY <1>1, <1>2, <2>2 DEF ListOf
  <2> QED
    BY <2>1, <2>2
<1>7. ASSUME NEW i \in 1 .. n + 1
      PROVE  /\ nw[u[i]] = IF i = n + 1 THEN None ELSE u[i + 1]
             /\ pw[u[i]] = IF i = 1 THEN None ELSE u[i - 1]
  <2>1. CASE i = 1
    <3>1. nw[u[1]] = h /\ pw[u[1]] = None
      BY <1>2
    <3>2. h = IF n = 0 THEN None ELSE u[2]
      BY <1>2 DEF ListOf
    <3> QED
      BY <2>1, <3>1, <3>2
  <2>2. CASE i # 1
    <3> DEFINE k == i - 1
    <3>1. k \in 1 .. n /\ u[i] = s[k] /\ k + 1 = i
      BY <1>2, <2>2
    <3> HIDE DEF k
    <3>2. s[k] \in Clients /\ s[k] # c
      BY <1>1, <3>1
    <3>3. nw[s[k]] = nx[s[k]] /\ pw[s[k]] = IF s[k] = h THEN c ELSE pv[s[k]]
      BY <3>2
    <3>4. /\ nx[s[k]] = IF k = n THEN None ELSE s[k + 1]
          /\ pv[s[k]] = IF k = 1 THEN None ELSE s[k - 1]
      BY <3>1 DEF ListOf
    <3>5. h = s[1] /\ 1 \in 1 .. n
      BY <3>1 DEF ListOf
    <3>6. s[k] = h <=> k = 1
      BY <1>1, <3>1, <3>5
    <3>7. k # n => s[k + 1] = u[i + 1]
      BY <1>2, <3>1
    <3>8. k # 1 => s[k - 1] = u[i - 1]
      BY <1>2, <3>1
    <3>9. k = 1 => u[i - 1] = c
      BY <1>2, <3>1
    <3>10. nw[u[i]] = IF i = n + 1 THEN None ELSE u[i + 1]
      BY <3>1, <3>3, <3>4, <3>7
    <3>11. pw[u[i]] = u[i - 1]
      BY <3>1, <3>3, <3>4, <3>6, <3>8, <3>9
    <3> QED
      BY <2>2, <3>10, <3>11
  <2> QED
    BY <2>1, <2>2
<1>8. n + 1 # 0 /\ c = u[1]
  BY <1>2
<1> QED
  BY <1>3, <1>4, <1>5, <1>6, <1>7, <1>8 DEF Inserted, ListOf

\* remove_client() takes a client out, wherever it is.
Unlinked(h, t, pv, nx, L, n, s, j, c) ==
  ListOf(IF pv[c] = None THEN nx[c] ELSE h,
         IF nx[c] = None THEN pv[c] ELSE t,
         [d \in Clients |-> IF d = nx[c] THEN pv[c] ELSE pv[d]],
         [d \in Clients |-> IF d = pv[c] THEN nx[c] ELSE nx[d]],
         L \ {c}, n - 1,
         [i \in 1 .. n - 1 |-> IF i < j THEN s[i] ELSE s[i + 1]])

LEMMA ListUnlink ==
  ASSUME NEW h, NEW t, NEW L,
         NEW pv \in [Clients -> Clients \cup {None}],
         NEW nx \in [Clients -> Clients \cup {None}],
         NEW n \in Nat, NEW s, ListOf(h, t, pv, nx, L, n, s),
         NEW j \in 1 .. n, NEW c, c = s[j]
  PROVE  Unlinked(h, t, pv, nx, L, n, s, j, c)
<1> DEFINE nw == [d \in Clients |-> IF d = pv[c] THEN nx[c] ELSE nx[d]]
           pw == [d \in Clients |-> IF d = nx[c] THEN pv[c] ELSE pv[d]]
           hw == IF pv[c] = None THEN nx[c] ELSE h
           tw == IF nx[c] = None THEN pv[c] ELSE t
           u  == [i \in 1 .. n - 1 |-> IF i < j THEN s[i] ELSE s[i + 1]]
<1>1. /\ \A i \in 1 .. n : s[i] \in Clients /\ s[i] # None
      /\ \A i, k \in 1 .. n : s[i] = s[k] => i = k
  BY NoneApart DEF ListOf
<1>2. /\ nx[c] = IF j = n THEN None ELSE s[j + 1]
      /\ pv[c] = IF j = 1 THEN None ELSE s[j - 1]
      /\ h = s[1] /\ t = s[n]
  BY DEF ListOf
<1>3. \A i \in 1 .. n - 1 :
        /\ i < j => i \in 1 .. n /\ u[i] = s[i]
        /\ ~(i < j) => i + 1 \in 1 .. n /\ u[i] = s[i + 1]
  OBVIOUS
<1>4. u \in [1 .. n - 1 -> Clients]
  BY <1>1
<1>5. \A i, k \in 1 .. n - 1 : u[i] = u[k] => i = k
  BY <1>1, <1>3
<1>6. L \ {c} = {u[i] : i \in 1 .. n - 1}
  <2>1. L = {s[i] : i \in 1 .. n}
    BY DEF ListOf
  <2>2. ASSUME NEW x \in L \ {c} PROVE \E i \in 1 .. n - 1 : x = u[i]
    <3>1. PICK i \in 1 .. n : x = s[i]
      BY <2>1
    <3>2. i # j
      BY <2>2, <3>1
    <3>3. CASE i < j
      BY <1>3, <3>1, <3>3
    <3>4. CASE i > j
      <4>1. i - 1 \in 1 .. n - 1 /\ ~(i - 1 < j) /\ (i - 1) + 1 = i
        BY <3>4
      <4> QED
        BY <1>3, <3>1, <4>1
    <3> QED
      BY <3>2, <3>3, <3>4
  <2>3. ASSUME NEW i \in 1 .. n - 1 PROVE u[i] \in L \ {c}
    <3>1. PICK k \in 1 .. n : k # j /\ u[i] = s[k]
      BY <1>3
    <3> QED
      BY <1>1, <2>1, <3>1
  <2> QED
    BY <2>2, <2>3
<1>7. hw = IF n - 1 = 0 THEN None ELSE u[1]
  <2>1. CASE j = 1
    <3>1. hw = nx[c]
      BY <1>2, <2>1
    <3>2. n # 1 => u[1] = s[2]
      BY <1>3, <2>1
    <3> QED
      BY <1>2, <2>1, <3>1, <3>2
  <2>2. CASE j # 1
    <3>1. j - 1 \in 1 .. n
      BY <2>2
    <3>2. pv[c] # None
      BY <1>1, <1>2, <2>2, <3>1
    <3>3. hw = s[1] /\ n # 1 /\ u[1] = s[1]
      BY <1>2, <1>3, <2>2, <3>2
    <3> QED
      BY <3>3
  <2> QED
    BY <2>1, <2>2
<1>8. tw = IF n - 1 = 0 THEN None ELSE u[n - 1]
  <2>1. CASE j = n
    <3>1. tw = pv[c]
      BY <1>2, <2>1
    <3>2. n # 1 => u[n - 1] = s[n - 1]
      BY <1>3, <2>1
    <3> QED
      BY <1>2, <2>1, <3>1, <3>2
  <2>2. CASE j # n
    <3>1. j + 1 \in 1 .. n
      BY <2>2
    <3>2. nx[c] # None
      BY <1>1, <1>2, <2>2, <3>1
    <3>3. n # 1 /\ n - 1 \in 1 .. n - 1 /\ ~(n - 1 < j) /\ (n - 1) + 1 = n
      BY <2>2
    <3>4. tw = s[n] /\ u[n - 1] = s[n]
      BY <1>2, <1>3, <3>2, <3>3
    <3> QED
      BY <3>3, <3>4
  <2> QED
    BY <2>1, <2>2
\* The neighbours of a client of the new list.
<1>9. ASSUME NEW i \in 1 .. n - 1
      PROVE  nw[u[i]] = IF i = n - 1 THEN None ELSE u[i + 1]
  <2>1. CASE i = j - 1
    <3>1. i \in 1 .. n /\ u[i] = s[i] /\ j # 1 /\ pv[c] = s[i]
      BY <1>2, <1>3, <2>1
    <3>2. nw[u[i]] = nx[c]
      BY <1>1, <3>1
    <3>3. i # n - 1 => u[i + 1] = s[j + 1]
      BY <1>3, <2>1
    <3> QED
      BY <1>2, <2>1, <3>2, <3>3
  <2>2. CASE i < j - 1
    <3>1. i \in 1 .. n /\ u[i] = s[i] /\ i + 1 \in 1 .. n - 1 /\ u[i + 1] = s[i + 1]
      BY <1>3, <2>2
    <3>2. j # 1 /\ j - 1 \in 1 .. n /\ pv[c] = s[j - 1]
      BY <1>2, <2>2
    <3>3. s[i] # s[j - 1]
      BY <1>1, <2>2, <3>1, <3>2
    <3>4. nw[u[i]] = nx[s[i]]
      BY <1>1, <3>1, <3>2, <3>3
    <3>5. nx[s[i]] = IF i = n THEN None ELSE s[i + 1]
      BY <3>1 DEF ListOf
    <3> QED
      BY <2>2, <3>1, <3>4, <3>5
  <2>3. CASE i >= j
    <3>1. ~(i < j)
      BY <2>3
    <3>2. i + 1 \in 1 .. n /\ u[i] = s[i + 1]
      BY <1>3, <3>1
    <3>3. pv[c] # s[i + 1]
      <4>1. CASE j = 1
        BY <1>1, <1>2, <3>2, <4>1
      <4>2. CASE j # 1
        <5>1. j - 1 \in 1 .. n /\ j - 1 # i + 1
          BY <2>3, <4>2
        <5> QED
          BY <1>1, <1>2, <3>2, <4>2, <5>1
      <4> QED
        BY <4>1, <4>2
    <3>4. nw[u[i]] = nx[s[i + 1]]
      BY <1>1, <3>2, <3>3
    <3>5. nx[s[i + 1]] = IF i + 1 = n THEN None ELSE s[(i + 1) + 1]
      BY <3>2 DEF ListOf
    <3>6. i # n - 1 => u[i + 1] = s[(i + 1) + 1]
      <4>1. i # n - 1 => i + 1 \in 1 .. n - 1 /\ ~(i + 1 < j)
        BY <2>3
      <4> QED
        BY <1>3, <4>1
    <3>7. i + 1 = n <=> i = n - 1
      OBVIOUS
    <3> QED
      BY <3>4, <3>5, <3>6, <3>7
  <2> QED
    BY <2>1, <2>2, <2>3
<1>10. ASSUME NEW i \in 1 .. n - 1
       PROVE  pw[u[i]] = IF i = 1 THEN None ELSE u[i - 1]
  <2>1. CASE i = j
    <3>1. i + 1 \in 1 .. n /\ u[i] = s[i + 1] /\ j # n /\ nx[c] = s[i + 1]
      BY <1>2, <1>3, <2>1
    <3>2. pw[u[i]] = pv[c]
      BY <1>1, <3>1
    <3>3. i # 1 => u[i - 1] = s[j - 1]
      BY <1>3, <2>1
    <3> QED
      BY <1>2, <2>1, <3>2, <3>3
  <2>2. CASE i > j
    <3>1. ~(i < j) /\ i # 1 /\ i - 1 \in 1 .. n - 1 /\ ~(i - 1 < j)
      BY <2>2
    <3>2. i + 1 \in 1 .. n /\ u[i] = s[i + 1] /\ u[i - 1] = s[(i - 1) + 1]
      BY <1>3, <3>1
    <3>3. nx[c] # s[i + 1]
      <4>1. CASE j = n
        BY <1>1, <1>2, <3>2, <4>1
      <4>2. CASE j # n
        <5>1. j + 1 \in 1 .. n /\ j + 1 # i + 1
          BY <2>2, <4>2
        <5> QED
          BY <1>1, <1>2, <3>2, <4>2, <5>1
      <4> QED
        BY <4>1, <4>2
    <3>4. pw[u[i]] = pv[s[i + 1]]
      BY <1>1, <3>2, <3>3
    <3>5. pv[s[i + 1]] = IF i + 1 = 1 THEN None ELSE s[(i + 1) - 1]
      BY <3>2 DEF ListOf
    <3>6. i + 1 # 1 /\ (i + 1) - 1 = (i - 1) + 1
      OBVIOUS
    <3>7. pw[u[i]] = u[i - 1]
      BY <3>2, <3>4, <3>5, <3>6
    <3> QED
      BY <3>1, <3>7
  <2>3. CASE i < j
    <3>1. i \in 1 .. n /\ u[i] = s[i]
      BY <1>3, <2>3
    <3>2. nx[c] # s[i]
      <4>1. CASE j = n
        BY <1>1, <1>2, <3>1, <4>1
      <4>2. CASE j # n
        <5>1. j + 1 \in 1 .. n /\ j + 1 # i
          BY <2>3, <4>2
        <5> QED
          BY <1>1, <1>2, <3>1, <4>2, <5>1
      <4> QED
        BY <4>1, <4>2
    <3>3. pw[u[i]] = pv[s[i]]
      BY <1>1, <3>1, <3>2
    <3>4. pv[s[i]] = IF i = 1 THEN None ELSE s[i - 1]
      BY <3>1 DEF ListOf
    <3>5. i # 1 => u[i - 1] = s[i - 1]
      <4>1. i # 1 => i - 1 \in 1 .. n - 1 /\ i - 1 < j
        BY <2>3
      <4> QED
        BY <1>3, <4>1
    <3> QED
      BY <3>1, <3>3, <3>4, <3>5
  <2> QED
    BY <2>1, <2>2, <2>3
<1> QED
  BY <1>4, <1>5, <1>6, <1>7, <1>8, <1>9, <1>10 DEF Unlinked, ListOf

\* A set of numbers has a least element.
LEMMA LeastElement ==
  ASSUME NEW S \in SUBSET Nat, S # {}
  PROVE  Min(S) \in S /\ \A y \in S : Min(S) <= y
<1>1. PICK x \in S : \A y \in S : ~(<<y, x>> \in OpToRel(<, Nat))
  BY WFMin, NatLessThanWellFounded
<1>2. ASSUME NEW y \in S PROVE x <= y
  <2>1. <<y, x>> \in Nat \X Nat
    OBVIOUS
  <2>2. ~(<<y, x>>[1] < <<y, x>>[2])
    BY <1>1, <2>1 DEF OpToRel
  <2> QED
    BY <2>2
<1> QED
  BY <1>2 DEF Min

\* The list has no more clients than there are.
LEMMA ChainBound ==
  ASSUME NEW n \in Nat, NEW s, Chain(n, s)
  PROVE  /\ Cardinality(Clients) \in Nat
         /\ n <= Cardinality(Clients)
<1> DEFINE T == {s[i] : i \in 1 .. n}
<1>1. IsFiniteSet(Clients) /\ Cardinality(Clients) \in Nat
  BY EventAssumption, FS_CardinalityType
<1>2. IsFiniteSet(1 .. n) /\ Cardinality(1 .. n) = n
  BY FS_Interval
<1>3. s \in [1 .. n -> Clients] /\ \A i, j \in 1 .. n : s[i] = s[j] => i = j
  BY DEF Chain, ListOf
<1>4. s \in Bijection(1 .. n, T)
  <2>1. s \in [1 .. n -> T] /\ \A i, j \in DOMAIN s : s[i] = s[j] => i = j
    BY <1>3
  <2>2. \A t \in T : \E i \in 1 .. n : s[i] = t
    OBVIOUS
  <2> QED
    BY <2>1, <2>2 DEF Bijection, Injection, Surjection, IsInjective
<1>5. IsFiniteSet(T) /\ Cardinality(T) = n
  BY <1>2, <1>4, FS_Bijection DEF ExistsBijection
<1>6. T \subseteq Clients
  BY <1>3
<1>7. n <= Cardinality(Clients)
  BY <1>1, <1>5, <1>6, FS_Subset
<1> QED
  BY <1>1, <1>7

\* The walk of search_client() goes through the clients of the list, in
\* order, and stays at null.
LEMMA ChainWalk ==
  ASSUME NEW n \in Nat, NEW s, Chain(n, s)
  PROVE  FromHead =
           [k \in 0 .. Cardinality(Clients) |->
              IF k < n THEN s[k + 1] ELSE None]
<1> DEFINE m == Cardinality(Clients)
           Walk(g) ==
             [k \in 0 .. m |-> IF k = 0 THEN head
                               ELSE IF g[k - 1] = None THEN None
                               ELSE next[g[k - 1]]]
           F == [k \in 0 .. m |-> IF k < n THEN s[k + 1] ELSE None]
           W == FromHead
<1>0. /\ m \in Nat
      /\ \A i \in 1 .. n : s[i] # None
  <2>1. m \in Nat
    BY ChainBound, Zenon
  <2> QED
    BY <2>1, NoneApart DEF Chain, ListOf
<1>2. F = Walk(F) => W = Walk(W)
  BY Zenon DEF FromHead
<1> HIDE DEF m
<1>1. F = Walk(F)
  <2> SUFFICES ASSUME NEW k \in 0 .. m PROVE F[k] = Walk(F)[k]
    OBVIOUS
  <2>1. CASE k = 0
    BY <2>1 DEF Chain, ListOf
  <2>2. CASE k # 0 /\ k - 1 < n
    <3>1. k \in 1 .. n /\ F[k - 1] = s[k]
      BY <1>0, <2>2
    <3>2. Walk(F)[k] = next[s[k]]
      BY <1>0, <2>2, <3>1
    <3>3. next[s[k]] = IF k = n THEN None ELSE s[k + 1]
      BY <3>1 DEF Chain, ListOf
    <3> QED
      BY <3>1, <3>2, <3>3
  <2>3. CASE k # 0 /\ ~(k - 1 < n)
    BY <1>0, <2>3
  <2> QED
    BY <2>1, <2>2, <2>3
<1> HIDE DEF W
<1>3. \A k \in 0 .. m : W[k] = F[k]
  <2> DEFINE Differs == {k \in 0 .. m : W[k] # F[k]}
  <2> SUFFICES ASSUME Differs # {} PROVE FALSE
    OBVIOUS
  <2>0. Differs \in SUBSET Nat
    BY <1>0
  <2> HIDE DEF Differs
  <2>1. PICK k \in Differs : \A j \in Differs : k <= j
    BY <2>0, LeastElement
  <2> USE DEF Differs
  <2>2. W[k] = Walk(W)[k] /\ F[k] = Walk(F)[k]
    <3> HIDE DEF F
    <3> QED
      BY <1>1, <1>2, <2>1
  <2>3. CASE k = 0
    BY <2>1, <2>2, <2>3
  <2>4. CASE k # 0
    <3>1. k - 1 \in 0 .. m /\ k - 1 \notin Differs
      BY <1>0, <2>1, <2>4
    <3>2. W[k - 1] = F[k - 1]
      BY <3>1
    <3> HIDE DEF F
    <3> QED
      BY <2>1, <2>2, <2>4, <3>2
  <2> QED
    BY <2>3, <2>4
<1> HIDE DEF F
<1>4. W = F
  BY <1>1, <1>2, <1>3 DEF F
<1> QED
  BY <1>4 DEF F, W, m

\* A chain is a list that is whole.
LEMMA ChainWhole ==
  ASSUME NEW n \in Nat, NEW s, Chain(n, s)
  PROVE  ListWhole
<1> DEFINE m == Cardinality(Clients)
           F == [k \in 0 .. m |-> IF k < n THEN s[k + 1] ELSE None]
<1>1. FromHead = F /\ m \in Nat /\ n <= m
  BY ChainWalk, ChainBound
<1>2. \A i \in 1 .. n : s[i] # None
  BY NoneApart DEF Chain, ListOf
<1>3. Listed = {FromHead[k] : k \in DOMAIN FromHead} \ {None}
  <2> HIDE DEF m
  <2>1. \A i \in 1 .. n : i - 1 \in DOMAIN F /\ F[i - 1] = s[i]
    BY <1>1
  <2>2. \A k \in DOMAIN F : F[k] # None => k + 1 \in 1 .. n /\ F[k] = s[k + 1]
    BY <1>1
  <2>3. Listed = {s[i] : i \in 1 .. n}
    BY DEF Chain, ListOf
  <2> HIDE DEF F
  <2> QED
    BY <1>1, <1>2, <2>1, <2>2, <2>3
<1>4. (head = None) = (tail = None)
  BY <1>2 DEF Chain, ListOf
<1>5. head # None => prev[head] = None
  BY DEF Chain, ListOf
<1>6. ASSUME NEW c \in Listed
      PROVE  IF next[c] = None THEN c = tail ELSE prev[next[c]] = c
  <2>1. PICK i \in 1 .. n : c = s[i]
    BY DEF Chain, ListOf
  <2>2. CASE i = n
    BY <2>1, <2>2 DEF Chain, ListOf
  <2>3. CASE i # n
    <3>1. i + 1 \in 1 .. n /\ next[c] = s[i + 1] /\ s[i + 1] # None
      BY <1>2, <2>1, <2>3 DEF Chain, ListOf
    <3>2. prev[s[i + 1]] = s[i]
      BY <3>1 DEF Chain, ListOf
    <3> QED
      BY <2>1, <3>1, <3>2
  <2> QED
    BY <2>2, <2>3
<1> QED
  BY <1>3, <1>4, <1>5, <1>6 DEF ListWhole

\* remove_client(-1) takes a finished client of the list, and there is one as
\* long as a client of the list is finished.
LEMMA FinishedFound ==
  ASSUME NEW n \in Nat, NEW s, Chain(n, s)
  PROVE  /\ FinishedPlaces # {} =>
              \E j \in 1 .. n : /\ FromHead[Min(FinishedPlaces)] = s[j]
                                /\ ~client[s[j]].open
         /\ FinishedPlaces = {} => \A c \in Listed : client[c].open
<1> DEFINE m == Cardinality(Clients)
           F == [k \in 0 .. m |-> IF k < n THEN s[k + 1] ELSE None]
<1>1. FromHead = F /\ m \in Nat /\ n <= m
  BY ChainWalk, ChainBound
<1> HIDE DEF m
<1>2. \A k \in DOMAIN F : F[k] # None => k + 1 \in 1 .. n /\ F[k] = s[k + 1]
  BY <1>1
<1>3. \A i \in 1 .. n : i - 1 \in DOMAIN F /\ F[i - 1] = s[i] /\ s[i] # None
  BY <1>1, NoneApart DEF Chain, ListOf
<1>4. FinishedPlaces \in SUBSET Nat
  BY <1>1 DEF FinishedPlaces
<1> HIDE DEF F
<1>5. ASSUME FinishedPlaces # {}
      PROVE  \E j \in 1 .. n : /\ FromHead[Min(FinishedPlaces)] = s[j]
                               /\ ~client[s[j]].open
  <2>1. Min(FinishedPlaces) \in FinishedPlaces
    BY <1>4, <1>5, LeastElement
  <2> DEFINE k == Min(FinishedPlaces)
  <2>2. k \in DOMAIN F /\ F[k] # None /\ ~client[F[k]].open
    BY <1>1, <2>1 DEF FinishedPlaces
  <2> HIDE DEF k
  <2>3. k + 1 \in 1 .. n /\ F[k] = s[k + 1]
    BY <1>2, <2>2
  <2> QED
    BY <1>1, <2>2, <2>3 DEF k
<1>6. ASSUME FinishedPlaces = {}, NEW c \in Listed PROVE client[c].open
  <2>1. PICK i \in 1 .. n : c = s[i]
    BY DEF Chain, ListOf
  <2>2. i - 1 \notin FinishedPlaces
    BY <1>6
  <2> QED
    BY <1>1, <1>3, <2>1, <2>2 DEF FinishedPlaces
<1> QED
  BY <1>5, <1>6

-----------------------------------------------------------------------------
(* The steps of the server.                                                *)

Data == Accounts /\ Intact /\ Unused /\ Counted

\* A step that leaves the clients' fields alone and gives no place back.
LEMMA DataKept ==
  ASSUME Data,
         UNCHANGED <<client, sent, operations_completed, fileSize, readable>>,
         \A c \in Clients :
           /\ stage'[c] = "none" => stage[c] = "none"
           /\ stage'[c] = "freed" => stage[c] = "freed" \/ ~client[c].open
  PROVE  Data'
BY DEF Data, Accounts, Intact, Unused, Counted, Served, Whole

LEMMA ListKept ==
  ASSUME Chained, UNCHANGED listVars
  PROVE  Chained'
BY DEF Chained, Chain, Listed, listVars

LEMMA ServedFinite ==
  IsFiniteSet(Served) /\ Cardinality(Served) \in Nat
<1>1. Served \subseteq Clients
  BY DEF Served
<1>2. IsFiniteSet(Served)
  BY <1>1, EventAssumption, FS_Subset
<1> QED
  BY <1>2, FS_CardinalityType

\* The turn of a client keeps all accounts.
LEMMA DataTurned ==
  ASSUME Typed, Data, NEW g \in ClientFields, NEW k \in Int, NEW r \in Nat,
         Turned(g, k, r)
  PROVE  Typed' /\ Data' /\ UNCHANGED listVars /\ pc' = "handle"
<1> DEFINE c == current
<1>1. /\ pc = "handle" /\ c \in Clients /\ client[c].open
      /\ client' = [client EXCEPT ![c] = g]
      /\ sent' = [sent EXCEPT ![c] = k]
      /\ readable' = [readable EXCEPT ![c] = r]
      /\ Account(g, r, k) /\ Unbroken(g, fileSize[c], r)
      /\ operations_completed' =
           operations_completed + (IF ~g.open /\ g.status = "OK" THEN 1 ELSE 0)
      /\ current' = next[c]
      /\ UNCHANGED listVars
      /\ fileSize' = fileSize /\ done' = done /\ pc' = pc
  BY DEF Turned
<1>2. /\ head' = head /\ tail' = tail /\ prev' = prev /\ next' = next
      /\ stage' = stage
  BY <1>1 DEF listVars
<1>3. /\ client' \in [Clients -> ClientFields] /\ sent' \in [Clients -> Int]
      /\ current' \in Clients \cup {None}
      /\ \A d \in Clients : client'[d] = IF d = c THEN g ELSE client[d]
      /\ \A d \in Clients : sent'[d] = IF d = c THEN k ELSE sent[d]
      /\ readable' \in [Clients -> Nat]
      /\ \A d \in Clients : readable'[d] = IF d = c THEN r ELSE readable[d]
  BY <1>1 DEF Typed
<1>4. operations_completed' \in Nat
  BY <1>1 DEF Typed
<1>5. Typed'
  BY <1>1, <1>2, <1>3, <1>4 DEF Typed
<1>6. Accounts'
  <2> SUFFICES ASSUME NEW d \in Clients
               PROVE  Account(client'[d], readable'[d], sent'[d])
    BY DEF Accounts
  <2> QED
    BY <1>1, <1>3 DEF Data, Accounts
<1>9. Intact'
  BY <1>1, <1>3 DEF Data, Intact
<1>7. Unused'
  <2>1. stage[c] # "none" /\ stage[c] # "freed"
    <3>1. ~NewClient(FALSE).open
      BY DEF NewClient
    <3> QED
      BY <1>1, <3>1 DEF Data, Unused
  <2> QED
    BY <1>1, <1>2, <1>3, <2>1 DEF Data, Unused
<1>8. Counted'
  <2>1. c \notin Served
    BY <1>1 DEF Served
  <2>2. CASE ~g.open /\ g.status = "OK"
    <3>1. k = HeaderSize + r
      BY <2>2 DEF Turned, Turn, Fails, Reads, Chooses, Delivers, Completes, Cuts
    <3>2. Served' = Served \cup {c}
      BY <1>1, <1>3, <2>2, <3>1 DEF Served, Whole
    <3>3. Cardinality(Served \cup {c}) = Cardinality(Served) + 1
      BY <2>1, ServedFinite, FS_AddElement
    <3> QED
      BY <1>1, <2>2, <3>2, <3>3 DEF Data, Counted
  <2>3. CASE ~(~g.open /\ g.status = "OK")
    <3>1. Served' = Served
      BY <1>1, <1>3, <2>1, <2>3 DEF Served, Whole
    <3>2. operations_completed' = operations_completed
      BY <1>1, <2>3 DEF Typed
    <3> QED
      BY <3>1, <3>2 DEF Data, Counted
  <2> QED
    BY <2>2, <2>3
<1> QED
  BY <1>1, <1>5, <1>6, <1>7, <1>8, <1>9 DEF Data

\* A connection, or a failed accept(), is put in front of the list.
LEMMA AcceptStep ==
  ASSUME Typed, Data, Chained, Accept
  PROVE  Typed' /\ Data' /\ Chained' /\ pc' = "handle"
<1>1. PICK c \in Clients, open \in BOOLEAN :
        /\ stage[c] = "none"
        /\ Insert(c)
        /\ stage' = [stage EXCEPT ![c] = "listed"]
        /\ client' = [client EXCEPT ![c] = NewClient(open)]
  BY DEF Accept
<1>2. /\ pc' = "handle" /\ current' = head' /\ sent' = sent
      /\ operations_completed' = operations_completed
      /\ fileSize' = fileSize /\ readable' = readable /\ done' = done
  BY DEF Accept, peerVars
<1>3. NewClient(open) \in ClientFields
  <2>1. fileSize[c] \in Nat
    BY DEF Typed
  <2> QED
    BY <2>1, FieldsNew
<1>4. /\ client' \in [Clients -> ClientFields]
      /\ \A d \in Clients :
           client'[d] = IF d = c THEN NewClient(open) ELSE client[d]
  BY <1>1, <1>3 DEF Typed
<1>5. Typed'
  <2>1. /\ head' \in Clients \cup {None} /\ tail' \in Clients \cup {None}
        /\ current' \in Clients \cup {None}
    BY <1>1, <1>2 DEF Insert, Typed
  <2>2. /\ prev' \in [Clients -> Clients \cup {None}]
        /\ next' \in [Clients -> Clients \cup {None}]
    BY <1>1 DEF Insert, Typed
  <2>3. stage' \in [Clients -> {"none", "listed", "freed"}]
    BY <1>1 DEF Typed
  <2> QED
    BY <1>2, <1>4, <2>1, <2>2, <2>3 DEF Typed
<1>6. Data'
  <2>0. client[c] = NewClient(FALSE) /\ sent[c] = 0 /\ readable[c] = fileSize[c]
    BY <1>1 DEF Data, Unused
  <2>1. Accounts'
    <3> SUFFICES ASSUME NEW d \in Clients
                 PROVE  Account(client'[d], readable'[d], sent'[d])
      BY DEF Accounts
    <3>1. CASE d = c
      <4>1. readable[c] \in Nat
        BY DEF Typed
      <4>2. Account(NewClient(open), readable[c], 0)
        BY <4>1, FieldsNew
      <4> QED
        BY <1>2, <1>4, <2>0, <3>1, <4>2
    <3>2. CASE d # c
      BY <1>2, <1>4, <3>2 DEF Data, Accounts
    <3> QED
      BY <3>1, <3>2
  <2>2. Unused'
    <3> SUFFICES ASSUME NEW d \in Clients
                 PROVE  /\ stage'[d] = "none" =>
                             /\ client'[d] = NewClient(FALSE) /\ sent'[d] = 0
                             /\ readable'[d] = fileSize'[d]
                        /\ stage'[d] = "freed" => ~client'[d].open
      BY DEF Unused
    <3>1. stage'[d] = IF d = c THEN "listed" ELSE stage[d]
      BY <1>1 DEF Typed
    <3> QED
      BY <1>2, <1>4, <3>1 DEF Data, Unused
  <2>3. Counted'
    <3>1. 0 # HeaderSize + readable[c]
      BY SizeTypes DEF Typed
    <3>2. ~Whole(c) /\ ~Whole(c)'
      BY <1>2, <2>0, <3>1 DEF Whole
    <3>3. Served' = Served
      BY <1>2, <1>4, <3>2 DEF Served, Whole
    <3> QED
      BY <1>2, <3>3 DEF Data, Counted
  <2>4. Intact'
    BY <1>2, <1>4, <2>0 DEF Data, Intact, Unbroken
  <2> QED
    BY <2>1, <2>2, <2>3, <2>4 DEF Data
<1>7. Chained'
  <2>1. PICK n \in Nat : \E s \in [1 .. n -> Clients] : Chain(n, s)
    BY DEF Chained
  <2>2. PICK s \in [1 .. n -> Clients] : Chain(n, s)
    BY <2>1
  <2> DEFINE u == [i \in 1 .. n + 1 |-> IF i = 1 THEN c ELSE s[i - 1]]
  <2>3. /\ head' = c
        /\ tail' = IF tail = None THEN c ELSE tail
        /\ prev' = [d \in Clients |-> IF d = c THEN None
                                      ELSE IF d = head THEN c ELSE prev[d]]
        /\ next' = [next EXCEPT ![c] = head]
    BY <1>1 DEF Insert
  <2>4. /\ prev \in [Clients -> Clients \cup {None}]
        /\ next \in [Clients -> Clients \cup {None}]
        /\ c \notin Listed
    BY <1>1 DEF Typed, Listed
  <2>5. ListOf(c, tail', prev', next', Listed \cup {c}, n + 1, u)
    <3>1. ListOf(head, tail, prev, next, Listed, n, s)
      BY <2>2 DEF Chain
    <3>2. Inserted(head, tail, prev, next, Listed, n, s, c)
      BY <2>4, <3>1, ListInsert
    <3> QED
      BY <2>3, <3>2 DEF Inserted
  <2>6. Listed' = Listed \cup {c}
    BY <1>1 DEF Listed, Typed
  <2> HIDE DEF u
  <2>7. Chain(n + 1, u)'
    BY <2>3, <2>5, <2>6 DEF Chain
  <2>8. u \in [1 .. n + 1 -> Clients]
    BY <2>5 DEF ListOf
  <2> QED
    BY <2>7, <2>8 DEF Chained
<1> QED
  BY <1>2, <1>5, <1>6, <1>7

\* A finished client is taken off the list.
LEMMA RemoveStep ==
  ASSUME Typed, Data, Chained, NEW again \in {"remove"}, Remove(again)
  PROVE  Typed' /\ Data' /\ Chained' /\ pc' = "remove"
<1>1. PICK n \in Nat : \E s \in [1 .. n -> Clients] : Chain(n, s)
  BY DEF Chained
<1>2. PICK s \in [1 .. n -> Clients] : Chain(n, s)
  BY <1>1
<1>3. PICK j \in 1 .. n : /\ FromHead[Min(FinishedPlaces)] = s[j]
                          /\ ~client[s[j]].open
  BY <1>2, FinishedFound DEF Remove
<1> DEFINE c == s[j]
<1>4. /\ Unlink(c)
      /\ stage' = [stage EXCEPT ![c] = "freed"]
      /\ pc' = "remove"
      /\ client' = client /\ sent' = sent
      /\ operations_completed' = operations_completed
      /\ fileSize' = fileSize /\ readable' = readable
      /\ current' = current /\ done' = done
  BY <1>3 DEF Remove, dataVars, peerVars
<1>5. c \in Clients /\ ~client[c].open
  BY <1>3
<1>6. /\ next' = [d \in Clients |-> IF d = prev[c] THEN next[c] ELSE next[d]]
      /\ prev' = [d \in Clients |-> IF d = next[c] THEN prev[c] ELSE prev[d]]
      /\ head' = IF prev[c] = None THEN next[c] ELSE head
      /\ tail' = IF next[c] = None THEN prev[c] ELSE tail
  BY <1>4 DEF Unlink
<1>7. /\ prev \in [Clients -> Clients \cup {None}]
      /\ next \in [Clients -> Clients \cup {None}]
  BY DEF Typed
<1>8. Chained'
  <2> DEFINE u == [i \in 1 .. n - 1 |-> IF i < j THEN s[i] ELSE s[i + 1]]
  <2>1. ListOf(head', tail', prev', next', Listed \ {c}, n - 1, u)
    <3>1. ListOf(head, tail, prev, next, Listed, n, s)
      BY <1>2 DEF Chain
    <3>2. c = s[j]
      OBVIOUS
    <3> HIDE DEF c
    <3>3. Unlinked(head, tail, prev, next, Listed, n, s, j, c)
      BY <1>7, <3>1, <3>2, ListUnlink
    <3> QED
      BY <1>6, <3>3 DEF Unlinked
  <2>2. Listed' = Listed \ {c}
    BY <1>4 DEF Listed, Typed
  <2>3. n - 1 \in Nat
    OBVIOUS
  <2> HIDE DEF u
  <2>4. Chain(n - 1, u)'
    BY <2>1, <2>2 DEF Chain
  <2>5. u \in [1 .. n - 1 -> Clients]
    BY <2>1 DEF ListOf
  <2> QED
    BY <2>3, <2>4, <2>5 DEF Chained
<1> HIDE DEF c
<1>9. Typed'
  <2>1. /\ next[c] \in Clients \cup {None} /\ prev[c] \in Clients \cup {None}
    BY <1>5, <1>7
  <2>2. /\ head' \in Clients \cup {None} /\ tail' \in Clients \cup {None}
    BY <1>6, <2>1 DEF Typed
  <2>3. /\ prev' \in [Clients -> Clients \cup {None}]
        /\ next' \in [Clients -> Clients \cup {None}]
    BY <1>6, <1>7, <2>1
  <2>4. stage' \in [Clients -> {"none", "listed", "freed"}]
    BY <1>4 DEF Typed
  <2>5. /\ client' \in [Clients -> ClientFields] /\ sent' \in [Clients -> Int]
        /\ fileSize' \in [Clients -> Nat] /\ readable' \in [Clients -> Nat]
        /\ operations_completed' \in Nat /\ done' \in BOOLEAN
        /\ current' \in Clients \cup {None}
    BY <1>4 DEF Typed
  <2> QED
    BY <1>4, <2>2, <2>3, <2>4, <2>5 DEF Typed
<1>10. Data'
  <2>1. \A d \in Clients :
          /\ stage'[d] = "none" => stage[d] = "none"
          /\ stage'[d] = "freed" => stage[d] = "freed" \/ ~client[d].open
    BY <1>4, <1>5 DEF Typed
  <2> QED
    BY <1>4, <2>1, DataKept
<1> QED
  BY <1>4, <1>8, <1>9, <1>10

\* Every other step leaves the clients' fields and the list alone.
LEMMA OtherStep ==
  ASSUME Typed, Data, Chained,
         UNCHANGED listVars, UNCHANGED dataVars, UNCHANGED peerVars,
         current' \in Clients \cup {None}, done' \in BOOLEAN,
         pc' \in {"test", "accept", "handle", "remove", "ended"}
  PROVE  Typed' /\ Data' /\ Chained'
<1>1. Typed'
  BY DEF Typed, listVars, dataVars, peerVars
<1>2. Data'
  BY DataKept DEF listVars, dataVars, peerVars
<1>3. Chained'
  BY ListKept
<1> QED
  BY <1>1, <1>2, <1>3

LEMMA Start == Init => IInv
<1> SUFFICES ASSUME Init
             PROVE  IInv
  OBVIOUS
<1>1. NewClient(FALSE) \in ClientFields
  BY FieldsNew, 0 \in Nat
<1>2. fileSize \in [Clients -> Nat] /\ readable = fileSize
  BY EventAssumption DEF Init
<1>3. Typed
  <2>1. client \in [Clients -> ClientFields]
    <3>1. client = [c \in Clients |-> NewClient(FALSE)]
      BY DEF Init
    <3> QED
      BY <1>1, <3>1, Zenon
  <2>2. done \in BOOLEAN
    BY Zenon DEF Init
  <2>3. /\ {head, tail, current} \subseteq Clients \cup {None}
        /\ prev \in [Clients -> Clients \cup {None}]
        /\ next \in [Clients -> Clients \cup {None}]
        /\ stage \in [Clients -> {"none", "listed", "freed"}]
        /\ sent \in [Clients -> Int]
        /\ operations_completed \in Nat
        /\ pc \in {"test", "accept", "handle", "remove", "ended"}
    BY DEF Init
  <2> QED
    BY <1>2, <2>1, <2>2, <2>3 DEF Typed
<1>4. Accounts
  <2> SUFFICES ASSUME NEW c \in Clients
               PROVE  Account(client[c], readable[c], sent[c])
    BY DEF Accounts
  <2>1. client[c] = NewClient(FALSE) /\ sent[c] = 0 /\ readable[c] \in Nat
    BY <1>2 DEF Init
  <2>2. Account(NewClient(FALSE), readable[c], 0)
    BY <2>1, FieldsNew
  <2> QED
    BY <2>1, <2>2
<1>5. Unused
  BY DEF Init, Unused
<1>6. Counted
  <2>1. \A c \in Clients : ~Whole(c)
    <3> SUFFICES ASSUME NEW c \in Clients
                 PROVE  ~Whole(c)
      OBVIOUS
    <3>1. sent[c] = 0 /\ readable[c] \in Nat
      BY <1>2 DEF Init
    <3> QED
      BY <3>1, SizeTypes DEF Whole
  <2>2. Served = {}
    BY <2>1 DEF Served
  <2> QED
    BY <2>2, FS_EmptySet DEF Init, Counted
<1>7. Chained
  <2> DEFINE s == [i \in 1 .. 0 |-> None]
  <2>1. s \in [1 .. 0 -> Clients]
    OBVIOUS
  <2>2. Listed = {}
    BY DEF Init, Listed
  <2>3. Chain(0, s)
    BY <2>1, <2>2 DEF Init, Chain, ListOf
  <2> HIDE DEF s
  <2> QED
    BY <2>1, <2>3 DEF Chained
<1>8. GoneByNextRound
  BY DEF Init, GoneByNextRound, Listed
<1>9. Intact
  BY <1>2 DEF Intact, Unbroken
<1> QED
  BY <1>3, <1>4, <1>5, <1>6, <1>7, <1>8, <1>9 DEF IInv, Data

LEMMA StepKeeps == IInv /\ [Next]_vars => IInv'
<1> SUFFICES ASSUME IInv, [Next]_vars
             PROVE  IInv'
  OBVIOUS
<1>0. Typed /\ Data /\ Chained /\ GoneByNextRound
  BY DEF IInv, Data
<1>1. ASSUME Typed', Data', Chained', pc' \notin {"test", "accept"}
      PROVE  IInv'
  BY <1>1 DEF IInv, Data, GoneByNextRound
<1>2. ASSUME Typed', Data', Chained', UNCHANGED <<client, stage>>,
             pc' = "accept" => pc = "test",
             pc' = "test" => pc = "test" \/ \A c \in Listed : client[c].open
      PROVE  IInv'
  <2>1. GoneByNextRound'
    BY <1>0, <1>2 DEF GoneByNextRound, Listed
  <2> QED
    BY <1>2, <2>1 DEF IInv, Data
<1>3. CASE WhileTest
  <2>1. Typed' /\ Data' /\ Chained'
    BY <1>0, <1>3, OtherStep DEF WhileTest, Typed
  <2> QED
    BY <1>2, <1>3, <2>1 DEF WhileTest, listVars, dataVars
<1>4. CASE Accept
  <2>1. Typed' /\ Data' /\ Chained' /\ pc' = "handle"
    BY <1>0, <1>4, AcceptStep
  <2> QED
    BY <1>1, <2>1
<1>5. CASE NoConnection
  <2>1. Typed' /\ Data' /\ Chained'
    BY <1>0, <1>5, OtherStep DEF NoConnection, Typed
  <2> QED
    BY <1>1, <1>5, <2>1 DEF NoConnection
<1>6. CASE Sigterm
  <2>1. Typed' /\ Data' /\ Chained'
    BY <1>0, <1>6, OtherStep DEF Sigterm, Typed
  <2>2. GoneByNextRound'
    BY <1>0, <1>6 DEF Sigterm, GoneByNextRound, Listed, listVars, dataVars
  <2> QED
    BY <2>1, <2>2 DEF IInv, Data
<1>7. CASE Shutdown
  <2>1. Typed' /\ Data' /\ Chained'
    BY <1>0, <1>7, OtherStep DEF Shutdown, Typed
  <2> QED
    BY <1>1, <1>7, <2>1 DEF Shutdown
<1>8. CASE NotReady
  <2>1. current \in Clients /\ next[current] \in Clients \cup {None}
    BY <1>0, <1>8 DEF NotReady, Typed
  <2>2. pc' = "handle"
    BY <1>8 DEF NotReady, Advance
  <2>3. Typed' /\ Data' /\ Chained'
    BY <1>0, <1>8, <2>1, <2>2, OtherStep DEF NotReady, Advance, Typed
  <2> QED
    BY <1>1, <2>2, <2>3
<1>9. CASE Handler
  <2>1. PICK g \in ClientFields, k \in Int, r \in Nat : Turned(g, k, r)
    BY <1>0, <1>9, HandlerTurns DEF Data
  <2>2. Typed' /\ Data' /\ UNCHANGED listVars /\ pc' = "handle"
    BY <1>0, <2>1, DataTurned
  <2>3. Chained'
    BY <1>0, <2>2, ListKept
  <2> QED
    BY <1>1, <2>2, <2>3
<1>10. CASE HandledAll
  <2>1. Typed' /\ Data' /\ Chained'
    BY <1>0, <1>10, OtherStep DEF HandledAll, Typed
  <2> QED
    BY <1>1, <1>10, <2>1 DEF HandledAll
<1>11. CASE Remove("remove")
  <2>1. Typed' /\ Data' /\ Chained' /\ pc' = "remove"
    BY <1>0, <1>11, RemoveStep
  <2> QED
    BY <1>1, <2>1
<1>12. CASE RemovedAll
  <2>1. Typed' /\ Data' /\ Chained'
    BY <1>0, <1>12, OtherStep DEF RemovedAll, Typed
  <2>2. \A c \in Listed : client[c].open
    <3>1. PICK n \in Nat : \E s \in [1 .. n -> Clients] : Chain(n, s)
      BY <1>0 DEF Chained
    <3>2. PICK s \in [1 .. n -> Clients] : Chain(n, s)
      BY <3>1
    <3> QED
      BY <1>12, <3>2, FinishedFound DEF RemovedAll
  <2> QED
    BY <1>2, <1>12, <2>1, <2>2 DEF RemovedAll, listVars, dataVars
<1>13. CASE UNCHANGED vars
  <2>1. Typed' /\ Data' /\ Chained'
    BY <1>0, <1>13, OtherStep DEF vars, Typed
  <2>2. GoneByNextRound'
    BY <1>0, <1>13 DEF vars, GoneByNextRound, Listed, listVars, dataVars
  <2> QED
    BY <2>1, <2>2 DEF IInv, Data
<1> QED
  BY <1>3, <1>4, <1>5, <1>6, <1>7, <1>8, <1>9, <1>10, <1>11, <1>12, <1>13
     DEF Next, Handler

\* The invariant that the results below rest on.
THEOREM Invariant == Spec => []IInv
BY Start, StepKeeps, PTL DEF Spec

\* The counters of a client stay in its buffer, whatever it was sent.
THEOREM TypeCorrect == Spec => []TypeOK
<1>1. IInv => TypeOK
  <2> SUFFICES ASSUME IInv
               PROVE  TypeOK
    OBVIOUS
  <2>1. ASSUME NEW c \in Clients
        PROVE  /\ client[c].state \in {"recv", "send"}
               /\ client[c].file \in {"none", "open"}
               /\ client[c].status \in {"OK", "BAD", "403", "404"}
               /\ client[c].nread \in 0 .. BufferSize - 1
               /\ client[c].open => /\ client[c].nwritten \in 0 .. BufferSize
                                    /\ client[c].ntowrite \in 0 .. BufferSize
    <3> DEFINE f == client[c]
    <3>1. f \in ClientFields /\ Account(f, readable[c], sent[c])
      BY DEF IInv, Typed, Accounts
    <3> HIDE DEF f
    <3>2. /\ f.state \in {"recv", "send"} /\ f.file \in {"none", "open"}
          /\ f.status \in {"OK", "BAD", "403", "404"}
          /\ f.nread \in 0 .. BufferSize - 1
          /\ f.nwritten \in Int /\ f.ntowrite \in Int
      BY <3>1, FieldTypes
    <3>3. ASSUME f.open
          PROVE  f.nwritten \in 0 .. BufferSize /\ f.ntowrite \in 0 .. BufferSize
      <4>1. CASE f.state = "recv"
        BY <3>1, <3>3, <4>1, SizeTypes DEF Account, Receiving
      <4>2. CASE f.state = "send"
        BY <3>1, <3>2, <3>3, <4>2, SizeTypes DEF Account, Sending
      <4> QED
        BY <3>2, <4>1, <4>2
    <3> QED
      BY <3>2, <3>3 DEF f
  <2> QED
    BY <2>1 DEF IInv, Typed, TypeOK
<1> QED
  BY <1>1, Invariant, PTL

\* The list is whole in both directions after every insertion and removal,
\* and holds the clients not freed, each once.
THEOREM ListAlwaysWhole == Spec => []ListWhole
<1>1. IInv => ListWhole
  <2> SUFFICES ASSUME IInv
               PROVE  ListWhole
    OBVIOUS
  <2>1. PICK n \in Nat : \E s \in [1 .. n -> Clients] : Chain(n, s)
    BY DEF IInv, Chained
  <2>2. PICK s \in [1 .. n -> Clients] : Chain(n, s)
    BY <2>1
  <2> QED
    BY <2>2, ChainWhole
<1> QED
  BY <1>1, Invariant, PTL

\* The loop around remove_client(-1) leaves no finished client to the next
\* round.
THEOREM NoneHandledAgain == Spec => []GoneByNextRound
BY Invariant, PTL DEF IInv

\* base, nwritten and the bytes that the peer received never part.
THEOREM BytesInStep == Spec => []InStep
<1>1. IInv => InStep
  <2> SUFFICES ASSUME IInv, NEW c \in Clients,
                      client[c].open, client[c].state = "send"
               PROVE  sent[c] = client[c].base + client[c].nwritten - 1
    BY DEF InStep
  <2> QED
    BY DEF IInv, Accounts, Account, Sending
<1> QED
  BY <1>1, Invariant, PTL

\* operations_completed is the number of clients that received their file
\* whole, or up to where a read of it failed.
THEOREM CountsWholeReplies == Spec => []CountedWhole
<1>1. IInv => CountedWhole
  <2> SUFFICES ASSUME IInv
               PROVE  CountedWhole
    OBVIOUS
  <2>1. ASSUME NEW c \in Clients, stage[c] = "freed", client[c].status = "OK"
        PROVE  Whole(c) \/ client[c].nread = 0
    <3>1. ~client[c].open
      BY <2>1 DEF IInv, Unused
    <3>2. Ended(client[c], readable[c], sent[c])
      BY <3>1 DEF IInv, Accounts, Account
    <3> QED
      BY <2>1, <3>2 DEF Ended, Whole
  <2> QED
    BY <2>1 DEF IInv, Counted, Served, CountedWhole
<1> QED
  BY <1>1, Invariant, PTL

-----------------------------------------------------------------------------
(* Every client gets a Reply.                                              *)

\* ReplyStage, of the fields of a client.
StageOf(st, f) ==
  IF st = "none" THEN "request"
  ELSE IF f.status = "BAD" THEN "failed"
  ELSE IF f.open
       THEN IF f.state = "recv" THEN "request"
            ELSE IF f.status = "OK" THEN "page" ELSE "notice"
  ELSE IF f.nwritten = 0 /\ f.base = 1 THEN "failed"
  ELSE IF f.status = "OK" THEN "page sent" ELSE "notice sent"

LEMMA StageIs ==
  ASSUME NEW c \in Clients
  PROVE  /\ ReplyStage(c) = StageOf(stage[c], client[c])
         /\ ReplyStage(c)' = StageOf(stage'[c], client'[c])
BY DEF ReplyStage, StageOf

\* A step that does not touch a client, or frees it, is none of its reply.
LEMMA ReplyStutters ==
  ASSUME NEW c \in Clients,
         client'[c] = client[c], sent'[c] = sent[c], fileSize' = fileSize,
         readable'[c] = readable[c],
         (stage'[c] = "none") <=> (stage[c] = "none")
  PROVE  UNCHANGED ReplyOf(c)!vars
<1>1. StageOf(stage'[c], client[c]) = StageOf(stage[c], client[c])
  BY DEF StageOf
<1>2. ReplyStage(c)' = ReplyStage(c)
  BY <1>1, StageIs
<1> QED
  BY <1>2 DEF ReplyOf!vars

\* What the reply of the client at hand does in its turn.
LEMMA ReplyTurns ==
  ASSUME IInv, NEW g \in ClientFields, NEW k \in Int, NEW r \in Nat,
         Turned(g, k, r),
         NEW c, c = current
  PROVE  \/ ReplyOf(c)!Next
         \/ UNCHANGED ReplyOf(c)!vars
<1> DEFINE f == client[c]
           got == sent[c]
           size == readable[c]
<1>1. /\ c \in Clients /\ f \in ClientFields /\ got \in Int /\ size \in Nat
      /\ f.open /\ Account(f, size, got) /\ Account(g, r, k)
      /\ \/ r = size /\ Turn(f, g, got, k, size)
         \/ Cuts(f, g, got, k, fileSize[c], size, r)
  BY DEF Turned, IInv, Typed, Accounts
<1>2. /\ client'[c] = g /\ sent'[c] = k /\ fileSize' = fileSize
      /\ stage' = stage /\ readable'[c] = r
  BY <1>1 DEF Turned, listVars, IInv, Typed
<1>3. stage[c] # "none"
  <2>1. ~NewClient(FALSE).open
    BY DEF NewClient
  <2> QED
    BY <1>1, <2>1 DEF IInv, Unused
<1> DEFINE old == StageOf(stage[c], f)
           new == StageOf(stage[c], g)
<1>4. ReplyStage(c) = old /\ ReplyStage(c)' = new
  BY <1>1, <1>2, StageIs
<1>5. /\ f.status # "BAD"
      /\ f.state = "recv" => old = "request"
      /\ f.state = "send" => old = IF f.status = "OK" THEN "page" ELSE "notice"
  <2>1. f.status # "BAD"
    BY <1>1, FieldTypes DEF Account, Receiving, Sending
  <2> QED
    BY <1>1, <1>3, <2>1 DEF StageOf
<1>6. f.state \in {"recv", "send"} /\ g.status \in {"OK", "BAD", "403", "404"}
  BY <1>1, FieldTypes
<1>7. HeaderSize \in Int /\ HeaderSize >= 1
  BY SizeTypes
<1> HIDE DEF f, got, size, old, new
<1>8. size = readable[c] /\ got = sent[c]
  BY DEF size, got
<1>9. CASE r = size /\ Fails(f, g, got, k)
  <2>1. new = "failed"
    BY <1>3, <1>9 DEF StageOf, Fails, new
  <2>2. old \in {"request", "page", "notice"}
    BY <1>5, <1>6
  <2>3. k = got
    BY <1>9 DEF Fails
  <2>4. ReplyOf(c)!Fail
    BY <1>2, <1>4, <1>8, <1>9, <2>1, <2>2, <2>3 DEF ReplyOf!Fail
  <2> QED
    BY <2>4 DEF ReplyOf!Next
<1>10. CASE r = size /\ Reads(f, g, got, k)
  <2>1. g.status # "BAD"
    BY <1>1, <1>10 DEF Reads, Account, Receiving
  <2>2. new = "request" /\ old = "request"
    BY <1>3, <1>5, <1>10, <2>1 DEF StageOf, Reads, new
  <2>3. UNCHANGED ReplyOf(c)!vars
    BY <1>2, <1>4, <1>8, <1>10, <2>2 DEF Reads, ReplyOf!vars
  <2> QED
    BY <2>3
<1>11. CASE r = size /\ Chooses(f, g, got, k)
  <2>1. g.status # "BAD"
    BY <1>1, <1>11 DEF Chooses, Account, Sending
  <2>2. new \in {"page", "notice"} /\ old = "request"
    BY <1>3, <1>5, <1>11, <2>1 DEF StageOf, Chooses, new
  <2>3. k = got
    BY <1>11 DEF Chooses
  <2>4. ReplyOf(c)!Choose
    BY <1>2, <1>4, <1>8, <1>11, <2>2, <2>3 DEF ReplyOf!Choose
  <2> QED
    BY <2>4 DEF ReplyOf!Next
<1>12. CASE r = size /\ Delivers(f, g, got, k)
  <2>1. g.open /\ g.state = "send" /\ g.status = f.status /\ k >= got
        /\ f.state = "send"
    BY <1>12 DEF Delivers
  <2>2. /\ new = IF g.status = "OK" THEN "page" ELSE "notice"
        /\ new = old
    BY <1>3, <1>5, <2>1 DEF StageOf, new
  <2>3. Sending(g, size, k)
    BY <1>1, <1>12, <2>1 DEF Account
  <2>4. k <= IF g.status = "OK" THEN HeaderSize + size ELSE HeaderSize
    BY <1>1, <1>7, <2>3, FieldTypes DEF Sending, Loaded
  <2>5. CASE k = got
    <3>1. UNCHANGED ReplyOf(c)!vars
      BY <1>2, <1>4, <1>8, <1>12, <2>2, <2>5 DEF ReplyOf!vars
    <3> QED
      BY <3>1
  <2>6. CASE k # got
    <3>1. /\ old = "page" => k \in got + 1 .. HeaderSize + size
          /\ old = "notice" => k \in got + 1 .. HeaderSize
          /\ old \in {"page", "notice"}
      BY <1>1, <1>7, <2>1, <2>2, <2>4, <2>6
    <3>2. ReplyOf(c)!Deliver
      BY <1>2, <1>4, <1>8, <1>12, <2>2, <3>1
         DEF ReplyOf!Deliver, ReplyOf!Page, ReplyOf!Notice
    <3> QED
      BY <3>2 DEF ReplyOf!Next
  <2> QED
    BY <2>5, <2>6
<1>13. CASE r = size /\ Completes(f, g, got, k, size)
  <2>1. /\ k = got /\ ~g.open
        /\ f.state = "send" /\ g.status = f.status
        /\ got = IF f.status = "OK" THEN HeaderSize + size ELSE HeaderSize
        /\ got = g.base + g.nwritten - 1
    BY <1>13 DEF Completes
  <2>2. ~(g.nwritten = 0 /\ g.base = 1)
    BY <1>1, <1>7, <2>1
  <2>3. new = IF f.status = "OK" THEN "page sent" ELSE "notice sent"
    BY <1>3, <1>5, <2>1, <2>2 DEF StageOf, new
  <2>4. ReplyOf(c)!Finish
    BY <1>2, <1>4, <1>5, <1>8, <1>13, <2>1, <2>3
       DEF ReplyOf!Finish, ReplyOf!Page, ReplyOf!Notice
  <2> QED
    BY <2>4 DEF ReplyOf!Next
<1>14. CASE Cuts(f, g, got, k, fileSize[c], size, r)
  <2>1. /\ g.open /\ g.state = "send" /\ f.state = "send" /\ k = got
        /\ f.status = "OK" /\ g.status = "OK"
    BY <1>14 DEF Cuts
  <2>2. old = "page" /\ new = "page"
    BY <1>3, <1>5, <2>1 DEF StageOf, new
  <2>3. /\ size = fileSize[c] /\ r \in 0 .. fileSize[c] - 1
        /\ got <= HeaderSize + r
    BY <1>14 DEF Cuts
  <2>4. ReplyOf(c)!Cut
    BY <1>2, <1>4, <1>8, <2>1, <2>2, <2>3 DEF ReplyOf!Cut
  <2> QED
    BY <2>4 DEF ReplyOf!Next
<1> QED
  BY <1>1, <1>9, <1>10, <1>11, <1>12, <1>13, <1>14 DEF Turn

\* A client that arrives asks, or has failed at once.
LEMMA ReplyArrives ==
  ASSUME IInv, Accept, NEW c \in Clients
  PROVE  \/ ReplyOf(c)!Next
         \/ UNCHANGED ReplyOf(c)!vars
<1>1. PICK d \in Clients, open \in BOOLEAN :
        /\ stage[d] = "none"
        /\ stage' = [stage EXCEPT ![d] = "listed"]
        /\ client' = [client EXCEPT ![d] = NewClient(open)]
  BY DEF Accept
<1>2. sent' = sent /\ fileSize' = fileSize /\ readable' = readable
  BY DEF Accept, peerVars
<1>3. CASE c # d
  <2>1. client'[c] = client[c] /\ stage'[c] = stage[c]
    BY <1>1, <1>3 DEF IInv, Typed
  <2> QED
    BY <1>2, <2>1, ReplyStutters
<1>4. CASE c = d
  <2>1. /\ client'[c] = NewClient(open) /\ stage'[c] = "listed"
        /\ stage[c] = "none"
    BY <1>1, <1>4 DEF IInv, Typed
  <2>2. ReplyStage(c) = "request"
    BY <2>1, StageIs DEF StageOf
  <2>3. ReplyStage(c)' = IF open THEN "request" ELSE "failed"
    <3> DEFINE f == NewClient(open)
    <3>1. /\ f.open = open /\ f.status = "OK" /\ f.state = "recv"
          /\ f.nwritten = 0 /\ f.base = 1
      BY DEF NewClient
    <3> HIDE DEF f
    <3>2. StageOf("listed", f) = IF open THEN "request" ELSE "failed"
      BY <3>1 DEF StageOf
    <3> QED
      BY <2>1, <3>2, StageIs DEF f
  <2>4. CASE open
    BY <1>2, <2>2, <2>3, <2>4 DEF ReplyOf!vars
  <2>5. CASE ~open
    <3>1. ReplyOf(c)!Fail
      BY <1>2, <2>2, <2>3, <2>5 DEF ReplyOf!Fail
    <3> QED
      BY <3>1 DEF ReplyOf!Next
  <2> QED
    BY <2>4, <2>5
<1> QED
  BY <1>3, <1>4

LEMMA RepliesStep ==
  IInv /\ [Next]_vars =>
    [\A c \in Clients : [ReplyOf(c)!Next]_(ReplyOf(c)!vars)]_vars
<1> SUFFICES ASSUME IInv, Next, NEW c \in Clients
             PROVE  \/ ReplyOf(c)!Next
                    \/ UNCHANGED ReplyOf(c)!vars
  OBVIOUS
<1>1. ASSUME UNCHANGED <<client, sent, fileSize, readable, stage>>
      PROVE  UNCHANGED ReplyOf(c)!vars
  BY <1>1, ReplyStutters
<1>2. CASE WhileTest \/ NoConnection \/ Sigterm \/ Shutdown \/ NotReady
           \/ HandledAll \/ RemovedAll
  <2>1. UNCHANGED <<client, sent, fileSize, readable, stage>>
    BY <1>2 DEF WhileTest, NoConnection, Sigterm, Shutdown, NotReady, Advance,
                HandledAll, RemovedAll, listVars, dataVars, peerVars
  <2> QED
    BY <1>1, <2>1
<1>3. CASE Accept
  BY <1>3, ReplyArrives
<1>4. CASE Handler
  <2>1. PICK g \in ClientFields, k \in Int, r \in Nat : Turned(g, k, r)
    BY <1>4, HandlerTurns DEF IInv
  <2>2. CASE c = current
    BY <2>1, <2>2, ReplyTurns
  <2>3. CASE c # current
    <3>1. /\ client'[c] = client[c] /\ sent'[c] = sent[c]
          /\ fileSize' = fileSize /\ stage' = stage
          /\ readable'[c] = readable[c]
      BY <2>1, <2>3 DEF Turned, listVars, IInv, Typed
    <3> QED
      BY <3>1, ReplyStutters
  <2> QED
    BY <2>2, <2>3
<1>5. CASE Remove("remove")
  <2>1. PICK n \in Nat : \E s \in [1 .. n -> Clients] : Chain(n, s)
    BY DEF IInv, Chained
  <2>2. PICK s \in [1 .. n -> Clients] : Chain(n, s)
    BY <2>1
  <2>3. PICK j \in 1 .. n : FromHead[Min(FinishedPlaces)] = s[j]
    BY <1>5, <2>2, FinishedFound DEF Remove
  <2>4. stage[s[j]] = "listed"
    BY <2>2 DEF Chain, ListOf, Listed
  <2>5. /\ stage' = [stage EXCEPT ![s[j]] = "freed"]
        /\ client' = client /\ sent' = sent /\ fileSize' = fileSize
        /\ readable' = readable
    BY <1>5, <2>3 DEF Remove, dataVars, peerVars
  <2>6. (stage'[c] = "none") <=> (stage[c] = "none")
    BY <2>4, <2>5 DEF IInv, Typed
  <2> QED
    BY <2>5, <2>6, ReplyStutters
<1> QED
  BY <1>2, <1>3, <1>4, <1>5 DEF Next, Handler

\* What happens to the others in its rounds, and whatever fails, every client
\* gets the reply of the specification Reply.
THEOREM RepliesImplemented == Spec => ImplementsReply
<1>1. Init => \A c \in Clients : ReplyOf(c)!Init
  <2> SUFFICES ASSUME Init, NEW c \in Clients
               PROVE  ReplyOf(c)!Init
    OBVIOUS
  <2>1. stage[c] = "none" /\ sent[c] = 0 /\ readable = fileSize
    BY DEF Init
  <2>2. ReplyStage(c) = "request"
    BY <2>1, StageIs DEF StageOf
  <2> QED
    BY <2>1, <2>2 DEF ReplyOf!Init
<1> QED
  BY <1>1, RepliesStep, Invariant, PTL DEF Spec, ImplementsReply
=============================================================================

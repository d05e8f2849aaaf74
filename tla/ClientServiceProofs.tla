------------------------ MODULE ClientServiceProofs ------------------------
(* Theorems about ClientService, for any sizes of the buffer, the header,  *)
(* the request and the file: however the reads and writes are cut.         *)
EXTENDS ClientService, SequenceTheorems, TLAPS

\* Nothing was done for the peer yet.
Asking ==
  /\ received = <<>> /\ base = 1 /\ nwritten = 0 /\ ntowrite = 0
  /\ readResult = BufferSize
  /\ status = "OK" /\ file = "none" /\ socket = "open"
  /\ readable = fileSize

\* The peer has what the buffer's counters say, and what is left of the
\* buffer is the next part of the reply: the rest of it, once a read of the
\* file came back short, and no read failed before that.
Answering ==
  LET last == base + nwritten + ntowrite - 1 IN
  /\ socket = "open"
  /\ Len(received) = base + nwritten - 1
  /\ \/ /\ status = "OK" /\ file = "open" /\ HeaderSize <= last
        /\ IF readResult = BufferSize
           THEN readable = fileSize /\ last <= HeaderSize + readable
           ELSE last = HeaderSize + readable
     \/ /\ status \in {"403", "404"} /\ file = "none"
        /\ last = HeaderSize

\* The service returned: with a whole reply or as a failure.
Answered ==
  \/ /\ status = "OK" /\ file = "closed" /\ socket = "open"
     /\ Len(received) = HeaderSize + readable
  \/ /\ status \in {"403", "404"} /\ file = "none" /\ socket = "open"
     /\ Len(received) = HeaderSize
  \/ status = "BAD" /\ socket = "closed"

IInv ==
  /\ TypeOK
  /\ InOrder
  /\ pc \in {"read", "parse"} => Asking
  /\ pc = "flush" => Answering
  /\ pc \in {"returned", "freed"} => Answered

\* What a write appends are the next bytes of the reply.
LEMMA Appended ==
  ASSUME NEW S, NEW r \in Seq(S), NEW b \in Int, NEW t \in Seq(S),
         Len(r) = b - 1, \A i \in 1 .. Len(r) : r[i] = i,
         \A i \in 1 .. Len(t) : t[i] = b + i - 1
  PROVE  /\ r \o t \in Seq(S)
         /\ Len(r \o t) = Len(r) + Len(t)
         /\ \A i \in 1 .. Len(r \o t) : (r \o t)[i] = i
<1> DEFINE s == r \o t
<1>1. /\ s \in Seq(S)
      /\ Len(s) = Len(r) + Len(t)
      /\ \A i \in 1 .. Len(r) + Len(t) :
           s[i] = IF i <= Len(r) THEN r[i] ELSE t[i - Len(r)]
  BY ConcatProperties
<1> HIDE DEF s
<1>0. Len(r) \in Nat /\ Len(t) \in Nat
  OBVIOUS
<1>2. ASSUME NEW i \in 1 .. Len(r) + Len(t) PROVE s[i] = i
  <2>1. CASE i <= Len(r)
    BY <1>0, <1>1, <2>1
  <2>2. CASE ~(i <= Len(r))
    <3>1. i - Len(r) \in 1 .. Len(t) /\ s[i] = t[i - Len(r)]
      BY <1>0, <1>1, <2>2
    <3>2. t[i - Len(r)] = b + (i - Len(r)) - 1
      BY <3>1
    <3> QED
      BY <1>0, <3>1, <3>2
  <2> QED
    BY <2>1, <2>2
<1> QED
  BY <1>0, <1>1, <1>2 DEF s

LEMMA InitInv == Init => IInv
BY ServiceAssumption DEF Init, IInv, TypeOK, InOrder, Asking

LEMMA FinishBadInv ==
  ASSUME IInv, FinishBad PROVE IInv'
BY DEF IInv, TypeOK, InOrder, Asking, Answering, Answered, FinishBad, peerVars,
   bufVars

LEMMA WriteChunkInv ==
  ASSUME IInv, WriteChunk PROVE IInv'
<1> USE ServiceAssumption
<1>1. /\ pc = "flush" /\ ntowrite \in Nat /\ nwritten \in Nat
      /\ nwritten + ntowrite <= BufferSize
      /\ base \in Nat /\ HeaderSize \in Nat /\ fileSize \in Nat
      /\ readable \in 0 .. fileSize
      /\ received \in Seq(1 .. HeaderSize + fileSize)
      /\ Len(received) = base + nwritten - 1
      /\ base + nwritten + ntowrite - 1 <= HeaderSize + fileSize
      /\ Answering /\ \A i \in 1 .. Len(received) : received[i] = i
  <2>1. /\ pc = "flush" /\ TypeOK /\ Answering /\ InOrder
        /\ DOMAIN received = 1 .. Len(received)
    BY LenProperties DEF WriteChunk, IInv, TypeOK
  <2> QED
    BY <2>1 DEF TypeOK, Answering, InOrder
<1>2. PICK n \in 1 .. ntowrite :
        /\ received' = received \o [i \in 1 .. n |-> base + nwritten + i - 1]
        /\ nwritten' = nwritten + n
        /\ ntowrite' = ntowrite - n
  BY DEF WriteChunk
<1>3. UNCHANGED <<pc, peerVars, nread, base, readResult, status, file, socket>>
  BY DEF WriteChunk
<1>4. /\ received' \in Seq(1 .. HeaderSize + fileSize)
      /\ Len(received') = Len(received) + n
      /\ \A i \in 1 .. Len(received') : received'[i] = i
  <2> DEFINE t == [i \in 1 .. n |-> base + nwritten + i - 1]
  <2>1. /\ t \in Seq(1 .. HeaderSize + fileSize) /\ Len(t) = n
        /\ \A i \in 1 .. Len(t) : t[i] = (base + nwritten) + i - 1
        /\ base + nwritten \in Int
    BY <1>1
  <2> DEFINE S == 1 .. HeaderSize + fileSize
             b == base + nwritten
  <2>2. received' = received \o t
    BY <1>2
  <2>3. /\ Len(received) = b - 1 /\ b \in Int
        /\ \A i \in 1 .. Len(t) : t[i] = b + i - 1
    BY <1>1, <2>1
  <2> HIDE DEF t, S, b
  <2>4. /\ received \o t \in Seq(S)
        /\ Len(received \o t) = Len(received) + Len(t)
        /\ \A i \in 1 .. Len(received \o t) : (received \o t)[i] = i
    <3>1. received \in Seq(S) /\ t \in Seq(S)
      BY <1>1, <2>1 DEF S
    <3>2. \A i \in 1 .. Len(received) : received[i] = i
      BY <1>1
    <3> QED
      BY <2>3, <3>1, <3>2, Appended
  <2> QED
    BY <2>1, <2>2, <2>4 DEF S
<1>5. InOrder'
  BY <1>4, LenProperties DEF InOrder
<1>6. Answering'
  BY <1>1, <1>2, <1>3, <1>4 DEF Answering, peerVars
<1>7. TypeOK'
  <2>1. received' \in Seq(1 .. HeaderSize + fileSize')
    BY <1>3, <1>4 DEF peerVars
  <2>2. nwritten' \in 0 .. BufferSize /\ ntowrite' \in 0 .. BufferSize - nwritten'
    BY <1>1, <1>2
  <2> QED
    BY <1>3, <2>1, <2>2 DEF IInv, TypeOK, peerVars
<1> QED
  BY <1>1, <1>3, <1>5, <1>6, <1>7 DEF IInv

\* A read of the file gives n bytes of what is left, all that fit the buffer
\* unless it fails.
LEMMA RefillInv ==
  ASSUME IInv, NEW n \in Int, 0 <= n, n <= FilePart, Refill(n),
         readable' = IF n = FilePart THEN readable
                     ELSE base' - 1 - HeaderSize + n
  PROVE  IInv'
<1> USE ServiceAssumption
<1> DEFINE rest == fileSize - (base' - 1 - HeaderSize)
<1>1. /\ pc = "flush" /\ file = "open" /\ status = "OK" /\ socket = "open"
      /\ readResult = BufferSize
      /\ base \in Nat /\ base >= 1 /\ nwritten \in Nat
      /\ HeaderSize \in Nat /\ fileSize \in Nat /\ readable = fileSize
      /\ Len(received) = base + nwritten - 1
      /\ base + nwritten - 1 <= HeaderSize + fileSize
      /\ HeaderSize <= base + nwritten - 1
  BY DEF Refill, Refilling, IInv, TypeOK, Answering
<1>2. /\ base' = base + nwritten /\ nwritten' = 0
      /\ readResult' = n /\ ntowrite' = n
      /\ UNCHANGED <<pc, requestSize, fileSize, nread, status, file, socket,
                     received>>
  BY DEF Refill, Refilling
<1>3. /\ rest \in Nat /\ base' + rest - 1 = HeaderSize + fileSize
      /\ FilePart = IF rest < BufferSize THEN rest ELSE BufferSize
  BY <1>1, <1>2 DEF FilePart
<1>4. /\ n <= rest /\ n <= BufferSize
      /\ n = BufferSize => readable' = fileSize
      /\ n # BufferSize => base' + n - 1 = HeaderSize + readable'
      /\ readable' \in 0 .. fileSize
  BY <1>1, <1>2, <1>3
<1>5. Answering'
  BY <1>1, <1>2, <1>3, <1>4 DEF Answering
<1>6. TypeOK' /\ InOrder'
  BY <1>1, <1>2, <1>3, <1>4 DEF IInv, TypeOK, InOrder
<1> QED
  BY <1>1, <1>2, <1>5, <1>6 DEF IInv

LEMMA StepInv ==
  ASSUME IInv, [Next]_vars PROVE IInv'
<1> USE ServiceAssumption
<1>1. ReadChunk => IInv'
  BY DEF ReadChunk, IInv, TypeOK, InOrder, Asking, peerVars, bufVars
<1>2. (ReadFails => IInv') /\ (RequestTooLong => IInv') /\ (BadHeader => IInv')
  BY FinishBadInv DEF ReadFails, RequestTooLong, BadHeader
<1>3. ASSUME SwitchState PROVE IInv'
  <2>1. Asking
    BY <1>3 DEF SwitchState, IInv
  <2> QED
    BY <1>3, <2>1 DEF SwitchState, IInv, TypeOK, InOrder, Asking, Answering,
       peerVars
<1>4. WriteChunk => IInv'
  BY WriteChunkInv
<1>5. WriteFails => IInv'
  BY FinishBadInv DEF WriteFails
<1>6. ASSUME ReadFile \/ ReadFileFails PROVE IInv'
  <2>1. FilePart \in Nat
    BY <1>6 DEF ReadFile, ReadFileFails, Refill, Refilling, FilePart, IInv,
       TypeOK, Answering
  <2>2. PICK n \in Int :
          /\ 0 <= n /\ n <= FilePart /\ Refill(n)
          /\ readable' = IF n = FilePart THEN readable
                         ELSE base' - 1 - HeaderSize + n
    <3>1. CASE ReadFile
      BY <2>1, <3>1 DEF ReadFile
    <3>2. CASE ReadFileFails
      BY <2>1, <3>2 DEF ReadFileFails
    <3> QED
      BY <1>6, <3>1, <3>2
  <2> QED
    BY <2>2, RefillInv
<1>7. CloseFile => IInv'
  BY DEF CloseFile, IInv, TypeOK, InOrder, Answering, Answered, peerVars, bufVars
<1>8. NoFile => IInv'
  BY DEF NoFile, IInv, TypeOK, InOrder, Answering, Answered, peerVars, bufVars
<1>9. FreeClient => IInv'
  BY DEF FreeClient, IInv, TypeOK, InOrder, Answered, peerVars, bufVars
<1>10. UNCHANGED vars => IInv'
  BY DEF vars, IInv, TypeOK, InOrder, Asking, Answering, Answered, peerVars,
     bufVars
<1> QED
  BY <1>1, <1>2, <1>3, <1>4, <1>5, <1>6, <1>7, <1>8, <1>9, <1>10 DEF Next

\* What the peer received, the buffer's counters and the place in the code
\* always fit together.
THEOREM Invariant == Spec => []IInv
BY InitInv, StepInv, PTL DEF Spec

\* The counters stay in the buffer and the places in the stream.
THEOREM TypeCorrect == Spec => []TypeOK
<1>1. IInv => TypeOK
  BY DEF IInv
<1> QED
  BY <1>1, Invariant, PTL

\* However the writes are cut, the peer gets the reply in order, no byte twice
\* and none left out.
THEOREM BytesInOrder == Spec => []InOrder
<1>1. IInv => InOrder
  BY DEF IInv
<1> QED
  BY <1>1, Invariant, PTL

\* What is counted as served was delivered whole, as far as the file could be
\* read: a failed read is the one way to less, and what was read before it is
\* delivered.
THEOREM RepliesWhole == Spec => []WholeReply
<1>1. IInv => WholeReply
  BY DEF IInv, Answered, WholeReply
<1> QED
  BY <1>1, Invariant, PTL

\* A client that failed is freed with its socket closed, one that was answered
\* with no file open.
THEOREM ReleasedAtTheEnd == Spec => []Released
<1>1. IInv => Released
  BY DEF IInv, Answered, Released
<1> QED
  BY <1>1, Invariant, PTL

-----------------------------------------------------------------------------
(* Every step of the service is a step of Reply, or leaves it alone.       *)

LEMMA FinishBadFails ==
  ASSUME IInv, FinishBad, pc \in {"read", "parse", "flush"}
  PROVE  ReplyOf!Fail
BY DEF FinishBad, ReplyOf!Fail, ReplyStage, IInv, Asking, Answering, peerVars,
   bufVars

LEMMA ReplyStep ==
  ASSUME IInv, IInv', [Next]_vars PROVE [ReplyOf!Next]_(ReplyOf!vars)
<1> USE ServiceAssumption DEF ReplyOf!vars, ReplyStage, peerVars, bufVars
<1>1. ReadChunk => UNCHANGED ReplyOf!vars
  BY DEF ReadChunk, IInv, Asking
<1>2. /\ ReadFails => ReplyOf!Fail
      /\ RequestTooLong => ReplyOf!Fail
      /\ BadHeader => ReplyOf!Fail
      /\ WriteFails => ReplyOf!Fail
  BY FinishBadFails DEF ReadFails, RequestTooLong, BadHeader, WriteFails
<1>3. SwitchState => ReplyOf!Choose
  BY DEF SwitchState, IInv, Asking, ReplyOf!Choose
<1>4. ASSUME WriteChunk PROVE ReplyOf!Deliver
  <2>1. /\ pc = "flush" /\ pc' = "flush" /\ status' = status
        /\ fileSize' = fileSize /\ readable' = readable /\ base' = base
    BY <1>4 DEF WriteChunk
  <2>2. /\ nwritten \in Nat /\ ntowrite \in Nat /\ base \in Nat
        /\ HeaderSize \in Nat /\ fileSize \in Nat
        /\ readable \in 0 .. fileSize
    BY DEF IInv, TypeOK
  <2>3. PICK n \in 1 .. ntowrite :
          nwritten' = nwritten + n /\ ntowrite' = ntowrite - n
    BY <1>4 DEF WriteChunk
  <2>4. Len(received) = base + nwritten - 1
    BY <2>1 DEF IInv, Answering
  <2>5. Len(received') = base + (nwritten + n) - 1
    BY <2>1, <2>3 DEF IInv, Answering
  <2>6. /\ Len(received) + 1 <= Len(received')
        /\ Len(received') <= base + nwritten + ntowrite - 1
    BY <2>2, <2>3, <2>4, <2>5
  <2>7. /\ status = "OK" =>
             base + nwritten + ntowrite - 1 <= HeaderSize + readable
        /\ status # "OK" => base + nwritten + ntowrite - 1 = HeaderSize
        /\ status \in {"OK", "403", "404"}
    BY <2>1, <2>2 DEF IInv, Answering
  <2>8. PICK m : m = Len(received')
    OBVIOUS
  <2>9. /\ status = "OK" => m \in Len(received) + 1 .. HeaderSize + readable
        /\ status # "OK" => m \in Len(received) + 1 .. HeaderSize
    BY <2>2, <2>3, <2>4, <2>5, <2>7, <2>8
  <2> QED
    BY <2>1, <2>7, <2>8, <2>9 DEF ReplyOf!Deliver, ReplyOf!Page, ReplyOf!Notice
<1>5. ReadFile => UNCHANGED ReplyOf!vars
  BY DEF ReadFile, Refill, Refilling
<1>10. ASSUME ReadFileFails PROVE ReplyOf!Cut
  <2>1. /\ pc = "flush" /\ status = "OK" /\ readable = fileSize
        /\ base \in Int /\ nwritten \in Nat /\ fileSize \in Nat
        /\ HeaderSize <= base + nwritten - 1
        /\ Len(received) = base + nwritten - 1
    BY <1>10 DEF ReadFileFails, Refill, Refilling, IInv, TypeOK, Answering
  <2>2. PICK n \in 0 .. FilePart - 1 :
          Refill(n) /\ readable' = base' - 1 - HeaderSize + n
    BY <1>10 DEF ReadFileFails
  <2>3. /\ base' = base + nwritten
        /\ UNCHANGED <<pc, fileSize, status, received>>
    BY <2>2 DEF Refill, Refilling
  <2>4. /\ FilePart \in Int
        /\ FilePart <= fileSize - (base + nwritten - 1 - HeaderSize)
    BY <2>1 DEF FilePart
  <2>5. /\ readable' \in 0 .. fileSize - 1
        /\ base + nwritten - 1 <= HeaderSize + readable'
    BY <2>1, <2>2, <2>3, <2>4
  <2> QED
    BY <2>1, <2>3, <2>5 DEF ReplyOf!Cut
<1>6. ASSUME CloseFile PROVE ReplyOf!Finish
  <2>1. Answering /\ status = "OK" /\ Len(received) = HeaderSize + readable
    BY <1>6 DEF CloseFile, IInv, TypeOK, Answering
  <2> QED
    BY <1>6, <2>1 DEF CloseFile, ReplyOf!Finish, ReplyOf!Page
<1>7. ASSUME NoFile PROVE ReplyOf!Finish
  <2>1. status \in {"403", "404"} /\ Len(received) = HeaderSize
    BY <1>7 DEF NoFile, IInv, TypeOK, Answering
  <2> QED
    BY <1>7, <2>1 DEF NoFile, ReplyOf!Finish, ReplyOf!Notice
<1>8. FreeClient => UNCHANGED ReplyOf!vars
  BY DEF FreeClient
<1>9. UNCHANGED vars => UNCHANGED ReplyOf!vars
  BY DEF vars
<1> QED
  BY <1>1, <1>2, <1>3, <1>4, <1>5, <1>6, <1>7, <1>8, <1>9, <1>10
  DEF Next, ReplyOf!Next

\* The service of the thread pool gives each client a Reply.
THEOREM ReplyImplemented == Spec => ImplementsReply
<1>1. Init => ReplyOf!Init
  BY DEF Init, ReplyOf!Init, ReplyStage
<1>2. IInv /\ IInv' /\ [Next]_vars => [ReplyOf!Next]_(ReplyOf!vars)
  BY ReplyStep
<1> QED
  BY <1>1, <1>2, Invariant, PTL DEF Spec, ImplementsReply, ReplyOf!Spec
=============================================================================

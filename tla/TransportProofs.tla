-------------------------- MODULE TransportProofs --------------------------
(***************************************************************************)
(* Proofs about module Transport: where the bytes are, in both directions, *)
(* for buffers, records and messages of any size.                          *)
(***************************************************************************)
EXTENDS Transport, SequenceTheorems, TLAPS

(* A run of the stream.                                                      *)
Bytes == Seq(Units)

(* TypeOK, variable by variable, with the flags and the message counter.     *)
Typed ==
    /\ pc \in {"idle", "encrypt", "socket", "read", "closed"}
    /\ write_buf \in Bytes /\ left \in Bytes /\ sendable \in Bytes /\ out \in Bytes
    /\ up \in Bytes /\ down \in Bytes /\ answer \in Bytes
    /\ plaintext \in Bytes /\ read_buf \in Bytes /\ messages \in Bytes
    /\ asked \in Bytes /\ heard \in Bytes /\ told \in Bytes /\ got \in Bytes
    /\ Len(sendable) <= SendLimit /\ Len(read_buf) <= ReadCapacity
    /\ Len(messages) <= max_buffered_bytes
    /\ Len(up) <= Capacity /\ Len(down) <= Capacity
    /\ tls \in BOOLEAN /\ gap \in BOOLEAN /\ torn \in BOOLEAN
    /\ cut \in BOOLEAN /\ overrun \in BOOLEAN /\ tainted \in BOOLEAN /\ resent \in BOOLEAN
    /\ dead \in BOOLEAN
    /\ count \in 0 .. MaxMessages

-----------------------------------------------------------------------------
(* Splitting and joining sequences of bytes.                                 *)

(* The first n bytes of a buffer and the rest make up the buffer.            *)
LEMMA PartType ==
    ASSUME NEW S, NEW s \in Seq(S), NEW n \in 0 .. Len(s)
    PROVE  /\ First(s, n) \in Seq(S) /\ From(s, n) \in Seq(S)
           /\ Len(First(s, n)) = n /\ Len(From(s, n)) = Len(s) - n
           /\ First(s, n) \o From(s, n) = s
<1>0. Len(s) \in Nat /\ \A i \in 1 .. Len(s) : s[i] \in S
  BY LenProperties, ElementOfSeq
<1>1. First(s, n) \in Seq(S) /\ Len(First(s, n)) = n
  BY <1>0, SubSeqProperties DEF First
<1>2. From(s, n) \in Seq(S) /\ Len(From(s, n)) = Len(s) - n
  <2>1. \A i \in n + 1 .. Len(s) : s[i] \in S
    BY <1>0
  <2> QED BY <1>0, <2>1, SubSeqProperties DEF From
<1>3. First(s, n) \o From(s, n) = s
  <2>1. SubSeq(s, 1, n) \o SubSeq(s, n + 1, Len(s)) = SubSeq(s, 1, Len(s))
    <3>1. 1 \in 1 .. Len(s) + 1 /\ n \in 1 - 1 .. Len(s) /\ Len(s) \in n .. Len(s)
      BY <1>0
    <3> QED BY <3>1, ConcatAdjacentSubSeq
  <2>2. SubSeq(s, 1, Len(s)) = s
    BY SubSeqFull
  <2> QED BY <2>1, <2>2 DEF First, From
<1> QED BY <1>1, <1>2, <1>3

(* What precedes a rest is a first part.                                     *)
LEMMA FirstOfConcat ==
    ASSUME NEW S, NEW s \in Seq(S), NEW r \in Seq(S)
    PROVE  Len(s) \in 0 .. Len(s \o r) /\ s = First(s \o r, Len(s))
<1>1. /\ s \o r \in Seq(S) /\ Len(s \o r) = Len(s) + Len(r)
      /\ Len(s) \in Nat /\ Len(r) \in Nat /\ Len(s) \in 0 .. Len(s \o r)
  BY ConcatProperties, LenProperties
<1>2. First(s \o r, Len(s)) \in Seq(S) /\ Len(First(s \o r, Len(s))) = Len(s)
  BY <1>1, PartType
<1>3. \A i \in 1 .. Len(s) : First(s \o r, Len(s))[i] = s[i]
  <2> TAKE i \in 1 .. Len(s)
  <2>1. \A j \in 1 .. Len(s) : (s \o r)[j] \in S
    BY <1>1, ElementOfSeq
  <2>2. First(s \o r, Len(s))[i] = (s \o r)[i]
    BY <1>1, <2>1, SubSeqProperties DEF First
  <2>3. (s \o r)[i] = s[i]
    BY <1>1, ConcatProperties
  <2> QED BY <2>2, <2>3
<1> QED BY <1>1, <1>2, <1>3, SeqEqual

(* The first byte and the rest make up a buffer.                             *)
LEMMA HeadTailConcat ==
    ASSUME NEW S, NEW s \in Seq(S), s # <<>>
    PROVE  /\ Head(s) \in S /\ Tail(s) \in Seq(S) /\ Len(Tail(s)) = Len(s) - 1
           /\ <<Head(s)>> \in Seq(S)
           /\ <<Head(s)>> \o Tail(s) = s
<1>1. Head(s) \in S /\ Tail(s) \in Seq(S) /\ Len(Tail(s)) = Len(s) - 1
  BY HeadTailProperties
<1>2. Len(s) \in Nat \ {0}
  BY EmptySeq
<1>3. SubSeq(s, 1, Len(s)) = <<s[1]>> \o SubSeq(s, 2, Len(s))
  BY <1>2, SubSeqRecursiveFirst
<1>4. Tail(s) = SubSeq(s, 2, Len(s))
  BY TailIsSubSeq
<1>5. SubSeq(s, 1, Len(s)) = s
  BY SubSeqFull
<1>6. Head(s) = s[1]
  BY <1>2
<1>7. <<Head(s)>> \in Seq(S)
  BY <1>1
<1> QED BY <1>1, <1>3, <1>4, <1>5, <1>6, <1>7

(* A message is so many units.                                               *)
LEMMA MessageType ==
    ASSUME NEW k \in 0 .. MaxMessages, NEW n \in Nat
    PROVE  Message(k, n) \in Bytes /\ Len(Message(k, n)) = n
<1>1. \A i \in 1 .. n : <<k, i, n>> \in Units
  BY DEF Units
<1>2. Message(k, n) \in [1 .. n -> Units]
  BY <1>1 DEF Message
<1> QED BY <1>2, SeqDef DEF Bytes

(* Least is the smaller one.                                                 *)
LEMMA LeastType ==
    ASSUME NEW m \in Nat, NEW n \in Nat
    PROVE  Least(m, n) \in Nat /\ Least(m, n) <= m /\ Least(m, n) <= n
           /\ (m > 0 /\ n > 0 => Least(m, n) > 0)
BY DEF Least

(* What the socket takes keeps its length; only a gap changes it.            *)
LEMMA WireType ==
    ASSUME NEW s \in Bytes
    PROVE  /\ Wire(s) \in Bytes /\ Len(Wire(s)) = Len(s)
           /\ ~gap => Wire(s) = s
           /\ gap => \A i \in 1 .. Len(s) : Wire(s)[i] = Garbage
<1>1. DOMAIN s = 1 .. Len(s) /\ Len(s) \in Nat
  BY LenProperties DEF Bytes
<1>2. Garbage \in Units
  BY SizesAssumption DEF Garbage, Units
<1>3. [i \in DOMAIN s |-> Garbage] \in [1 .. Len(s) -> Units]
  BY <1>1, <1>2
<1>4. [i \in DOMAIN s |-> Garbage] \in Seq(Units) /\ Len([i \in DOMAIN s |-> Garbage]) = Len(s)
  BY <1>1, <1>3, SeqDef
<1>5. \A i \in 1 .. Len(s) : [j \in DOMAIN s |-> Garbage][i] = Garbage
  BY <1>1
<1> QED BY <1>4, <1>5 DEF Wire, Bytes

(* The sizes are positive numbers.                                           *)
LEMMA Sizes0 ==
    /\ MaxMessages \in Nat /\ Threshold \in Nat /\ SendLimit \in Nat /\ Take \in Nat
    /\ CipherBuf \in Nat /\ ReadCapacity \in Nat /\ TmpBuf \in Nat
    /\ max_buffered_bytes \in Nat /\ Capacity \in Nat
    /\ Take > 0
    /\ \A n \in Sizes \cup AnswerSizes : n \in Nat /\ n > 0
BY SizesAssumption

(* Lengths of buffers.                                                       *)
LEMMA BytesLen ==
    /\ <<>> \in Bytes /\ Len(<<>>) = 0
    /\ \A s \in Bytes : Len(s) \in Nat /\ (s # <<>> => Len(s) > 0)
BY EmptySeq, LenProperties DEF Bytes

(* Joining two buffers ...                                                   *)
LEMMA JoinType ==
    ASSUME NEW s \in Bytes, NEW t \in Bytes
    PROVE  s \o t \in Bytes /\ Len(s \o t) = Len(s) + Len(t)
BY ConcatProperties DEF Bytes

(* ... is associative, and the empty buffer is neutral.                      *)
LEMMA Assoc ==
    ASSUME NEW s \in Bytes, NEW t \in Bytes, NEW u \in Bytes
    PROVE  (s \o t) \o u = s \o (t \o u)
BY ConcatAssociative DEF Bytes

(* Nothing joined to a run of bytes is that run.                             *)
LEMMA JoinEmpty ==
    ASSUME NEW s \in Bytes
    PROVE  s \o <<>> = s /\ <<>> \o s = s
BY ConcatEmptySeq DEF Bytes

(* One more unit at the end of a buffer.                                     *)
LEMMA AppendType ==
    ASSUME NEW s \in Bytes, NEW e \in Units
    PROVE  Append(s, e) \in Bytes /\ Len(Append(s, e)) = Len(s) + 1 /\ Append(s, e) = s \o <<e>>
BY AppendProperties, AppendIsConcat DEF Bytes

-----------------------------------------------------------------------------
(* Type correctness.                                                         *)

(* A call that extends write_buf.                                            *)
LEMMA ExtendType ==
    ASSUME Typed, NEW n \in Nat, Extend(n)
    PROVE  /\ write_buf' \in Bytes /\ asked' \in Bytes /\ count' \in 0 .. MaxMessages
           /\ Message(count + 1, n) \in Bytes /\ count + 1 \in 1 .. MaxMessages
<1>1. count + 1 \in 1 .. MaxMessages /\ count' = count + 1
  BY Sizes0 DEF Extend, Typed
<1>2. Message(count + 1, n) \in Bytes
  BY <1>1, MessageType, Sizes0
<1> QED BY <1>1, <1>2, JoinType DEF Extend, Typed

(* flush_write keeps the types of what it sets.                              *)
LEMMA FlushType ==
    ASSUME Typed, NEW buf \in Bytes, flush_write(buf)
    PROVE  /\ left' \in Bytes /\ out' \in Bytes
           /\ pc' \in {"idle", "encrypt", "socket", "read", "closed"}
BY DEF flush_write, Inner, Typed

(* A call leaves every variable in its type.                                 *)
LEMMA CallTyped ==
    ASSUME Typed, Call
    PROVE  Typed'
<1>1. ASSUME NEW n \in Sizes, send(n)
      PROVE  Typed'
  <2>1. /\ write_buf' \in Bytes /\ asked' \in Bytes /\ count' \in 0 .. MaxMessages
    BY <1>1, ExtendType, Sizes0 DEF send
  <2>2. /\ left' \in Bytes /\ out' \in Bytes
        /\ pc' \in {"idle", "encrypt", "socket", "read", "closed"}
    BY <1>1, <2>1, FlushType DEF send
  <2> QED BY <1>1, <2>1, <2>2 DEF send, Typed, server, readVars, lost
<1>2. ASSUME NEW n \in Sizes, encode_and_write(n)
      PROVE  Typed'
  <2>1. /\ write_buf' \in Bytes /\ asked' \in Bytes /\ count' \in 0 .. MaxMessages
    BY <1>2, ExtendType, Sizes0 DEF encode_and_write
  <2>2. /\ left' \in Bytes /\ out' \in Bytes
        /\ pc' \in {"idle", "encrypt", "socket", "read", "closed"}
    <3>1. CASE Len(write_buf') >= Threshold
      BY <1>2, <2>1, <3>1, FlushType DEF encode_and_write
    <3>2. CASE ~(Len(write_buf') >= Threshold)
      BY <1>2, <3>2 DEF encode_and_write, Typed
    <3> QED BY <3>1, <3>2
  <2> QED BY <1>2, <2>1, <2>2 DEF encode_and_write, Typed, server, readVars, lost
<1>3. CASE flush
  <2>1. /\ left' \in Bytes /\ out' \in Bytes
        /\ pc' \in {"idle", "encrypt", "socket", "read", "closed"}
    BY <1>3, FlushType DEF flush, Typed
  <2> QED BY <1>3, <2>1 DEF flush, Typed, server, readVars, lost
<1>4. CASE close
  <2>1. /\ write_buf' \in Bytes /\ asked' \in Bytes /\ count' \in 0 .. MaxMessages
    BY <1>4, ExtendType DEF close
  <2>2. /\ left' \in Bytes /\ out' \in Bytes
        /\ pc' \in {"idle", "encrypt", "socket", "read", "closed"}
    BY <1>4, <2>1, FlushType DEF close
  <2> QED BY <1>4, <2>1, <2>2 DEF close, Typed, server, readVars, lost
<1>5. CASE read_message
  BY <1>5 DEF read_message, Typed, writeVars, server, readVars, lost
<1> QED BY <1>1, <1>2, <1>3, <1>4, <1>5 DEF Call

(* The part of a buffer that a step moves, and what it leaves.               *)
LEMMA BytesParts ==
    ASSUME NEW s \in Bytes, NEW n \in 0 .. Len(s)
    PROVE  /\ First(s, n) \in Bytes /\ From(s, n) \in Bytes
           /\ Len(First(s, n)) = n /\ Len(From(s, n)) = Len(s) - n
           /\ First(s, n) \o From(s, n) = s
BY PartType DEF Bytes

(* How much write_all hands to rustls, and to the socket.                    *)
LEMMA TlsWriteParts ==
    ASSUME Typed, TlsWrite
    PROVE  \E n \in 0 .. Len(left) :
              /\ Len(sendable) + n <= SendLimit
              /\ sendable' = sendable \o First(left, n) /\ left' = From(left, n)
<1> DEFINE n == Least(Len(left), SendLimit - Len(sendable))
<1>1. Len(left) \in Nat /\ Len(sendable) \in Nat /\ Len(sendable) <= SendLimit
  BY BytesLen DEF Typed
<1>2. n \in 0 .. Len(left) /\ Len(sendable) + n <= SendLimit
  BY <1>1, Sizes0 DEF Least
<1> QED BY <1>2 DEF TlsWrite

(* What a write to the socket takes, and what it leaves.                     *)
LEMMA SocketWriteParts ==
    ASSUME Typed, SocketWrite
    PROVE  \E n \in 1 .. Len(out) :
              /\ Len(up) + n <= Capacity
              /\ up' = up \o Wire(First(out, n)) /\ out' = From(out, n)
<1>1. Len(out) \in Nat /\ Len(up) \in Nat /\ Len(up) <= Capacity
  BY BytesLen DEF Typed
<1>2. PICK n \in 1 .. Least(Len(out), Capacity - Len(up)) :
        up' = up \o Wire(First(out, n)) /\ out' = From(out, n)
  BY DEF SocketWrite
<1>3. n \in 1 .. Len(out) /\ Len(up) + n <= Capacity
  BY <1>1, Sizes0 DEF Least
<1> QED BY <1>2, <1>3

(* So does every step of a write.                                            *)
LEMMA WriteTyped ==
    ASSUME Typed, WriteStep \/ CancelWrite
    PROVE  Typed'
<1>1. CASE TlsWrite
  <2>1. PICK n \in 0 .. Len(left) :
          /\ Len(sendable) + n <= SendLimit
          /\ sendable' = sendable \o First(left, n) /\ left' = From(left, n)
    BY <1>1, TlsWriteParts
  <2>2. /\ First(left, n) \in Bytes /\ Len(First(left, n)) = n /\ left' \in Bytes
    BY <2>1, BytesParts DEF Typed
  <2>3. sendable' \in Bytes /\ Len(sendable') <= SendLimit
    <3>1. sendable \in Bytes
      BY DEF Typed
    <3>2. sendable \o First(left, n) \in Bytes
      BY <2>2, <3>1, JoinType
    <3>3. Len(sendable \o First(left, n)) = Len(sendable) + n
      BY <2>2, <3>1, JoinType
    <3> QED BY <2>1, <3>2, <3>3
  <2> QED BY <1>1, <2>2, <2>3 DEF TlsWrite, Typed, server, readVars, lost
<1>2. CASE flush_tls_outgoing
  BY <1>2, BytesLen, Sizes0 DEF flush_tls_outgoing, Typed, server, readVars, lost
<1>3. CASE SocketWrite
  <2>1. PICK n \in 1 .. Len(out) :
          /\ Len(up) + n <= Capacity
          /\ up' = up \o Wire(First(out, n)) /\ out' = From(out, n)
    BY <1>3, SocketWriteParts
  <2>2. First(out, n) \in Bytes /\ Len(First(out, n)) = n /\ out' \in Bytes
    BY <2>1, BytesParts, BytesLen DEF Typed
  <2>3. Wire(First(out, n)) \in Bytes /\ Len(Wire(First(out, n))) = n
    BY <2>2, WireType
  <2>4. up' \in Bytes /\ Len(up') <= Capacity
    <3>1. up \in Bytes /\ Len(up) \in Nat /\ n \in Nat
      BY BytesLen DEF Typed
    <3>2. up' \in Bytes /\ Len(up') = Len(up) + Len(Wire(First(out, n)))
      BY <2>1, <2>3, <3>1, JoinType
    <3> QED BY <2>1, <2>3, <3>1, <3>2
  <2> QED BY <1>3, <2>2, <2>4 DEF SocketWrite, Typed, server, readVars, lost
<1>4. CASE flush_writeOk
  BY <1>4, BytesLen DEF flush_writeOk, Written, Typed, server, readVars, lost
<1>5. CASE WriteError
  BY <1>5, BytesLen DEF WriteError, Unsent, Typed, server, readVars
<1>6. CASE CancelWrite
  BY <1>6, BytesLen DEF CancelWrite, Unsent, Typed, server, readVars
<1> QED BY <1>1, <1>2, <1>3, <1>4, <1>5, <1>6 DEF WriteStep

(* try_extend keeps messages within its limit.                               *)
LEMMA TryExtendType ==
    ASSUME Typed, NEW data \in Bytes, try_extend(data)
    PROVE  /\ messages' \in Bytes /\ Len(messages') <= max_buffered_bytes
           /\ overrun' \in BOOLEAN /\ pc' \in {pc, "idle"}
<1>1. CASE Len(messages) + Len(data) > max_buffered_bytes
  BY <1>1 DEF try_extend, Typed
<1>2. CASE ~(Len(messages) + Len(data) > max_buffered_bytes)
  <2>1. Len(messages) \in Nat /\ Len(data) \in Nat
    BY BytesLen DEF Typed
  <2>2. messages \o data \in Bytes /\ Len(messages \o data) = Len(messages) + Len(data)
    BY JoinType DEF Typed
  <2>3. messages' = messages \o data /\ UNCHANGED <<overrun, pc>>
    BY <1>2 DEF try_extend
  <2>4. Len(messages') <= max_buffered_bytes
    BY <1>2, <2>1, <2>2, <2>3, Sizes0
  <2> QED BY <2>2, <2>3, <2>4 DEF Typed
<1> QED BY <1>1, <1>2

(* What one read takes of a buffer.                                          *)
LEMMA NextMessageParts ==
    ASSUME Typed, next_message
    PROVE  \E n \in 0 .. Len(messages) :
              got' = got \o First(messages, n) /\ messages' = From(messages, n)
<1>1. messages \in Seq(Units) /\ messages # <<>> /\ Len(messages) >= messages[1][3]
  BY DEF next_message, Complete, Typed, Bytes
<1>2. messages[1] \in Units
  BY <1>1, ElementOfSeq, EmptySeq
<1>3. messages[1][3] \in Nat
  BY <1>2 DEF Units
<1>4. messages[1][3] \in 0 .. Len(messages)
  BY <1>1, <1>3, LenProperties
<1> QED BY <1>4 DEF next_message

(* What a read from the buffer changes.                                      *)
LEMMA ReadBufferedParts ==
    ASSUME Typed, ReadBuffered
    PROVE  \E n \in 0 .. Len(read_buf) :
              try_extend(First(read_buf, n)) /\ read_buf' = From(read_buf, n)
<1>1. Len(read_buf) \in Nat
  BY BytesLen DEF Typed
<1>2. Least(TmpBuf, Len(read_buf)) \in 0 .. Len(read_buf)
  BY <1>1, Sizes0 DEF Least
<1> QED BY <1>2 DEF ReadBuffered

(* What a read from the plain socket changes.                                *)
LEMMA ReadSocketParts ==
    ASSUME Typed, ReadSocket
    PROVE  \E n \in 1 .. Len(down) :
              n <= ReadCapacity /\ read_buf' = First(down, n) /\ down' = From(down, n)
<1>1. Len(down) \in Nat
  BY BytesLen DEF Typed
<1>2. PICK n \in 1 .. Least(ReadCapacity, Len(down)) : Refill(down, n) /\ down' = From(down, n)
  BY DEF ReadSocket
<1>3. n \in 1 .. Len(down) /\ n <= ReadCapacity
  BY <1>1, Sizes0 DEF Least
<1> QED BY <1>2, <1>3 DEF Refill

(* What a read of decrypted bytes changes.                                   *)
LEMMA ReadPlaintextParts ==
    ASSUME Typed, ReadPlaintext
    PROVE  \E n \in 0 .. Len(plaintext) :
              /\ n <= ReadCapacity
              /\ read_buf' = First(plaintext, n) /\ plaintext' = From(plaintext, n)
<1>1. Len(plaintext) \in Nat
  BY BytesLen DEF Typed
<1>2. Least(ReadCapacity, Len(plaintext)) \in 0 .. Len(plaintext)
      /\ Least(ReadCapacity, Len(plaintext)) <= ReadCapacity
  BY <1>1, Sizes0 DEF Least
<1> QED BY <1>2 DEF ReadPlaintext, Refill

(* What a read of a TLS record changes.                                      *)
LEMMA TlsReadParts ==
    ASSUME Typed, TlsRead
    PROVE  \E n \in 1 .. Len(down), m \in 0 .. Len(down) :
              /\ m <= n /\ torn' = (m < n)
              /\ plaintext' = First(down, m) /\ down' = From(down, n)
<1>1. Len(down) \in Nat
  BY BytesLen DEF Typed
<1>2. PICK n \in 1 .. Least(CipherBuf, Len(down)) :
        /\ plaintext' = First(down, Least(n, Take))
        /\ down' = From(down, n) /\ torn' = (Least(n, Take) < n)
  BY DEF TlsRead
<1>3. /\ n \in 1 .. Len(down) /\ Least(n, Take) \in 0 .. Len(down) /\ Least(n, Take) <= n
  BY <1>1, Sizes0 DEF Least
<1> QED BY <1>2, <1>3

(* And every step of a read.                                                 *)
LEMMA ReadTyped ==
    ASSUME Typed, ReadStep
    PROVE  Typed'
<1>1. CASE next_message
  <2>1. PICK n \in 0 .. Len(messages) :
          got' = got \o First(messages, n) /\ messages' = From(messages, n)
    BY <1>1, NextMessageParts
  <2>2. /\ First(messages, n) \in Bytes /\ messages' \in Bytes
        /\ Len(messages') = Len(messages) - n
    BY <2>1, BytesParts DEF Typed
  <2>3. Len(messages) \in Nat /\ Len(messages) <= max_buffered_bytes
    BY BytesLen DEF Typed
  <2>4. Len(messages') <= max_buffered_bytes
    BY <2>2, <2>3, Sizes0
  <2>5. got' \in Bytes
    BY <2>1, <2>2, JoinType DEF Typed
  <2> QED BY <1>1, <2>2, <2>4, <2>5 DEF next_message, Typed, writeVars, server, lost
<1>2. CASE ReadBuffered
  <2>1. PICK n \in 0 .. Len(read_buf) :
          try_extend(First(read_buf, n)) /\ read_buf' = From(read_buf, n)
    BY <1>2, ReadBufferedParts
  <2>2. First(read_buf, n) \in Bytes /\ read_buf' \in Bytes /\ Len(read_buf') = Len(read_buf) - n
    BY <2>1, BytesParts DEF Typed
  <2>3. Len(read_buf) \in Nat /\ Len(read_buf) <= ReadCapacity
    BY BytesLen DEF Typed
  <2>4. Len(read_buf') <= ReadCapacity
    BY <2>2, <2>3, Sizes0
  <2>5. /\ messages' \in Bytes /\ Len(messages') <= max_buffered_bytes
        /\ overrun' \in BOOLEAN /\ pc' \in {pc, "idle"}
    BY <2>1, <2>2, TryExtendType
  <2> QED BY <1>2, <2>2, <2>4, <2>5 DEF ReadBuffered, Typed, writeVars, server
<1>3. CASE ReadSocket
  <2>1. PICK n \in 1 .. Len(down) :
          n <= ReadCapacity /\ read_buf' = First(down, n) /\ down' = From(down, n)
    BY <1>3, ReadSocketParts
  <2>2. Len(down) \in Nat /\ Len(down) <= Capacity /\ n \in 0 .. Len(down)
    BY BytesLen DEF Typed
  <2>3. /\ read_buf' \in Bytes /\ Len(read_buf') = n
        /\ down' \in Bytes /\ Len(down') = Len(down) - n
    BY <2>1, <2>2, BytesParts DEF Typed
  <2>4. Len(read_buf') <= ReadCapacity /\ Len(down') <= Capacity
    BY <2>1, <2>2, <2>3, Sizes0
  <2> QED BY <1>3, <2>3, <2>4 DEF ReadSocket, Typed, writeVars, server, lost
<1>4. CASE ReadPlaintext
  <2>1. PICK n \in 0 .. Len(plaintext) :
          /\ n <= ReadCapacity
          /\ read_buf' = First(plaintext, n) /\ plaintext' = From(plaintext, n)
    BY <1>4, ReadPlaintextParts
  <2>2. read_buf' \in Bytes /\ Len(read_buf') = n /\ plaintext' \in Bytes
    BY <2>1, BytesParts DEF Typed
  <2> QED BY <1>4, <2>1, <2>2 DEF ReadPlaintext, Typed, writeVars, server, lost
<1>5. CASE TlsRead
  <2>1. PICK n \in 1 .. Len(down), m \in 0 .. Len(down) :
          /\ m <= n /\ torn' = (m < n)
          /\ plaintext' = First(down, m) /\ down' = From(down, n)
    BY <1>5, TlsReadParts
  <2>2. Len(down) \in Nat /\ Len(down) <= Capacity /\ n \in 0 .. Len(down)
    BY BytesLen DEF Typed
  <2>3. plaintext' \in Bytes /\ down' \in Bytes /\ Len(down') = Len(down) - n
    BY <2>1, <2>2, BytesParts DEF Typed
  <2>4. Len(down') <= Capacity
    BY <2>2, <2>3, Sizes0
  <2>5. torn' \in BOOLEAN
    BY <2>1
  <2> QED BY <1>5, <2>3, <2>4, <2>5 DEF TlsRead, Typed, writeVars, server
<1>6. CASE ReadError
  BY <1>6 DEF ReadError, Typed, writeVars, server, readVars, lost
<1> QED BY <1>1, <1>2, <1>3, <1>4, <1>5, <1>6 DEF ReadStep

(* What an abandoned read takes with it.                                     *)
LEMMA CancelReadParts ==
    ASSUME Typed, CancelRead
    PROVE  \/ UNCHANGED <<down, torn, cut>>
           \/ /\ \E n \in 0 .. Len(down) : down' = From(down, n)
              /\ torn' = (torn \/ tls) /\ cut' = (cut \/ ~tls)
<1>1. CASE UNCHANGED <<down, torn, cut, cancels>>
  BY <1>1
<1>2. CASE /\ \E n \in 1 .. Least(Inner(CipherBuf, ReadCapacity), Len(down)) : down' = From(down, n)
           /\ torn' = (torn \/ tls) /\ cut' = (cut \/ ~tls)
  <2>1. PICK n \in 1 .. Least(Inner(CipherBuf, ReadCapacity), Len(down)) : down' = From(down, n)
    BY <1>2
  <2>2. Len(down) \in Nat /\ Inner(CipherBuf, ReadCapacity) \in Nat
    BY BytesLen, Sizes0 DEF Typed, Inner
  <2>3. n \in 0 .. Len(down)
    BY <2>1, <2>2 DEF Least
  <2> QED BY <1>2, <2>1, <2>3
<1> QED BY <1>1, <1>2 DEF CancelRead

(* It leaves the rest in its type.                                           *)
LEMMA CancelReadTyped ==
    ASSUME Typed, CancelRead
    PROVE  Typed'
<1>1. down' \in Bytes /\ Len(down') <= Capacity
  <2>1. down \in Bytes /\ Len(down) \in Nat /\ Len(down) <= Capacity /\ Capacity \in Nat
    BY BytesLen, Sizes0 DEF Typed
  <2>2. ASSUME NEW n \in 0 .. Len(down), down' = From(down, n)
        PROVE  down' \in Bytes /\ Len(down') <= Capacity
    <3>1. down' \in Bytes /\ Len(down') = Len(down) - n
      BY <2>1, <2>2, BytesParts
    <3> QED BY <2>1, <2>2, <3>1
  <2> QED BY <2>1, <2>2, CancelReadParts
<1>2. torn' \in BOOLEAN /\ cut' \in BOOLEAN
  BY CancelReadParts, Zenon DEF Typed
<1>3. /\ UNCHANGED <<tls, batch, writeVars, up, server, readVars, dead, asked, got, count,
                      overrun, tainted, resent>>
      /\ pc' = "idle"
  BY DEF CancelRead
<1> QED BY <1>1, <1>2, <1>3 DEF Typed, writeVars, server, readVars

(* The server's first unit of what is on the socket.                         *)
LEMMA ServerTyped ==
    ASSUME Typed, Server \/ Break
    PROVE  Typed'
<1>1. CASE ServerReads
  <2>1. up \in Seq(Units) /\ up # <<>>
    BY <1>1 DEF ServerReads, Typed, Bytes
  <2>2. Head(up) \in Units /\ Tail(up) \in Bytes /\ Len(Tail(up)) = Len(up) - 1
    BY <2>1, HeadTailConcat DEF Bytes
  <2>3. Len(up) \in Nat /\ Len(up) <= Capacity
    BY BytesLen DEF Typed
  <2>4. up' \in Bytes /\ Len(up') <= Capacity
    <3>1. up' = Tail(up)
      BY <1>1 DEF ServerReads
    <3>2. Capacity \in Nat
      BY Sizes0
    <3> QED BY <2>2, <2>3, <3>1, <3>2
  <2>5. heard' \in Bytes /\ dead' \in BOOLEAN
    <3>1. heard \in Bytes /\ dead \in BOOLEAN
      BY DEF Typed
    <3>2. Append(heard, Head(up)) \in Bytes
      BY <2>2, <3>1, AppendType
    <3>3. \/ heard' = heard /\ dead' = TRUE
          \/ heard' = Append(heard, Head(up)) /\ dead' = dead
      BY <1>1 DEF ServerReads
    <3> QED BY <3>1, <3>2, <3>3
  <2>6. answer' \in Bytes
    <3>1. \A n \in AnswerSizes : Message(Head(up)[1], n) \in Bytes
      <4>1. Head(up)[1] \in 0 .. MaxMessages
        BY <2>2 DEF Units
      <4> QED BY <4>1, MessageType, Sizes0
    <3> QED BY <1>1, <3>1 DEF ServerReads, Typed
  <2> QED BY <1>1, <2>4, <2>5, <2>6 DEF ServerReads, Typed, writeVars, readVars, lost
<1>2. CASE ServerWrites
  <2>1. answer \in Seq(Units) /\ answer # <<>>
    BY <1>2 DEF ServerWrites, Typed, Bytes
  <2>2. Head(answer) \in Units /\ Tail(answer) \in Bytes
    BY <2>1, HeadTailConcat DEF Bytes
  <2>3. Len(down) \in Nat /\ Len(down) < Capacity
    BY <1>2, BytesLen DEF ServerWrites, Typed
  <2>4. down' \in Bytes /\ Len(down') = Len(down) + 1 /\ told' \in Bytes /\ answer' \in Bytes
    BY <1>2, <2>2, AppendType DEF ServerWrites, Typed
  <2>5. Len(down') <= Capacity
    BY <2>3, <2>4, Sizes0
  <2> QED BY <1>2, <2>4, <2>5 DEF ServerWrites, Typed, writeVars, readVars, lost
<1>3. CASE Break
  BY <1>3 DEF Break, Typed, writeVars, server, readVars, lost
<1> QED BY <1>1, <1>2, <1>3 DEF Server

(* Typed is inductive.                                                       *)
LEMMA NextTyped ==
    ASSUME Typed, [Next]_vars
    PROVE  Typed'
<1>1. CASE UNCHANGED vars
  BY <1>1 DEF vars, Typed, writeVars, server, readVars, lost
<1> QED BY <1>1, CallTyped, WriteTyped, ReadTyped, CancelReadTyped, ServerTyped DEF Next

(* The types hold in the beginning.                                          *)
LEMMA InitTyped == Init => Typed
<1> SUFFICES ASSUME Init PROVE Typed
  OBVIOUS
<1>1. /\ write_buf \in Bytes /\ left \in Bytes /\ sendable \in Bytes /\ out \in Bytes
      /\ up \in Bytes /\ down \in Bytes /\ answer \in Bytes
      /\ plaintext \in Bytes /\ read_buf \in Bytes /\ messages \in Bytes
      /\ asked \in Bytes /\ heard \in Bytes /\ told \in Bytes /\ got \in Bytes
  BY BytesLen DEF Init
<1>2. /\ Len(sendable) = 0 /\ Len(read_buf) = 0 /\ Len(messages) = 0 /\ Len(up) = 0
      /\ Len(down) = 0
  BY BytesLen DEF Init
<1>3. /\ Len(sendable) <= SendLimit /\ Len(read_buf) <= ReadCapacity
      /\ Len(messages) <= max_buffered_bytes /\ Len(up) <= Capacity /\ Len(down) <= Capacity
      /\ count \in 0 .. MaxMessages
  BY <1>2, Sizes0 DEF Init
<1> QED BY <1>1, <1>3 DEF Init, Typed

(* What the variables' types say of TypeOK.                                  *)
LEMMA TypedTypeOK == Typed => TypeOK
BY DEF Typed, TypeOK, Bytes

(* The buffers keep their types, and every buffer with a limit stays within  *)
(* it, whatever is read, written or abandoned.                               *)
THEOREM TransportTypeCorrect == Spec => []TypeOK
<1>1. Typed /\ [Next]_vars => Typed'
  BY NextTyped
<1> QED BY <1>1, InitTyped, TypedTypeOK, PTL DEF Spec

-----------------------------------------------------------------------------
(* Which buffers are in use at which await, and what a loss leaves behind.   *)
Phases ==
    /\ pc # "encrypt" => left = <<>> /\ sendable = <<>>
    /\ pc # "socket" => out = <<>>
    /\ gap => tls /\ tainted
    /\ tls /\ tainted => gap \/ resent
    /\ ~tls => plaintext = <<>> /\ ~torn

(* Phases is inductive.                                                      *)
LEMMA NextPhases ==
    ASSUME Typed, Phases, [Next]_vars
    PROVE  Phases'
<1>f. ASSUME NEW buf, pc = "idle", flush_write(buf),
             UNCHANGED <<sendable, gap, tls, tainted, resent, plaintext, torn>>
      PROVE  Phases'
  BY <1>f DEF flush_write, Inner, Phases
<1>1. ASSUME NEW n \in Sizes, send(n)
      PROVE  Phases'
  BY <1>1, <1>f DEF send, readVars, lost
<1>2. ASSUME NEW n \in Sizes, encode_and_write(n)
      PROVE  Phases'
  <2>1. CASE flush_write(write_buf')
    BY <1>2, <2>1, <1>f DEF encode_and_write, readVars, lost
  <2>2. CASE UNCHANGED <<pc, left, out>>
    BY <1>2, <2>2 DEF encode_and_write, readVars, lost, Phases
  <2> QED BY <1>2, <2>1, <2>2 DEF encode_and_write
<1>3. CASE flush
  BY <1>3, <1>f DEF flush, readVars, lost
<1>4. CASE close
  BY <1>4, <1>f DEF close, readVars, lost
<1>5. CASE read_message
  BY <1>5 DEF read_message, writeVars, readVars, lost, Phases
<1>6. CASE TlsWrite
  BY <1>6 DEF TlsWrite, readVars, lost, Phases
<1>7. CASE flush_tls_outgoing
  BY <1>7 DEF flush_tls_outgoing, readVars, lost, Phases
<1>8. CASE SocketWrite
  BY <1>8 DEF SocketWrite, readVars, lost, Phases
<1>9. CASE flush_writeOk
  BY <1>9 DEF flush_writeOk, readVars, lost, Phases
<1>u. ASSUME pc = "socket", pc' \in {"idle", "closed"}, Unsent
      PROVE  Phases'
  BY <1>u DEF Unsent, Phases, Typed, readVars
<1>10. CASE WriteError
  BY <1>10, <1>u DEF WriteError
<1>11. CASE CancelWrite
  BY <1>11, <1>u DEF CancelWrite
<1>22. CASE CancelRead
  <2>1. /\ pc = "read" /\ pc' = "idle"
        /\ UNCHANGED <<left, sendable, out, gap, tls, tainted, resent, plaintext>>
    BY <1>22 DEF CancelRead, writeVars, readVars
  <2>2. ~tls /\ ~torn => ~torn'
    BY <1>22, CancelReadParts DEF Typed
  <2> QED BY <2>1, <2>2 DEF Phases
<1>12. CASE next_message
  BY <1>12 DEF next_message, writeVars, lost, Phases
<1>13. CASE ReadBuffered
  BY <1>13 DEF ReadBuffered, try_extend, writeVars, Phases
<1>14. CASE ReadSocket
  BY <1>14 DEF ReadSocket, writeVars, lost, Phases
<1>15. CASE ReadPlaintext
  BY <1>15 DEF ReadPlaintext, writeVars, lost, Phases
<1>16. CASE TlsRead
  BY <1>16 DEF TlsRead, writeVars, Phases
<1>17. CASE ReadError
  BY <1>17 DEF ReadError, writeVars, readVars, lost, Phases
<1>18. CASE ServerReads
  BY <1>18 DEF ServerReads, writeVars, readVars, lost, Phases
<1>19. CASE ServerWrites
  BY <1>19 DEF ServerWrites, writeVars, readVars, lost, Phases
<1>20. CASE Break
  BY <1>20 DEF Break, writeVars, readVars, lost, Phases
<1>21. CASE UNCHANGED vars
  BY <1>21 DEF vars, writeVars, readVars, lost, Phases
<1> QED
  BY <1>1, <1>2, <1>3, <1>4, <1>5, <1>6, <1>7, <1>8, <1>9, <1>10, <1>11, <1>12, <1>13, <1>14,
     <1>15, <1>16, <1>17, <1>18, <1>19, <1>20, <1>21, <1>22
     DEF Next, Call, WriteStep, ReadStep, Server

-----------------------------------------------------------------------------
(* Receiving.                                                                *)

(* What has been taken from the socket and not been lost.                    *)
Reading == got \o messages \o read_buf \o plaintext

(* It is the beginning of what the server has sent; what follows it is still *)
(* on the socket, unless ciphertext was left behind.                         *)
Received == ~overrun /\ ~cut => \E r \in Bytes : Reading \o r = told /\ (~torn => r = down)

(* Moving the first n units of a buffer to the end of what precedes it.      *)
LEMMA MovePart ==
    ASSUME NEW x \in Bytes, NEW s \in Bytes, NEW n \in 0 .. Len(s)
    PROVE  (x \o First(s, n)) \o From(s, n) = x \o s
<1>1. First(s, n) \in Bytes /\ From(s, n) \in Bytes /\ First(s, n) \o From(s, n) = s
  BY BytesParts
<1>2. (x \o First(s, n)) \o From(s, n) = x \o (First(s, n) \o From(s, n))
  BY <1>1, Assoc
<1> QED BY <1>1, <1>2

(* The reader's steps move bytes along, and keep all of them.                *)
LEMMA ReadReceived ==
    ASSUME Typed, Phases, Received, ReadStep
    PROVE  Received'
<1> DEFINE x == got \o messages
<1>0. /\ got \in Bytes /\ messages \in Bytes /\ read_buf \in Bytes /\ plaintext \in Bytes
      /\ down \in Bytes /\ x \in Bytes /\ x \o read_buf \in Bytes /\ Reading \in Bytes
  <2>1. /\ got \in Bytes /\ messages \in Bytes /\ read_buf \in Bytes /\ plaintext \in Bytes
        /\ down \in Bytes
    BY DEF Typed
  <2>2. x \in Bytes
    BY <2>1, JoinType
  <2>3. x \o read_buf \in Bytes
    BY <2>1, <2>2, JoinType
  <2> QED BY <2>1, <2>2, <2>3, JoinType DEF Reading
<1>r. Reading = (x \o read_buf) \o plaintext
  BY DEF Reading
<1> HIDE DEF x
<1>k. ASSUME Reading' = Reading, UNCHANGED <<overrun, cut, torn, down, told>>
      PROVE  Received'
  BY <1>k DEF Received
<1>1. CASE next_message
  <2>1. PICK n \in 0 .. Len(messages) :
          got' = got \o First(messages, n) /\ messages' = From(messages, n)
    BY <1>1, NextMessageParts
  <2>2. got' \o messages' = x
    BY <1>0, <2>1, MovePart DEF x
  <2>3. UNCHANGED <<read_buf, plaintext, overrun, cut, torn, down, told>>
    BY <1>1 DEF next_message, lost, server
  <2> QED BY <1>k, <1>r, <2>2, <2>3 DEF Reading
<1>2. CASE ReadBuffered
  <2>1. PICK n \in 0 .. Len(read_buf) :
          try_extend(First(read_buf, n)) /\ read_buf' = From(read_buf, n)
    BY <1>2, ReadBufferedParts
  <2>2. UNCHANGED <<got, plaintext, cut, torn, down, told>>
    BY <1>2 DEF ReadBuffered, server
  <2>3. CASE overrun'
    BY <2>3 DEF Received
  <2>4. CASE messages' = messages \o First(read_buf, n) /\ UNCHANGED overrun
    <3>1. First(read_buf, n) \in Bytes
      BY <1>0, BytesParts
    <3>a. (got \o messages) \o First(read_buf, n) = got \o (messages \o First(read_buf, n))
      <4>1. got \in Bytes /\ messages \in Bytes
        BY <1>0
      <4> QED BY <3>1, <4>1, Assoc
    <3>2. got' \o messages' = x \o First(read_buf, n)
      BY <2>2, <2>4, <3>a DEF x
    <3>b. (x \o First(read_buf, n)) \o From(read_buf, n) = x \o read_buf
      BY <1>0, MovePart
    <3>3. (got' \o messages') \o read_buf' = x \o read_buf
      BY <2>1, <3>2, <3>b
    <3> QED BY <1>k, <1>r, <2>2, <2>4, <3>3 DEF Reading
  <2> QED BY <2>1, <2>3, <2>4 DEF try_extend
<1>3. CASE ReadSocket
  <2>1. PICK n \in 1 .. Len(down) :
          n <= ReadCapacity /\ read_buf' = First(down, n) /\ down' = From(down, n)
    BY <1>3, ReadSocketParts
  <2>2. UNCHANGED <<got, messages, plaintext, overrun, cut, torn, told>> /\ ~tls /\ read_buf = <<>>
    BY <1>3 DEF ReadSocket, server, lost
  <2>3. plaintext = <<>> /\ ~torn
    BY <2>2 DEF Phases
  <2>4. n \in 0 .. Len(down) /\ First(down, n) \in Bytes /\ From(down, n) \in Bytes
    BY <1>0, BytesLen, BytesParts
  <2>5. Reading = x
    BY <1>0, <1>r, <2>2, <2>3, JoinEmpty
  <2>6. Reading' = x \o First(down, n)
    <3>1. x \o First(down, n) \in Bytes
      BY <1>0, <2>4, JoinType
    <3>2. Reading' = (x \o First(down, n)) \o <<>>
      BY <2>1, <2>2, <2>3 DEF Reading, x
    <3> QED BY <3>1, <3>2, JoinEmpty
  <2>7. Reading' \o down' = Reading \o down
    BY <1>0, <2>1, <2>4, <2>5, <2>6, MovePart
  <2> QED BY <2>1, <2>2, <2>3, <2>4, <2>7 DEF Received
<1>4. CASE ReadPlaintext
  <2>1. PICK n \in 0 .. Len(plaintext) :
          /\ n <= ReadCapacity
          /\ read_buf' = First(plaintext, n) /\ plaintext' = From(plaintext, n)
    BY <1>4, ReadPlaintextParts
  <2>2. UNCHANGED <<got, messages, overrun, cut, torn, down, told>> /\ read_buf = <<>>
    BY <1>4 DEF ReadPlaintext, server, lost
  <2>3. Reading = x \o plaintext
    BY <1>0, <1>r, <2>2, JoinEmpty
  <2>4. Reading' = (x \o First(plaintext, n)) \o From(plaintext, n)
    BY <2>1, <2>2 DEF Reading, x
  <2>5. Reading' = Reading
    BY <1>0, <2>3, <2>4, MovePart
  <2> QED BY <1>k, <2>2, <2>5
<1>5. CASE TlsRead
  <2>1. PICK n \in 1 .. Len(down), m \in 0 .. Len(down) :
          /\ m <= n /\ torn' = (m < n)
          /\ plaintext' = First(down, m) /\ down' = From(down, n)
    BY <1>5, TlsReadParts
  <2>2. /\ UNCHANGED <<got, messages, read_buf, overrun, cut, told>>
        /\ read_buf = <<>> /\ plaintext = <<>> /\ ~torn
    BY <1>5 DEF TlsRead, server
  <2>3. Reading = x
    BY <1>0, <1>r, <2>2, JoinEmpty
  <2>4. Reading' = x \o First(down, m)
    BY <1>0, <2>1, <2>2, JoinEmpty DEF Reading, x
  <2>5. From(down, m) \in Bytes /\ Reading' \o From(down, m) = Reading \o down
    BY <1>0, <2>3, <2>4, BytesParts, MovePart
  <2>6. ~torn' => m = n
    <3>1. ~torn' => ~(m < n)
      BY <2>1, Zenon
    <3>2. Len(down) \in Nat /\ m \in Nat /\ n \in Nat /\ m <= n
      BY <1>0, <2>1, BytesLen
    <3> QED BY <3>1, <3>2
  <2> QED BY <2>1, <2>2, <2>5, <2>6 DEF Received
<1>6. CASE ReadError
  BY <1>6, <1>k DEF ReadError, Reading, readVars, server, lost
<1> QED BY <1>1, <1>2, <1>3, <1>4, <1>5, <1>6 DEF ReadStep

(* Received is inductive.                                                    *)
LEMMA NextReceived ==
    ASSUME Typed, Phases, Received, [Next]_vars
    PROVE  Received'
<1>k. ASSUME UNCHANGED <<readVars, got, overrun, cut, torn, down, told>>
      PROVE  Received'
  BY <1>k DEF Received, Reading, readVars
<1>1. CASE Call
  BY <1>1, <1>k DEF Call, send, encode_and_write, flush, close, read_message, server, lost
<1>2. CASE WriteStep \/ CancelWrite
  BY <1>2, <1>k DEF WriteStep, CancelWrite, TlsWrite, flush_tls_outgoing, SocketWrite,
                    flush_writeOk, WriteError, Unsent, server, lost
<1>3. CASE ReadStep
  BY <1>3, ReadReceived
<1>4. CASE ServerReads \/ Break
  BY <1>4, <1>k DEF ServerReads, Break, server, lost
<1>5. CASE ServerWrites
  <2>1. answer \in Seq(Units) /\ answer # <<>>
    BY <1>5 DEF ServerWrites, Typed, Bytes
  <2>2. Head(answer) \in Units /\ <<Head(answer)>> \in Bytes
    BY <2>1, HeadTailConcat DEF Bytes
  <2>3. down' = down \o <<Head(answer)>> /\ told' = told \o <<Head(answer)>>
    BY <1>5, <2>2, AppendType DEF ServerWrites, Typed
  <2>4. UNCHANGED <<overrun, cut, torn, Reading>>
    BY <1>5 DEF ServerWrites, Reading, readVars, lost
  <2>5. SUFFICES ASSUME ~overrun, ~cut PROVE Received'
    BY <2>4 DEF Received
  <2>6. PICK r \in Bytes : Reading \o r = told /\ (~torn => r = down)
    BY <2>5 DEF Received
  <2>7. Reading \in Bytes
    <3>1. got \o messages \in Bytes
      BY JoinType DEF Typed
    <3>2. got \o messages \o read_buf \in Bytes
      BY <3>1, JoinType DEF Typed
    <3> QED BY <3>2, JoinType DEF Typed, Reading
  <2>8. /\ r \o <<Head(answer)>> \in Bytes
        /\ Reading \o (r \o <<Head(answer)>>) = told'
    BY <2>2, <2>3, <2>6, <2>7, JoinType, Assoc
  <2> QED BY <2>3, <2>4, <2>6, <2>8 DEF Received
<1>6. CASE UNCHANGED vars
  BY <1>6, <1>k DEF vars, server, lost
<1>7. CASE CancelRead
  <2>1. UNCHANGED <<readVars, got, overrun, told>>
    BY <1>7 DEF CancelRead, server
  <2>2. CASE UNCHANGED <<down, torn, cut>>
    BY <2>1, <2>2, <1>k
  <2>3. CASE tls /\ torn' /\ UNCHANGED cut
    BY <2>1, <2>3 DEF Received, Reading, readVars
  <2>4. CASE cut'
    BY <2>4 DEF Received
  <2> QED BY <1>7, <2>2, <2>3, <2>4, CancelReadParts DEF Typed
<1> QED BY <1>1, <1>2, <1>3, <1>4, <1>5, <1>6, <1>7 DEF Next, Server

-----------------------------------------------------------------------------
(* Sending.                                                                  *)

(* The units of the client's messages: none of them looks like garbage.      *)
SentUnits == (1 .. MaxMessages) \X Nat \X Nat

(* After ciphertext was lost: what the socket still holds is a part that     *)
(* decrypts and continues what the server has read, then garbage only.       *)
GarbageTail ==
    \E u, g, r \in Bytes :
        /\ up = u \o g /\ (heard \o u) \o r = asked
        /\ \A i \in 1 .. Len(g) : g[i] = Garbage

(* What was sent is what was asked for, up to what is still in the buffers.  *)
Sending ==
    /\ asked \in Seq(SentUnits)
    /\ SentOnce
    /\ gap /\ ~dead /\ ~resent => GarbageTail
    /\ tls /\ ~resent => \E r \in Bytes : heard \o r = asked

(* Head and tail of a buffer with one unit in front.                         *)
LEMMA ConsHeadTail ==
    ASSUME NEW e \in Units, NEW s \in Bytes
    PROVE  <<e>> \in Bytes /\ <<e>> \o s # <<>> /\ Head(<<e>> \o s) = e /\ Tail(<<e>> \o s) = s
<1> DEFINE w == <<e>> \o s
<1>1. <<e>> \in Seq(Units) /\ Len(<<e>>) = 1
  OBVIOUS
<1>2. s \in Seq(Units) /\ w \in Seq(Units) /\ Len(w) = 1 + Len(s) /\ Len(s) \in Nat
  BY <1>1, ConcatProperties, LenProperties DEF Bytes
<1>3. w # <<>> /\ w[1] = e
  <2>1. w # <<>>
    BY <1>2, EmptySeq
  <2>2. 1 \in 1 .. Len(<<e>>) + Len(s) /\ 1 <= Len(<<e>>) /\ <<e>>[1] = e
    BY <1>1, <1>2
  <2>3. w[1] = <<e>>[1]
    BY <1>1, <1>2, <2>2, ConcatProperties
  <2> QED BY <2>1, <2>2, <2>3
<1>4. Head(w) = e
  BY <1>3
<1>5. <<e>> \o Tail(w) = <<e>> \o s /\ Tail(w) \in Seq(Units)
  BY <1>2, <1>3, <1>4, HeadTailConcat
<1>6. Tail(w) = s
  <2>1. \A a, b, c \in Seq(Units) : a \o b = a \o c => b = c
    BY ConcatSimplifications, Zenon
  <2> QED BY <1>1, <1>2, <1>5, <2>1
<1> QED BY <1>1, <1>3, <1>4, <1>6 DEF Bytes

(* Taking the first unit of the first of two buffers.                        *)
LEMMA HeadOfJoin ==
    ASSUME NEW u \in Bytes, NEW g \in Bytes, u # <<>>
    PROVE  /\ Head(u) \in Units /\ <<Head(u)>> \in Bytes /\ Tail(u) \in Bytes
           /\ <<Head(u)>> \o Tail(u) = u
           /\ u \o g # <<>> /\ Head(u \o g) = Head(u) /\ Tail(u \o g) = Tail(u) \o g
<1>1. /\ Head(u) \in Units /\ <<Head(u)>> \in Bytes /\ Tail(u) \in Bytes
      /\ <<Head(u)>> \o Tail(u) = u
  BY HeadTailConcat DEF Bytes
<1>2. (<<Head(u)>> \o Tail(u)) \o g = <<Head(u)>> \o (Tail(u) \o g)
  BY <1>1, Assoc
<1>3. Tail(u) \o g \in Bytes
  BY <1>1, JoinType
<1>4. u \o g = <<Head(u)>> \o (Tail(u) \o g)
  BY <1>1, <1>2
<1> QED BY <1>1, <1>3, <1>4, ConsHeadTail

(* A step that leaves everything between write_all and the server alone.     *)
LEMMA SendingKept ==
    ASSUME Sending, UNCHANGED <<asked, heard, up, gap, tls, tainted, resent>>, Pending' = Pending,
           dead => dead'
    PROVE  Sending'
BY DEF Sending, SentOnce, GarbageTail

(* A call with more to send, whatever it flushes.                            *)
LEMMA SendingExtended ==
    ASSUME Typed, Phases, Sending, NEW n \in Nat, Extend(n), pc = "idle", Pending' = write_buf',
           UNCHANGED <<heard, up, gap, tls, tainted, resent, dead>>
    PROVE  Sending'
<1> DEFINE m == Message(count + 1, n)
<1>1. m \in Bytes /\ count + 1 \in 1 .. MaxMessages
  BY ExtendType
<1>2. asked' = asked \o m /\ write_buf' = write_buf \o m
  BY DEF Extend
<1>3. asked' \in Seq(SentUnits)
  <2>1. \A i \in 1 .. n : <<count + 1, i, n>> \in SentUnits
    BY <1>1 DEF SentUnits
  <2>2. m \in [1 .. n -> SentUnits]
    BY <2>1 DEF Message
  <2>3. m \in Seq(SentUnits)
    BY <2>2, SeqDef
  <2> QED BY <1>2, <2>3, ConcatProperties DEF Sending
<1> HIDE DEF m
<1>4. heard \in Bytes /\ up \in Bytes /\ asked \in Bytes /\ write_buf \in Bytes
  BY DEF Typed
<1>5. SentOnce'
  <2>1. Pending = write_buf
    BY DEF Pending
  <2>2. heard \o up \in Bytes
    BY <1>4, JoinType
  <2>3. (heard \o up) \o (write_buf \o m) = ((heard \o up) \o write_buf) \o m
    BY <1>1, <1>4, <2>2, Assoc
  <2> QED BY <1>2, <2>1, <2>3 DEF Sending, SentOnce
<1>6. gap' /\ ~dead' /\ ~resent' => GarbageTail'
  <2> SUFFICES ASSUME gap, ~dead, ~resent PROVE GarbageTail'
    OBVIOUS
  <2>1. PICK u, g, r \in Bytes :
          /\ up = u \o g /\ (heard \o u) \o r = asked
          /\ \A i \in 1 .. Len(g) : g[i] = Garbage
    BY DEF Sending, GarbageTail
  <2>2. heard \o u \in Bytes /\ r \o m \in Bytes
    BY <1>1, <1>4, JoinType
  <2>3. (heard \o u) \o (r \o m) = asked'
    <3>1. ((heard \o u) \o r) \o m = (heard \o u) \o (r \o m)
      <4>1. heard \o u \in Bytes /\ r \in Bytes /\ m \in Bytes
        BY <1>1, <2>2
      <4> QED BY <4>1, Assoc
    <3> QED BY <1>2, <2>1, <3>1
  <2> QED BY <2>1, <2>2, <2>3 DEF GarbageTail
<1>7. tls' /\ ~resent' => \E r \in Bytes : heard' \o r = asked'
  <2> SUFFICES ASSUME tls, ~resent PROVE \E r \in Bytes : heard' \o r = asked'
    OBVIOUS
  <2>1. PICK r \in Bytes : heard \o r = asked
    BY DEF Sending
  <2>2. r \o m \in Bytes /\ (heard \o r) \o m = heard \o (r \o m)
    <3>1. heard \in Bytes /\ r \in Bytes /\ m \in Bytes
      BY <1>1, <1>4
    <3>2. r \o m \in Bytes
      BY <3>1, JoinType
    <3>3. (heard \o r) \o m = heard \o (r \o m)
      BY <3>1, Assoc
    <3> QED BY <3>2, <3>3
  <2>3. heard' \o (r \o m) = asked'
    BY <1>2, <2>1, <2>2
  <2> QED BY <2>2, <2>3
<1> QED BY <1>3, <1>5, <1>6, <1>7 DEF Sending

(* flush_write takes over write_buf as it is.                                *)
LEMMA FlushPending ==
    ASSUME Phases, pc = "idle", write_buf' \in Bytes, flush_write(write_buf'), UNCHANGED sendable
    PROVE  Pending' = write_buf'
<1>1. sendable' = <<>>
  BY DEF Phases
<1>2. <<>> \o write_buf' = write_buf'
  BY JoinEmpty
<1> QED BY <1>1, <1>2 DEF flush_write, Inner, Pending

(* A call hands over bytes that were not handed over before.                 *)
LEMMA CallSending ==
    ASSUME Typed, Phases, Sending, Call
    PROVE  Sending'
<1>1. ASSUME NEW n \in Sizes, send(n)
      PROVE  Sending'
  <2>1. write_buf' \in Bytes /\ n \in Nat
    BY <1>1, ExtendType, Sizes0 DEF send
  <2>2. Pending' = write_buf'
    BY <1>1, <2>1, FlushPending DEF send
  <2>3. UNCHANGED <<heard, up, gap, tls, tainted, resent, dead>>
    BY <1>1 DEF send, server, lost
  <2> QED BY <1>1, <2>1, <2>2, <2>3, SendingExtended DEF send
<1>2. ASSUME NEW n \in Sizes, encode_and_write(n)
      PROVE  Sending'
  <2>1. write_buf' \in Bytes /\ n \in Nat
    BY <1>2, ExtendType, Sizes0 DEF encode_and_write
  <2>2. Pending' = write_buf'
    <3>1. CASE flush_write(write_buf')
      BY <1>2, <2>1, <3>1, FlushPending DEF encode_and_write
    <3>2. CASE UNCHANGED pc
      BY <1>2, <3>2 DEF encode_and_write, Pending
    <3> QED BY <1>2, <3>1, <3>2 DEF encode_and_write
  <2>3. UNCHANGED <<heard, up, gap, tls, tainted, resent, dead>>
    BY <1>2 DEF encode_and_write, server, lost
  <2> QED BY <1>2, <2>1, <2>2, <2>3, SendingExtended DEF encode_and_write
<1>3. CASE flush
  <2>1. write_buf' = write_buf /\ write_buf \in Bytes
    BY <1>3 DEF flush, Typed
  <2>2. Pending' = write_buf
    BY <1>3, <2>1, FlushPending DEF flush
  <2>3. UNCHANGED <<asked, heard, up, gap, tls, tainted, resent, dead>> /\ Pending = write_buf
    BY <1>3 DEF flush, server, lost, Pending
  <2> QED BY <2>2, <2>3, SendingKept
<1>4. CASE close
  <2>1. write_buf' \in Bytes
    BY <1>4, ExtendType DEF close
  <2>2. Pending' = write_buf'
    BY <1>4, <2>1, FlushPending DEF close
  <2>3. UNCHANGED <<heard, up, gap, tls, tainted, resent, dead>>
    BY <1>4 DEF close, server, lost
  <2> QED BY <1>4, <2>2, <2>3, SendingExtended DEF close
<1>5. CASE read_message
  <2>1. UNCHANGED <<asked, heard, up, gap, tls, tainted, resent, dead>> /\ Pending' = Pending
    BY <1>5 DEF read_message, writeVars, server, lost, Pending
  <2> QED BY <2>1, SendingKept
<1> QED BY <1>1, <1>2, <1>3, <1>4, <1>5 DEF Call

(* A call that ends in the middle of a write, for either transport.          *)
LEMMA UnsentSending ==
    ASSUME Typed, Phases, Sending, pc = "socket", pc' \in {"idle", "closed"}, Unsent, dead' = dead
    PROVE  Sending'
<1>1. /\ UNCHANGED <<tls, write_buf, up, heard, asked>>
      /\ gap' = (gap \/ (tls /\ out # <<>>)) /\ resent' = (resent \/ (tls /\ out = <<>>))
      /\ tainted' = (tainted \/ tls \/ out # write_buf)
  BY DEF Unsent, server
<1>2. Pending = out /\ Pending' = write_buf
  BY <1>1 DEF Pending
<1>3. SentOnce'
  BY <1>1, <1>2 DEF Sending, SentOnce
<1>4. gap' /\ ~dead' /\ ~resent' => GarbageTail'
  <2> SUFFICES ASSUME gap \/ tls, ~dead, ~resent PROVE GarbageTail'
    BY <1>1
  <2>1. CASE gap
    BY <1>1, <2>1 DEF Sending, GarbageTail
  <2>2. CASE ~gap
    <3>1. ~tainted
      BY <2>2 DEF Phases, Typed
    <3>2. (heard \o up) \o out = asked
      BY <3>1, <1>2 DEF Sending, SentOnce
    <3>3. up \in Bytes /\ out \in Bytes /\ <<>> \in Bytes /\ up = up \o <<>> /\ Len(<<>>) = 0
      BY JoinEmpty, BytesLen DEF Typed
    <3>4. \A i \in 1 .. Len(<<>>) : <<>>[i] = Garbage
      BY <3>3
    <3> QED BY <1>1, <3>2, <3>3, <3>4 DEF GarbageTail
  <2> QED BY <2>1, <2>2
<1> QED BY <1>1, <1>3, <1>4 DEF Sending

(* A step of a write moves bytes on, each once and in order.                 *)
LEMMA WriteSending ==
    ASSUME Typed, Phases, Sending, WriteStep \/ CancelWrite
    PROVE  Sending'
<1>1. CASE TlsWrite
  <2>1. PICK n \in 0 .. Len(left) :
          /\ Len(sendable) + n <= SendLimit
          /\ sendable' = sendable \o First(left, n) /\ left' = From(left, n)
    BY <1>1, TlsWriteParts
  <2>2. (sendable \o First(left, n)) \o From(left, n) = sendable \o left
    BY MovePart DEF Typed
  <2>3. Pending' = Pending
    BY <1>1, <2>1, <2>2 DEF TlsWrite, Pending
  <2>4. UNCHANGED <<asked, heard, up, gap, tls, tainted, resent, dead>>
    BY <1>1 DEF TlsWrite, server, lost
  <2> QED BY <2>3, <2>4, SendingKept
<1>2. CASE flush_tls_outgoing
  <2>1. sendable \o <<>> = sendable
    BY JoinEmpty DEF Typed
  <2>2. Pending' = Pending
    BY <1>2, <2>1 DEF flush_tls_outgoing, Pending
  <2>3. UNCHANGED <<asked, heard, up, gap, tls, tainted, resent, dead>>
    BY <1>2 DEF flush_tls_outgoing, server, lost
  <2> QED BY <2>2, <2>3, SendingKept
<1>3. CASE SocketWrite
  <2>1. PICK n \in 1 .. Len(out) :
          /\ Len(up) + n <= Capacity
          /\ up' = up \o Wire(First(out, n)) /\ out' = From(out, n)
    BY <1>3, SocketWriteParts
  <2>2. UNCHANGED <<asked, heard, gap, tls, tainted, resent, dead, pc>> /\ pc = "socket"
    BY <1>3 DEF SocketWrite, server, lost
  <2>3. Pending = out /\ Pending' = out'
    BY <2>2 DEF Pending
  <2> DEFINE f == First(out, n)
  <2>4. /\ heard \in Bytes /\ up \in Bytes /\ out \in Bytes /\ n \in 0 .. Len(out)
        /\ f \in Bytes /\ Wire(f) \in Bytes
    <3>1. heard \in Bytes /\ up \in Bytes /\ out \in Bytes /\ n \in 0 .. Len(out)
      BY BytesLen DEF Typed
    <3>2. f \in Bytes
      BY <3>1, BytesParts
    <3> QED BY <3>1, <3>2, WireType
  <2>5. SentOnce'
    <3> SUFFICES ASSUME ~tainted PROVE (heard \o up') \o out' = asked
      BY <2>2, <2>3 DEF SentOnce
    <3>1. ~gap
      BY DEF Phases
    <3>2. Wire(f) = f
      BY <2>4, <3>1, WireType
    <3>3. heard \o (up \o f) = (heard \o up) \o f
      BY <2>4, Assoc, Zenon
    <3>4. heard \o up \in Bytes
      BY <2>4, JoinType
    <3>5. ((heard \o up) \o f) \o From(out, n) = (heard \o up) \o out
      BY <2>4, <3>4, MovePart
    <3>6. (heard \o up) \o out = asked
      BY <2>3 DEF Sending, SentOnce
    <3> QED BY <2>1, <3>2, <3>3, <3>5, <3>6
  <2>6. gap' /\ ~dead' /\ ~resent' => GarbageTail'
    <3> SUFFICES ASSUME gap, ~dead, ~resent PROVE GarbageTail'
      BY <2>2
    <3>1. PICK u, g, r \in Bytes :
            /\ up = u \o g /\ (heard \o u) \o r = asked
            /\ \A i \in 1 .. Len(g) : g[i] = Garbage
      BY DEF Sending, GarbageTail
    <3> DEFINE w == Wire(f)
    <3>2. g \o w \in Bytes /\ (u \o g) \o w = u \o (g \o w)
      <4>1. u \in Bytes /\ g \in Bytes /\ w \in Bytes
        BY <2>4
      <4>2. g \o w \in Bytes
        BY <4>1, JoinType
      <4>3. (u \o g) \o w = u \o (g \o w)
        BY <4>1, Assoc
      <4> QED BY <4>2, <4>3
    <3>3. \A i \in 1 .. Len(g \o w) : (g \o w)[i] = Garbage
      <4>1. /\ g \in Seq(Units) /\ w \in Seq(Units) /\ Len(g) \in Nat /\ Len(w) \in Nat
        BY <2>4, BytesLen DEF Bytes
      <4>2. \A i \in 1 .. Len(w) : w[i] = Garbage
        BY <2>4, WireType
      <4>3. /\ Len(g \o w) = Len(g) + Len(w)
            /\ \A i \in 1 .. Len(g) + Len(w) :
                 (g \o w)[i] = IF i <= Len(g) THEN g[i] ELSE w[i - Len(g)]
        BY <4>1, ConcatProperties
      <4> HIDE DEF w
      <4> QED BY <3>1, <4>1, <4>2, <4>3
    <3>4. up' = u \o (g \o w)
      BY <2>1, <3>1, <3>2
    <3> HIDE DEF w
    <3> QED BY <2>2, <3>1, <3>2, <3>3, <3>4 DEF GarbageTail
  <2> QED BY <2>2, <2>5, <2>6 DEF Sending
<1>4. CASE flush_writeOk
  <2>1. Pending' = Pending
    BY <1>4 DEF flush_writeOk, Written, Pending
  <2>2. UNCHANGED <<asked, heard, up, gap, tls, tainted, resent, dead>>
    BY <1>4 DEF flush_writeOk, server, lost
  <2> QED BY <2>1, <2>2, SendingKept
<1>5. CASE WriteError
  BY <1>5, UnsentSending DEF WriteError
<1>6. CASE CancelWrite
  BY <1>6, UnsentSending DEF CancelWrite
<1> QED BY <1>1, <1>2, <1>3, <1>4, <1>5, <1>6 DEF WriteStep

(* The server reads one unit.                                                *)
LEMMA ServerReadsSending ==
    ASSUME Typed, Phases, Sending, ServerReads
    PROVE  Sending'
<1> DEFINE h == Head(up)
<1>0. heard \in Bytes /\ up \in Bytes /\ up # <<>> /\ asked \in Bytes /\ Pending \in Bytes
  BY JoinType DEF Typed, ServerReads, Pending
<1>1. /\ UNCHANGED <<asked, gap, tls, tainted, resent>> /\ Pending' = Pending
      /\ up' = Tail(up) /\ ~dead
  BY DEF ServerReads, writeVars, lost, Pending
<1>2. /\ h \in Units /\ <<h>> \in Bytes /\ Tail(up) \in Bytes /\ <<h>> \o Tail(up) = up
  BY <1>0, HeadTailConcat DEF Bytes
<1>3. \/ h = Garbage /\ dead' /\ heard' = heard
      \/ h # Garbage /\ dead' = dead /\ heard' = heard \o <<h>>
  BY <1>0, <1>2, AppendType DEF ServerReads
<1> HIDE DEF h
<1>h. \A t \in Bytes : (heard \o <<h>>) \o t = heard \o (<<h>> \o t)
  <2>1. PICK x \in Bytes : x = <<h>>
    BY <1>2
  <2>2. heard \in Bytes
    BY <1>0
  <2>3. \A t \in Bytes : (heard \o x) \o t = heard \o (x \o t)
    BY <2>2, Assoc
  <2> QED BY <2>1, <2>3, Zenon
<1>4. CASE ~tainted
  <2>1. (heard \o up) \o Pending = asked
    BY <1>4 DEF Sending, SentOnce
  <2>2. h # Garbage
    <3>1. /\ heard \in Seq(Units) /\ up \in Seq(Units) /\ Pending \in Seq(Units)
          /\ heard \o up \in Seq(Units)
      BY <1>0, JoinType DEF Bytes
    <3>2. Len(heard) \in Nat /\ Len(up) \in Nat \ {0} /\ Len(Pending) \in Nat
      BY <1>0, <3>1, LenProperties, EmptySeq
    <3>3. /\ Len(heard \o up) = Len(heard) + Len(up)
          /\ (heard \o up)[Len(heard) + 1] = up[1]
      <4>1. \A i \in 1 .. Len(heard) + Len(up) : (heard \o up)[i] =
              IF i <= Len(heard) THEN heard[i] ELSE up[i - Len(heard)]
        BY <3>1, ConcatProperties
      <4>2. Len(heard \o up) = Len(heard) + Len(up)
        BY <3>1, ConcatProperties
      <4>3. /\ Len(heard) + 1 \in 1 .. Len(heard) + Len(up)
            /\ ~(Len(heard) + 1 <= Len(heard)) /\ Len(heard) + 1 - Len(heard) = 1
        BY <3>2
      <4> QED BY <4>1, <4>2, <4>3
    <3>4. /\ Len(asked) = Len(heard) + Len(up) + Len(Pending)
          /\ asked[Len(heard) + 1] = (heard \o up)[Len(heard) + 1]
      <4>1. \A i \in 1 .. Len(heard \o up) + Len(Pending) : asked[i] =
              IF i <= Len(heard \o up) THEN (heard \o up)[i] ELSE Pending[i - Len(heard \o up)]
        BY <2>1, <3>1, ConcatProperties
      <4>2. Len(asked) = Len(heard \o up) + Len(Pending)
        BY <2>1, <3>1, ConcatProperties
      <4> QED BY <3>2, <3>3, <4>1, <4>2
    <3>5. Len(heard) + 1 \in 1 .. Len(asked) /\ asked \in Seq(SentUnits)
      BY <3>2, <3>4 DEF Sending
    <3>6. up[1] \in SentUnits
      BY <3>3, <3>4, <3>5, ElementOfSeq
    <3>7. h = up[1]
      BY <3>2 DEF h
    <3> QED BY <3>6, <3>7 DEF SentUnits, Garbage
  <2>3. heard' = heard \o <<h>> /\ dead' = dead
    BY <1>3, <2>2
  <2>4. (heard \o <<h>>) \o Tail(up) = heard \o (<<h>> \o Tail(up))
    BY <1>2, <1>h
  <2>5. heard' \o up' = heard \o up
    BY <1>1, <1>2, <2>3, <2>4
  <2>6. SentOnce'
    BY <1>1, <2>1, <2>5 DEF SentOnce
  <2>7. ~gap'
    BY <1>1, <1>4 DEF Phases
  <2>8. \E r \in Bytes : heard' \o r = asked'
    <3>1. heard' \in Bytes /\ up' \in Bytes
      BY <1>0, <1>1, <1>2, <2>3, JoinType
    <3>2. up' \o Pending \in Bytes /\ (heard' \o up') \o Pending = heard' \o (up' \o Pending)
      <4>1. heard' \in Bytes /\ up' \in Bytes /\ Pending \in Bytes
        BY <1>0, <3>1
      <4>2. up' \o Pending \in Bytes
        BY <4>1, JoinType
      <4>3. (heard' \o up') \o Pending = heard' \o (up' \o Pending)
        BY <4>1, Assoc
      <4> QED BY <4>2, <4>3
    <3> QED BY <1>1, <2>1, <2>5, <3>2
  <2> QED BY <1>1, <2>6, <2>7, <2>8 DEF Sending
<1>5. CASE tainted /\ ~tls
  BY <1>1, <1>5 DEF Sending, SentOnce, Phases
<1>6. CASE tainted /\ resent
  BY <1>1, <1>6 DEF Sending, SentOnce
<1>7. CASE tainted /\ tls /\ ~resent
  <2>1. gap
    BY <1>7 DEF Phases
  <2>2. PICK u, g, r \in Bytes :
          /\ up = u \o g /\ (heard \o u) \o r = asked
          /\ \A i \in 1 .. Len(g) : g[i] = Garbage
    BY <1>1, <1>7, <2>1 DEF Sending, GarbageTail
  <2>3. CASE h = Garbage
    BY <1>1, <1>3, <1>7, <2>3 DEF Sending, SentOnce
  <2>4. CASE h # Garbage
    <3>1. u # <<>>
      <4> SUFFICES ASSUME u = <<>> PROVE FALSE
        OBVIOUS
      <4>1. up = g
        BY <2>2, JoinEmpty
      <4>2. Len(g) > 0 /\ Len(g) \in Nat
        BY <1>0, <4>1, BytesLen
      <4>3. up[1] = Garbage
        BY <2>2, <4>1, <4>2
      <4>4. h = up[1]
        BY <4>1, <4>2 DEF h
      <4> QED BY <2>4, <4>3, <4>4
    <3>2. h = Head(u) /\ Tail(up) = Tail(u) \o g /\ Tail(u) \in Bytes /\ <<h>> \o Tail(u) = u
      BY <2>2, <3>1, HeadOfJoin DEF h
    <3>3. heard' = heard \o <<h>>
      BY <1>3, <2>4
    <3>4. (heard \o <<h>>) \o Tail(u) = heard \o (<<h>> \o Tail(u))
      BY <1>h, <3>2
    <3>5. (heard' \o Tail(u)) \o r = asked'
      BY <1>1, <2>2, <3>2, <3>3, <3>4
    <3>6. GarbageTail'
      BY <1>1, <2>2, <3>2, <3>5 DEF GarbageTail
    <3>7. \E q \in Bytes : heard' \o q = asked'
      <4>1. heard' \in Bytes
        BY <1>0, <1>2, <3>3, JoinType
      <4>2. Tail(u) \o r \in Bytes /\ (heard' \o Tail(u)) \o r = heard' \o (Tail(u) \o r)
        BY <3>2, <4>1, JoinType, Assoc, Zenon
      <4> QED BY <3>5, <4>2
    <3> QED BY <1>1, <1>7, <3>6, <3>7 DEF Sending, SentOnce
  <2> QED BY <2>3, <2>4
<1> QED BY <1>4, <1>5, <1>6, <1>7 DEF Typed

(* Sending is inductive.                                                     *)
LEMMA NextSending ==
    ASSUME Typed, Phases, Sending, [Next]_vars
    PROVE  Sending'
<1>1. CASE ReadStep \/ CancelRead
  <2>1. UNCHANGED <<asked, heard, up, gap, tls, tainted, resent, dead, write_buf>>
    BY <1>1 DEF ReadStep, next_message, ReadBuffered, ReadSocket, ReadPlaintext, TlsRead, ReadError,
                CancelRead, writeVars, server, lost
  <2>2. pc = "read" /\ pc' \in {"read", "idle"}
    BY <1>1 DEF ReadStep, next_message, ReadBuffered, ReadSocket, ReadPlaintext, TlsRead, ReadError,
                CancelRead, try_extend
  <2> QED BY <2>1, <2>2, SendingKept DEF Pending
<1>2. CASE ServerWrites \/ Break
  <2>1. UNCHANGED <<asked, heard, up, gap, tls, tainted, resent, Pending>> /\ (dead => dead')
    BY <1>2 DEF ServerWrites, Break, writeVars, server, lost, Pending
  <2> QED BY <2>1, SendingKept
<1>3. CASE UNCHANGED vars
  <2>1. UNCHANGED <<asked, heard, up, gap, tls, tainted, resent, Pending, dead>>
    BY <1>3 DEF vars, writeVars, server, lost, Pending
  <2> QED BY <2>1, SendingKept
<1> QED BY <1>1, <1>2, <1>3, CallSending, WriteSending, ServerReadsSending DEF Next, Server

-----------------------------------------------------------------------------
(* The inductive invariant of the transport.                                 *)
TransportInv == Typed /\ Phases /\ Received /\ Sending

(* TransportInv holds in the beginning.                                      *)
LEMMA InitTransport == Init => TransportInv
<1> SUFFICES ASSUME Init PROVE TransportInv
  OBVIOUS
<1>1. Typed
  BY InitTyped
<1>2. Phases
  BY DEF Init, Phases
<1>3. <<>> \in Bytes /\ <<>> \o <<>> = <<>> /\ <<>> \in Seq(SentUnits)
  BY BytesLen, JoinEmpty
<1>4. Received
  BY <1>3 DEF Init, Received, Reading
<1>5. Pending = <<>>
  BY DEF Init, Pending
<1>6. Sending
  BY <1>3, <1>5 DEF Init, Sending, SentOnce
<1> QED BY <1>1, <1>2, <1>4, <1>6 DEF TransportInv

(* TransportInv is kept by every step.                                       *)
LEMMA NextTransport ==
    ASSUME TransportInv, [Next]_vars
    PROVE  TransportInv'
BY NextTyped, NextPhases, NextReceived, NextSending DEF TransportInv

(* TransportInv holds in every reachable state.                              *)
LEMMA TransportInvAlways == Spec => []TransportInv
<1>1. TransportInv /\ [Next]_vars => TransportInv'
  BY NextTransport
<1> QED BY <1>1, InitTransport, PTL DEF Spec

(* As long as no call ended with write_buf partly on the socket, every byte  *)
(* handed to write_all is in exactly one place and in its order.             *)
THEOREM TransportSentOnce == Spec => []SentOnce
<1>1. TransportInv => SentOnce
  BY DEF TransportInv, Sending
<1> QED BY <1>1, TransportInvAlways, PTL

(* Over TLS the server reads a beginning of what was written, whatever was   *)
(* abandoned and however often: lost ciphertext ends the connection before   *)
(* any byte could be read twice.  The exception is a write that was          *)
(* abandoned when all of it was on the socket, before write_buf was cleared. *)
THEOREM TransportTlsNeverRepeats == Spec => []TlsNeverRepeats
<1>1. TransportInv => TlsNeverRepeats
  <2> SUFFICES ASSUME TransportInv, tls, ~resent
               PROVE  \E n \in 0 .. Len(asked) : heard = First(asked, n)
    BY DEF TlsNeverRepeats
  <2>1. PICK r \in Bytes : heard \o r = asked
    BY DEF TransportInv, Sending
  <2>2. heard \in Bytes
    BY DEF TransportInv, Typed
  <2>3. Len(heard) \in 0 .. Len(heard \o r) /\ heard = First(heard \o r, Len(heard))
    BY <2>2, FirstOfConcat DEF Bytes
  <2> QED BY <2>1, <2>3
<1> QED BY <1>1, TransportInvAlways, PTL

(* No received byte is lost, doubled or moved, except what read_tls left,    *)
(* what try_extend refused and what an abandoned read had taken already.     *)
THEOREM TransportReceivedOnce == Spec => []ReceivedOnce
<1>1. TransportInv => ReceivedOnce
  BY DEF TransportInv, Received, Reading, ReceivedOnce
<1> QED BY <1>1, TransportInvAlways, PTL

(* What next_message has delivered is a beginning of what the server sent,   *)
(* even after ciphertext was left behind, until bytes are dropped above TLS. *)
THEOREM TransportDeliveredPrefix == Spec => []DeliveredPrefix
<1>1. TransportInv => DeliveredPrefix
  <2> SUFFICES ASSUME TransportInv, ~overrun, ~cut
               PROVE  \E n \in 0 .. Len(told) : got = First(told, n)
    BY DEF DeliveredPrefix
  <2>1. PICK r \in Bytes : Reading \o r = told
    BY DEF TransportInv, Received
  <2>2. got \in Bytes /\ messages \in Bytes /\ read_buf \in Bytes /\ plaintext \in Bytes
    BY DEF TransportInv, Typed
  <2> DEFINE a == plaintext \o r
             b == read_buf \o a
             c == messages \o b
  <2>3. a \in Bytes
    BY <2>2, JoinType
  <2>4. b \in Bytes
    BY <2>2, <2>3, JoinType
  <2>5. c \in Bytes
    BY <2>2, <2>4, JoinType
  <2>6. got \o messages \in Bytes /\ (got \o messages) \o read_buf \in Bytes
    <3>1. got \o messages \in Bytes
      BY <2>2, JoinType
    <3> QED BY <2>2, <3>1, JoinType
  <2>7. Reading \o r = ((got \o messages) \o read_buf) \o a
    <3> DEFINE x == (got \o messages) \o read_buf
    <3>1. Reading \o r = (x \o plaintext) \o r
      BY DEF Reading
    <3>2. x \in Bytes /\ plaintext \in Bytes /\ r \in Bytes
      BY <2>1, <2>2, <2>6
    <3>3. (x \o plaintext) \o r = x \o (plaintext \o r)
      <4> HIDE DEF x
      <4> QED BY <3>2, Assoc
    <3> QED BY <3>1, <3>3
  <2>8. ((got \o messages) \o read_buf) \o a = (got \o messages) \o b
    <3> HIDE DEF a
    <3>1. got \o messages \in Bytes /\ read_buf \in Bytes /\ a \in Bytes
      BY <2>2, <2>3, <2>6
    <3> QED BY <3>1, Assoc
  <2>9. (got \o messages) \o b = got \o c
    <3> HIDE DEF a, b
    <3>1. got \in Bytes /\ messages \in Bytes /\ b \in Bytes
      BY <2>2, <2>4
    <3> QED BY <3>1, Assoc
  <2> HIDE DEF a, b, c
  <2>10. Len(got) \in 0 .. Len(got \o c) /\ got = First(got \o c, Len(got))
    BY <2>2, <2>5, FirstOfConcat DEF Bytes
  <2> QED BY <2>1, <2>7, <2>8, <2>9, <2>10
<1> QED BY <1>1, TransportInvAlways, PTL
=============================================================================

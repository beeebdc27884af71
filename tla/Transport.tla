----------------------------- MODULE Transport -----------------------------
(***************************************************************************)
(* The byte stream under the protocol: Codec (auth/mod.rs), MessageBuffer  *)
(* (protocol/buffer.rs), BufferedTransport and TlsTransport (transport/),  *)
(* the socket, and a server that answers messages.                         *)
(*                                                                         *)
(* Bytes are units <<k, i, n>>: the i-th of the n units of message k.      *)
(* Every await of the code is a point where the future may be dropped      *)
(* (CancelWrite, CancelRead); fields survive that, local variables do not. *)
(* Module Connection assumes that a message reaches the server once and as *)
(* a whole; this module is about when that is so.                          *)
(***************************************************************************)
EXTENDS Naturals, Sequences

CONSTANTS
    Sizes,         \* sizes of the messages that the client sends
    AnswerSizes,   \* sizes of the server's answers
    MaxMessages,   \* bound: messages sent
    MaxCancels,    \* bound: writes and lossy reads abandoned at the socket
    Threshold,     \* WRITE_BUFFER_FLUSH_THRESHOLD
    SendLimit,     \* what rustls buffers before its writer takes nothing more
    Take,          \* what one call of read_tls takes of the bytes offered
    CipherBuf,     \* size of cipher_buf in TlsTransport::read
    ReadCapacity,  \* size of BufferedTransport's read_buf
    TmpBuf,        \* size of tmp in Codec::read_message
    max_buffered_bytes,
    Capacity       \* what the sockets hold in each direction

ASSUME SizesAssumption ==
    /\ Sizes \subseteq Nat \ {0} /\ AnswerSizes \subseteq Nat \ {0}
    /\ {MaxMessages, MaxCancels, Threshold, SendLimit, Take, CipherBuf, ReadCapacity, TmpBuf,
        max_buffered_bytes, Capacity} \subseteq Nat \ {0}

VARIABLES
    tls,       \* PgTransport::Tls or Plain
    batch,     \* whether the caller sends on without reading the answers
    pc,        \* the await of the call under way, or "idle"
    closing,   \* the call is close()
    write_buf,
    left,      \* write_all over TLS: what the writer has not taken
    sendable,  \* ciphertext that rustls holds
    out,       \* the socket's write_all: what is still to be written
    gap,       \* rustls has produced ciphertext that was never sent
    up, down,  \* the two directions of the socket
    answer,    \* what the server has still to send
    plaintext, \* what rustls has decrypted
    read_buf,  \* BufferedTransport's read_buf[read_pos..read_len]
    messages,  \* Codec's read_buf
    dead,      \* the connection is gone
    asked, heard, told, got,  \* history: bytes written, read by the server, sent by it, delivered
    count,     \* history: messages written
    cancels,   \* history: writes and lossy reads abandoned
    torn,      \* history: ciphertext dropped between read and read_tls
    cut,       \* history: bytes of a plain socket dropped with an abandoned read
    overrun,   \* history: bytes dropped by a refused try_extend
    tainted,   \* history: a call ended with part of write_buf on the socket
    resent     \* history: one over TLS ended with all of it there, uncleared

writeVars == <<closing, write_buf, left, sendable, out, gap>>
readVars  == <<plaintext, read_buf, messages>>
server    == <<heard, told, answer>>
lost      == <<cancels, torn, cut, overrun, tainted, resent>>
vars == <<tls, batch, pc, writeVars, up, down, server, readVars, dead, asked, got, count, lost>>

Message(k, n) == [i \in 1 .. n |-> <<k, i, n>>]
Garbage == <<0, 0, 0>>   \* what a receiver cannot decrypt

First(s, n) == SubSeq(s, 1, n)
From(s, n)  == SubSeq(s, n + 1, Len(s))
Least(m, n) == IF m < n THEN m ELSE n

Init ==
    /\ tls \in BOOLEAN /\ batch \in BOOLEAN
    /\ pc = "idle" /\ closing = FALSE
    /\ write_buf = <<>> /\ left = <<>> /\ sendable = <<>> /\ out = <<>> /\ gap = FALSE
    /\ up = <<>> /\ down = <<>> /\ answer = <<>>
    /\ plaintext = <<>> /\ read_buf = <<>> /\ messages = <<>>
    /\ dead = FALSE
    /\ asked = <<>> /\ heard = <<>> /\ told = <<>> /\ got = <<>> /\ count = 0
    /\ cancels = 0 /\ torn = FALSE /\ cut = FALSE /\ overrun = FALSE
    /\ tainted = FALSE /\ resent = FALSE

-----------------------------------------------------------------------------
(* Writing.                                                                  *)
(* Mutant: Connection sends in any state.                                    *)
QuietNever == TRUE

(* The connection is Idle: everything that was sent is answered and read.    *)
Quiet == asked = heard /\ answer = <<>> /\ got = told

Extend(n) ==
    /\ count < MaxMessages /\ count' = count + 1
    /\ write_buf' = write_buf \o Message(count + 1, n)
    /\ asked' = asked \o Message(count + 1, n)

(* PgTransport: the call goes to rustls or to the socket.                    *)
Inner(secured, plain) == IF tls THEN secured ELSE plain

(* BufferedTransport::flush_write: hand the buffer to the inner write_all.   *)
flush_write(buf) ==
    IF buf = <<>> THEN pc' = "idle" /\ UNCHANGED <<left, out>>
    ELSE Inner(/\ pc' = "encrypt" /\ left' = buf /\ UNCHANGED out,
               /\ pc' = "socket" /\ out' = buf /\ UNCHANGED left)

(* Codec::send: write_all and flush.                                         *)
send(n) ==
    /\ pc = "idle" /\ (batch \/ Quiet)
    /\ Extend(n) /\ flush_write(write_buf')
    /\ UNCHANGED <<tls, batch, closing, sendable, gap, up, down, server, readVars, dead, got, lost>>

(* Codec::encode_and_write: write_all, which flushes at the threshold.       *)
encode_and_write(n) ==
    /\ pc = "idle" /\ batch
    /\ Extend(n)
    /\ IF Len(write_buf') >= Threshold THEN flush_write(write_buf')
       ELSE UNCHANGED <<pc, left, out>>
    /\ UNCHANGED <<tls, batch, closing, sendable, gap, up, down, server, readVars, dead, got, lost>>

flush ==
    /\ pc = "idle" /\ flush_write(write_buf)
    /\ UNCHANGED <<tls, batch, closing, write_buf, sendable, gap, up, down, server, readVars, dead,
                   asked, got, count, lost>>

(* Connection::close: Terminate, then shutdown; errors are ignored.          *)
close ==
    /\ pc = "idle"
    /\ closing' = TRUE /\ Extend(1) /\ flush_write(write_buf')
    /\ UNCHANGED <<tls, batch, sendable, gap, up, down, server, readVars, dead, got, lost>>

(* TlsTransport::write_all: the writer takes what its limit leaves room for; *)
(* there is no await in the loop, and no progress once rustls is full.       *)
TlsWrite ==
    /\ pc = "encrypt" /\ left # <<>>
    /\ LET n == Least(Len(left), SendLimit - Len(sendable))
       IN  n > 0 /\ sendable' = sendable \o First(left, n) /\ left' = From(left, n)
    /\ UNCHANGED <<tls, batch, pc, closing, write_buf, out, gap, up, down, server, readVars, dead,
                   asked, got, count, lost>>

(* flush_tls_outgoing: the ciphertext moves into a local variable.           *)
flush_tls_outgoing ==
    /\ pc = "encrypt" /\ left = <<>>
    /\ pc' = "socket" /\ out' = sendable /\ sendable' = <<>>
    /\ UNCHANGED <<tls, batch, closing, write_buf, left, gap, up, down, server, readVars, dead,
                   asked, got, count, lost>>

(* The socket accepts part of what write_all has left; TLS records that      *)
(* follow a lost one cannot be decrypted.                                    *)
Wire(s) == IF gap THEN [i \in DOMAIN s |-> Garbage] ELSE s

SocketWrite ==
    /\ pc = "socket" /\ out # <<>> /\ ~dead
    /\ \E n \in 1 .. Least(Len(out), Capacity - Len(up)) :
        up' = up \o Wire(First(out, n)) /\ out' = From(out, n)
    /\ UNCHANGED <<tls, batch, pc, closing, write_buf, left, sendable, gap, down, server, readVars,
                   dead, asked, got, count, lost>>

(* Mutant: the buffer is cleared by the next write.                          *)
WrittenKept == UNCHANGED write_buf

(* write_all has returned Ok: only now is write_buf cleared.                 *)
Written == write_buf' = <<>>

flush_writeOk ==
    /\ pc = "socket" /\ out = <<>>
    /\ Written
    /\ pc' = IF closing THEN "closed" ELSE "idle"
    /\ UNCHANGED <<tls, batch, closing, left, sendable, out, gap, up, down, server, readVars, dead,
                   asked, got, count, lost>>

(* Mutant: the ciphertext stays with rustls, as if write_tls had failed.     *)
UnsentRequeued ==
    /\ out' = <<>> /\ closing' = FALSE
    /\ sendable' = (IF tls THEN out ELSE sendable)
    /\ tainted' = (tainted \/ tls \/ out # write_buf)
    /\ UNCHANGED <<tls, batch, write_buf, left, gap, up, down, server, readVars, asked, got,
                   count, torn, cut, overrun, resent>>

(* A call fails or is dropped while write_all waits for the socket.  Its     *)
(* local variables are gone: over TLS the ciphertext, so the records that    *)
(* follow will not fit, unless all of it was out; write_buf still holds      *)
(* everything.                                                               *)
Unsent ==
    /\ out' = <<>> /\ closing' = FALSE
    /\ gap' = (gap \/ (tls /\ out # <<>>))
    /\ tainted' = (tainted \/ tls \/ out # write_buf)
    /\ resent' = (resent \/ (tls /\ out = <<>>))
    /\ UNCHANGED <<tls, batch, write_buf, left, sendable, up, down, server, readVars, asked, got,
                   count, torn, cut, overrun>>

(* The caller drops the future of a write.  A WASI stream may have taken     *)
(* everything by then.                                                       *)
CancelWrite ==
    /\ pc = "socket" /\ cancels < MaxCancels
    /\ pc' = "idle" /\ cancels' = cancels + 1 /\ Unsent /\ UNCHANGED dead

WriteError ==
    /\ pc = "socket" /\ out # <<>> /\ dead
    /\ pc' = IF closing THEN "closed" ELSE "idle"
    /\ Unsent /\ UNCHANGED <<dead, cancels>>

-----------------------------------------------------------------------------
(* Reading.                                                                  *)
Complete(b) == b # <<>> /\ b[1][2] = 1 /\ Len(b) >= b[1][3]

(* Codec::read_message.                                                      *)
read_message ==
    /\ pc = "idle" /\ pc' = "read"
    /\ UNCHANGED <<tls, batch, writeVars, up, down, server, readVars, dead, asked, got, count, lost>>

next_message ==
    /\ pc = "read" /\ Complete(messages)
    /\ LET n == messages[1][3]
       IN  got' = got \o First(messages, n) /\ messages' = From(messages, n)
    /\ pc' = "idle"
    /\ UNCHANGED <<tls, batch, writeVars, up, down, server, plaintext, read_buf, dead, asked, count,
                   lost>>

(* Mutant: extend without the limit.                                         *)
TryExtendUnlimited(data) == messages' = messages \o data /\ UNCHANGED <<overrun, pc>>

(* MessageBuffer::try_extend: over the limit the bytes are dropped.          *)
try_extend(data) ==
    IF Len(messages) + Len(data) > max_buffered_bytes
    THEN overrun' = TRUE /\ pc' = "idle" /\ UNCHANGED messages
    ELSE messages' = messages \o data /\ UNCHANGED <<overrun, pc>>

(* BufferedTransport::read with bytes in read_buf ...                        *)
ReadBuffered ==
    /\ pc = "read" /\ ~Complete(messages) /\ read_buf # <<>>
    /\ LET n == Least(TmpBuf, Len(read_buf))
       IN  try_extend(First(read_buf, n)) /\ read_buf' = From(read_buf, n)
    /\ UNCHANGED <<tls, batch, writeVars, up, down, server, plaintext, dead, asked, got, count, cancels,
                   torn, cut, tainted, resent>>

(* ... and without: fill it from the socket, or from what rustls has.        *)
Refill(source, n) == read_buf' = First(source, n)

ReadSocket ==
    /\ pc = "read" /\ ~Complete(messages) /\ read_buf = <<>> /\ ~tls
    /\ \E n \in 1 .. Least(ReadCapacity, Len(down)) : Refill(down, n) /\ down' = From(down, n)
    /\ UNCHANGED <<tls, batch, pc, writeVars, up, server, plaintext, messages, dead, asked, got,
                   count, lost>>

ReadPlaintext ==
    /\ pc = "read" /\ ~Complete(messages) /\ read_buf = <<>> /\ tls /\ plaintext # <<>>
    /\ LET n == Least(ReadCapacity, Len(plaintext))
       IN  Refill(plaintext, n) /\ plaintext' = From(plaintext, n)
    /\ UNCHANGED <<tls, batch, pc, writeVars, up, down, server, messages, dead, asked, got, count,
                   lost>>

(* Mutant: the loop offers the same bytes to read_tls twice.                 *)
TlsReadTwice ==
    /\ pc = "read" /\ ~Complete(messages) /\ read_buf = <<>> /\ tls /\ plaintext = <<>> /\ ~torn
    /\ \E n \in 1 .. Least(CipherBuf, Len(down)) :
        /\ plaintext' = First(down, Least(n, Take)) \o First(down, Least(n, Take))
        /\ down' = From(down, n) /\ torn' = (Least(n, Take) < n)
    /\ UNCHANGED <<tls, batch, pc, writeVars, up, server, read_buf, messages, dead, asked, got,
                   count, cancels, cut, overrun, tainted, resent>>

(* Mutant: what does not decrypt is skipped.                                 *)
TlsReadSkips ==
    /\ pc = "read" /\ ~Complete(messages) /\ read_buf = <<>> /\ tls /\ plaintext = <<>>
    /\ \E n \in 1 .. Least(CipherBuf, Len(down)) :
        /\ plaintext' = First(down, Least(n, Take))
        /\ down' = From(down, n) /\ torn' = (torn \/ Least(n, Take) < n)
    /\ UNCHANGED <<tls, batch, pc, writeVars, up, server, read_buf, messages, dead, asked, got,
                   count, cancels, cut, overrun, tainted, resent>>

(* TlsTransport::read: one read of ciphertext, of which read_tls may take    *)
(* less; the rest of cipher_buf is not offered again.                        *)
TlsRead ==
    /\ pc = "read" /\ ~Complete(messages) /\ read_buf = <<>> /\ tls /\ plaintext = <<>> /\ ~torn
    /\ \E n \in 1 .. Least(CipherBuf, Len(down)) :
        /\ plaintext' = First(down, Least(n, Take))
        /\ down' = From(down, n) /\ torn' = (Least(n, Take) < n)
    /\ UNCHANGED <<tls, batch, pc, writeVars, up, server, read_buf, messages, dead, asked, got,
                   count, cancels, cut, overrun, tainted, resent>>

(* process_new_packets fails on what follows dropped ciphertext; a closed    *)
(* connection is an end of file; a message that starts in its middle does    *)
(* not decode.                                                               *)
ReadError ==
    /\ pc = "read" /\ ~Complete(messages)
    /\ \/ read_buf = <<>> /\ plaintext = <<>> /\ tls /\ torn /\ down # <<>>
       \/ read_buf = <<>> /\ plaintext = <<>> /\ down = <<>> /\ dead
       \/ messages # <<>> /\ messages[1][2] # 1
    /\ pc' = "idle"
    /\ UNCHANGED <<tls, batch, writeVars, up, down, server, readVars, dead, asked, got, count, lost>>

(* The caller drops the future of a read.  What a WASI stream has handed     *)
(* over by then is in the buffer of the call below and not yet counted in    *)
(* read_len: it is gone, at the latest while the call asks for the status of *)
(* a stream that has ended (tcp.rs:169).  Over TLS that is ciphertext.       *)
SocketAwaited ==
    ~Complete(messages) /\ read_buf = <<>> /\ (tls => plaintext = <<>> /\ ~torn)

CancelRead ==
    /\ pc = "read" /\ pc' = "idle"
    /\ \/ UNCHANGED <<down, torn, cut, cancels>>
       \/ /\ SocketAwaited /\ cancels < MaxCancels /\ cancels' = cancels + 1
          /\ \E n \in 1 .. Least(Inner(CipherBuf, ReadCapacity), Len(down)) : down' = From(down, n)
          /\ torn' = (torn \/ tls) /\ cut' = (cut \/ ~tls)
    /\ UNCHANGED <<tls, batch, writeVars, up, server, readVars, dead, asked, got, count,
                   overrun, tainted, resent>>

-----------------------------------------------------------------------------
(* The server reads a message, then answers it; while its answer does not    *)
(* fit into the socket it reads nothing.                                     *)
ServerReads ==
    /\ ~dead /\ up # <<>> /\ answer = <<>>
    /\ up' = Tail(up)
    /\ IF Head(up) = Garbage THEN dead' = TRUE /\ UNCHANGED <<heard, answer>>
       ELSE /\ heard' = Append(heard, Head(up))
            /\ IF Head(up)[2] = Head(up)[3]
               THEN \E n \in AnswerSizes : answer' = Message(Head(up)[1], n)
               ELSE UNCHANGED answer
            /\ UNCHANGED dead
    /\ UNCHANGED <<tls, batch, pc, writeVars, down, told, readVars, asked, got, count, lost>>

ServerWrites ==
    /\ ~dead /\ answer # <<>> /\ Len(down) < Capacity
    /\ down' = Append(down, Head(answer)) /\ told' = Append(told, Head(answer))
    /\ answer' = Tail(answer)
    /\ UNCHANGED <<tls, batch, pc, writeVars, up, heard, readVars, dead, asked, got, count, lost>>

(* The connection breaks.                                                    *)
Break ==
    /\ ~dead /\ dead' = TRUE
    /\ UNCHANGED <<tls, batch, pc, writeVars, up, down, server, readVars, asked, got, count, lost>>

-----------------------------------------------------------------------------
Call == (\E n \in Sizes : send(n) \/ encode_and_write(n)) \/ flush \/ close \/ read_message
WriteStep == TlsWrite \/ flush_tls_outgoing \/ SocketWrite \/ flush_writeOk \/ WriteError
ReadStep == next_message \/ ReadBuffered \/ ReadSocket \/ ReadPlaintext \/ TlsRead \/ ReadError
Server == ServerReads \/ ServerWrites

Next == Call \/ WriteStep \/ ReadStep \/ CancelWrite \/ CancelRead \/ Server \/ Break

Spec == Init /\ [][Next]_vars

(* The runtime polls the call under way; the server goes on while it can.    *)
FairSpec == Spec /\ WF_vars(WriteStep) /\ WF_vars(ReadStep) /\ WF_vars(Server)

-----------------------------------------------------------------------------
Units == (0 .. MaxMessages) \X Nat \X Nat

(* Type correctness of the buffers; buffers of bounded size stay within it.  *)
TypeOK ==
    /\ pc \in {"idle", "encrypt", "socket", "read", "closed"}
    /\ {write_buf, left, sendable, out, up, down, answer, plaintext, read_buf, messages,
        asked, heard, told, got} \subseteq Seq(Units)
    /\ Len(sendable) <= SendLimit /\ Len(read_buf) <= ReadCapacity
    /\ Len(messages) <= max_buffered_bytes
    /\ Len(up) <= Capacity /\ Len(down) <= Capacity

(* What has been written and is not yet on the socket.                       *)
Pending == CASE pc = "encrypt" -> sendable \o left
             [] pc = "socket"  -> out
             [] OTHER          -> write_buf

(* Every byte handed to write_all is in exactly one place and in its order,  *)
(* on its way through write_buf, rustls and the socket, as long as no call   *)
(* ended with write_buf partly on the socket (buffered.rs:85): then the same *)
(* bytes would be flushed again.                                             *)
SentOnce == ~tainted => heard \o up \o Pending = asked

(* Over TLS the server never reads anything but what was written, once and   *)
(* in order, whatever was abandoned half-way: the loss of ciphertext ends    *)
(* the connection instead.  Only a write that is abandoned when the socket   *)
(* has taken all of it, before write_buf is cleared, is sent again.          *)
TlsNeverRepeats == tls /\ ~resent => \E n \in 0 .. Len(asked) : heard = First(asked, n)

(* No received byte is lost, doubled or moved, whenever a read is abandoned, *)
(* except where the code drops bytes it has taken from the layer below: what *)
(* read_tls did not take (tls.rs:637), what try_extend refused, and what a   *)
(* WASI stream had handed to a read that was abandoned (tcp.rs:153-169).     *)
ReceivedOnce ==
    ~torn /\ ~cut /\ ~overrun => got \o messages \o read_buf \o plaintext \o down = told

(* A message over the buffer limit, or one that TLS tore, never shows as a   *)
(* message that the server did not send, as long as no bytes were dropped    *)
(* above TLS: refused by try_extend, or taken from a plain socket by a read  *)
(* that was abandoned.                                                       *)
DeliveredPrefix == ~overrun /\ ~cut => \E n \in 0 .. Len(told) : got = First(told, n)

(* A write ends, whatever the server does: a caller that reads each answer   *)
(* before it sends the next message never meets a server that waits for it   *)
(* to read.  One that batches may (pipeline.rs:107), and so may one that     *)
(* abandoned a message in its middle; and a buffer larger than rustls takes  *)
(* at once keeps write_all going round for ever (tls.rs:657).                *)
WriteEnds ==
    (pc \in {"encrypt", "socket"} /\ ~batch /\ ~tainted /\ (tls => Len(write_buf) <= SendLimit))
        ~> (pc \in {"idle", "closed"})
=============================================================================

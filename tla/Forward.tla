------------------------------ MODULE Forward ------------------------------
(***************************************************************************)
(* The bytes of one direction of one connection, in handle_client_to_backend *)
(* and its mirror image handle_backend_to_client (src/network/lb_net.c).     *)
(* Relay has the sockets, the workers and the memory, and only whether       *)
(* something is buffered; here one worker runs the handler, a send or recv   *)
(* at a time, and the bytes are told apart: they are numbered in the order   *)
(* the source sent them.  Between two calls the source may send more or      *)
(* close, and the destination may read and so make room.                     *)
(***************************************************************************)
EXTENDS Integers, Sequences, FiniteSetsExt

CONSTANTS
    MaxBytes,     \* bytes the source sends in a behaviour
    ChunkSize,    \* sizeof(buffer), what one recv may return
    SocketRoom    \* bytes the destination's socket takes before EAGAIN

ASSUME ForwardAssumption ==
    /\ MaxBytes \in Nat
    /\ ChunkSize \in Nat \ {0}
    /\ SocketRoom \in Nat \ {0}

VARIABLES
    arrived,      \* how many bytes the source has sent
    source_end,   \* it has closed its side
    received,     \* how many of them recv has returned
    chunk,        \* those of the local buffer not sent yet: buffer + total_sent
    total_sent,   \* how many of the local buffer are sent
    held,         \* to_backend_buffer or to_client_buffer
    room,         \* what the destination's socket still takes
    sunk,         \* what it has taken, in order
    bytes_in,     \* global_stats.bytes_in or bytes_out
    fwd_pc,       \* where the handler is; "closed": it returned 0 or -1
    behind        \* history: recv has returned bytes while others were held

fwdVars == <<arrived, source_end, received, chunk, total_sent, held, room, sunk, bytes_in,
             fwd_pc, behind>>

\* The bytes from number a to number b.
Bytes(a, b) == [i \in 1..(b - a + 1) |-> a + i - 1]

FwdTypeOK ==
    /\ arrived \in 0..MaxBytes /\ received \in 0..arrived
    /\ source_end \in BOOLEAN /\ behind \in BOOLEAN
    /\ chunk \in Seq(1..MaxBytes) /\ Len(chunk) + total_sent <= ChunkSize
    /\ total_sent \in 0..ChunkSize
    /\ held \in Seq(1..MaxBytes) /\ sunk \in Seq(1..MaxBytes)
    /\ room \in 0..SocketRoom
    /\ bytes_in \in 0..MaxBytes
    /\ fwd_pc \in {"idle", "recv", "send", "closed"}

FwdInit ==
    /\ arrived = 0 /\ received = 0 /\ source_end = FALSE /\ behind = FALSE
    /\ chunk = <<>> /\ total_sent = 0 /\ held = <<>> /\ sunk = <<>>
    /\ room = SocketRoom /\ bytes_in = 0
    /\ fwd_pc = "idle"

-----------------------------------------------------------------------------
(* The two peers.                                                          *)

SourceSends ==
    /\ arrived < MaxBytes /\ ~source_end
    /\ arrived' = arrived + 1
    /\ UNCHANGED <<source_end, received, chunk, total_sent, held, room, sunk, bytes_in, fwd_pc, behind>>

SourceCloses ==
    /\ ~source_end
    /\ source_end' = TRUE
    /\ UNCHANGED <<arrived, received, chunk, total_sent, held, room, sunk, bytes_in, fwd_pc, behind>>

SinkReads ==
    /\ room < SocketRoom
    /\ room' = room + 1
    /\ UNCHANGED <<arrived, source_end, received, chunk, total_sent, held, sunk, bytes_in, fwd_pc, behind>>

-----------------------------------------------------------------------------
(* The handler.                                                            *)

\* send hands over the first n bytes of s, as many as the socket takes.
Taken(s) == Min({Len(s), room})

\* A hard error of send or recv, a failed connect or realloc, end of stream.
\* The caller closes both sockets: what is held or in the local buffer is lost.
FwdClose ==
    /\ fwd_pc' = "closed"
    /\ UNCHANGED <<arrived, source_end, received, chunk, total_sent, held, room, sunk, bytes_in, behind>>

\* Mutant: what a partial send left is not moved to the front.
FlushUnmoved ==
    LET n == Taken(held) IN
    /\ fwd_pc = "idle"
    /\ arrived > received \/ source_end \/ (held # <<>> /\ room > 0)
    /\ sunk' = sunk \o SubSeq(held, 1, n)
    /\ held' = SubSeq(held, 1, Len(held) - n)
    /\ room' = room - n
    /\ bytes_in' = bytes_in + n
    /\ fwd_pc' = "recv"
    /\ UNCHANGED <<arrived, source_end, received, chunk, total_sent, behind>>

\* epoll reports the source readable, or the destination writable while bytes
\* are held; the handler first sends what is held, in one call.
FwdFlush ==
    LET n == Taken(held) IN
    /\ fwd_pc = "idle"
    /\ arrived > received \/ source_end \/ (held # <<>> /\ room > 0)
    /\ \/ /\ sunk' = sunk \o SubSeq(held, 1, n)
          /\ held' = SubSeq(held, n + 1, Len(held))
          /\ room' = room - n
          /\ bytes_in' = bytes_in + n
          /\ fwd_pc' = "recv"
          /\ UNCHANGED <<arrived, source_end, received, chunk, total_sent, behind>>
       \/ held # <<>> /\ FwdClose

\* The condition of the read loop: bytes, EAGAIN, or an error or (when the
\* source has closed) end of stream.  It does not ask whether bytes are held.
FwdRecv ==
    /\ fwd_pc = "recv"
    /\ \/ \E n \in 1..Min({ChunkSize, arrived - received}) :
            /\ chunk' = Bytes(received + 1, received + n)
            /\ received' = received + n
            /\ total_sent' = 0
            /\ behind' = (behind \/ held # <<>>)
            /\ fwd_pc' = "send"
            /\ UNCHANGED <<arrived, source_end, held, room, sunk, bytes_in>>
       \/ /\ arrived = received /\ ~source_end
          /\ fwd_pc' = "idle"
          /\ UNCHANGED <<arrived, source_end, received, chunk, total_sent, held, room, sunk,
                         bytes_in, behind>>
       \/ FwdClose

\* The end of the read loop's body: the rest, if any, is held; what was sent is
\* counted.
FwdHold ==
    /\ held' = held \o chunk
    /\ chunk' = <<>> /\ total_sent' = 0
    /\ bytes_in' = bytes_in + total_sent
    /\ fwd_pc' = "recv"
    /\ UNCHANGED <<arrived, source_end, received, room, sunk, behind>>

\* The send loop, one send per step, until all is sent or EAGAIN.
FwdSend ==
    /\ fwd_pc = "send"
    /\ \/ /\ chunk # <<>> /\ room > 0
          /\ LET n == Taken(chunk) IN
             /\ sunk' = sunk \o SubSeq(chunk, 1, n)
             /\ chunk' = SubSeq(chunk, n + 1, Len(chunk))
             /\ total_sent' = total_sent + n
             /\ room' = room - n
          /\ UNCHANGED <<arrived, source_end, received, held, bytes_in, fwd_pc, behind>>
       \/ (chunk = <<>> \/ room = 0) /\ FwdHold
       \/ chunk # <<>> /\ FwdClose

FwdNext == SourceSends \/ SourceCloses \/ SinkReads \/ FwdFlush \/ FwdRecv \/ FwdSend

-----------------------------------------------------------------------------
(* Correctness.                                                            *)

\* While the connection is open every byte that recv returned is in exactly
\* one place: sent, held, or in the local buffer.  Partial sends, EAGAIN and
\* the memmove neither lose nor repeat one.
BytesConserved ==
    fwd_pc # "closed" =>
        LET all == sunk \o held \o chunk IN
        /\ Len(all) = received
        /\ {all[i] : i \in DOMAIN all} = 1..received

\* The destination gets the bytes in the order the source sent them, unless
\* the read loop ever ran on while bytes were held: its condition does not ask,
\* and its sends overtake what is held once the destination makes room.
OrderKept ==
    ~behind => \A i \in DOMAIN sunk : sunk[i] = i

\* Between two calls the byte counter is what the destination has taken.
BytesCounted ==
    fwd_pc = "idle" => bytes_in = Len(sunk)

\* A direction of the relay is a stream: its bytes are neither lost nor repeated,
\* keep their order as far as the handlers keep it, and are counted as they leave.
StreamKept == BytesConserved /\ OrderKept /\ BytesCounted
=============================================================================

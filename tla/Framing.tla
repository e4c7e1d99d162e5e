------------------------------- MODULE Framing -------------------------------
(***************************************************************************)
(* The receive thread splits the byte stream of the socket into packets    *)
(* (libtinkerforge/bindings/ip_connection.c, ipcon_receive_loop).          *)
(*                                                                         *)
(* TCP hands out bytes in pieces of any length.  The loop appends them to  *)
(* a buffer for several packets, and handles and removes packets from its  *)
(* front as long as the first one is complete.  Its length is in its       *)
(* header.                                                                 *)
(*                                                                         *)
(* A byte is represented by its position in the stream, so that a packet   *)
(* that was put together wrongly can be told from the one that was sent.   *)
(***************************************************************************)
EXTENDS Integers, Sequences

CONSTANTS
    BufferSize,     \* sizeof(pending_data)
    HeaderSize,     \* sizeof(PacketHeader)
    LengthAt,       \* where in the header the length is
    MaxLength,      \* the largest length of a packet
    Packets,        \* how many packets the Brick Daemon sends
    Start,          \* where each packet of the stream starts
    LengthField     \* what a byte of the stream says if it is taken for a length

StreamLength == Start[Packets + 1]

(* The stream consists of packets: this is what the Brick Daemon promises.  *)
ASSUME FramingAssumption ==
    /\ HeaderSize \in Nat \ {0} /\ MaxLength \in Nat /\ BufferSize \in Nat
    /\ LengthAt \in 1 .. HeaderSize
    /\ HeaderSize <= MaxLength /\ MaxLength <= BufferSize
    /\ Packets \in Nat
    /\ Start \in [1 .. Packets + 1 -> Nat] /\ Start[1] = 0
    /\ LengthField \in [0 .. StreamLength -> 0 .. MaxLength]
    /\ \A i \in 1 .. Packets :
         /\ Start[i] + LengthAt <= StreamLength
         /\ LengthField[Start[i] + LengthAt] >= HeaderSize
         /\ Start[i + 1] = Start[i] + LengthField[Start[i] + LengthAt]

VARIABLES
    receive_flag,
    receiver,       \* where the thread is: "receive", "split" before and "handle" after
                    \*   a test of receive_flag, "ending" or "done"
    received,       \* how many bytes of the stream it has got
    pending_data, pending_length,
    handled         \* the packets given to ipcon_handle_response

framingVars == <<receive_flag, receiver, received, pending_data, pending_length, handled>>

Positions == 0 .. StreamLength          \* 0: nothing was ever stored there
BufferIndex == 1 .. BufferSize

FramingInit ==
    /\ receive_flag = TRUE /\ receiver = "receive"
    /\ received = 0 /\ pending_length = 0
    /\ pending_data = [i \in BufferIndex |-> 0]
    /\ handled = <<>>

(* socket_receive: some of what is still to come, at most what fits.        *)
Stored(n) ==
    [i \in BufferIndex |-> IF i \in pending_length + 1 .. pending_length + n
                           THEN received + i - pending_length ELSE pending_data[i]]

Receive ==
    /\ receiver = "receive" /\ receive_flag
    /\ \E n \in 1 .. StreamLength :
         /\ n <= BufferSize - pending_length /\ n <= StreamLength - received
         /\ pending_data' = Stored(n)
         /\ pending_length' = pending_length + n
         /\ received' = received + n
    /\ receiver' = "split"
    /\ UNCHANGED <<receive_flag, handled>>

(* The connection is gone; or recv was asked for no bytes at all: its 0      *)
(* cannot be told from that.                                                *)
ReceiveEnds ==
    /\ receiver = "receive" /\ receive_flag
    /\ receiver' = "ending"
    /\ UNCHANGED <<receive_flag, received, pending_data, pending_length, handled>>

HandleEnd ==
    /\ receiver = "ending" /\ receiver' = "done"
    /\ UNCHANGED <<receive_flag, received, pending_data, pending_length, handled>>

ReceiverLeaves ==
    /\ receiver \in {"receive", "split"} /\ ~receive_flag
    /\ receiver' = "done"
    /\ UNCHANGED <<receive_flag, received, pending_data, pending_length, handled>>

-----------------------------------------------------------------------------
(* The inner loop.  The length is only looked at when the header is there.  *)
FirstLength == LengthField[pending_data[LengthAt]]
AnyByteThere == pending_length > 0      \* mutant: does not wait for the header

HeaderThere == pending_length >= HeaderSize

HeaderOnlyThere == HeaderThere          \* mutant: does not wait for the rest

PacketThere == HeaderThere /\ pending_length >= FirstLength

(* The flag is tested on every round; it may be cleared right after that.   *)
TestFlag ==
    /\ receiver = "split" /\ receive_flag
    /\ receiver' = "handle"
    /\ UNCHANGED <<receive_flag, received, pending_data, pending_length, handled>>

WaitForMore ==
    /\ receiver = "handle" /\ ~PacketThere
    /\ receiver' = "receive"
    /\ UNCHANGED <<receive_flag, received, pending_data, pending_length, handled>>

FirstPacket == [i \in 1 .. FirstLength |-> pending_data[i]]

(* memmove: what is behind the first packet moves to the front.             *)
NotMoved == pending_data                \* mutant: only the length is adapted

Moved ==
    [i \in BufferIndex |-> IF i <= pending_length - FirstLength
                           THEN pending_data[i + FirstLength] ELSE pending_data[i]]

HandlePacket ==
    /\ receiver = "handle" /\ PacketThere
    /\ receiver' = "split"
    /\ handled' = Append(handled, FirstPacket)
    /\ pending_data' = Moved
    /\ pending_length' = pending_length - FirstLength
    /\ UNCHANGED <<receive_flag, received>>

(* ipcon_disconnect_unlocked: then the socket is shut down, which ends recv *)
StopReceiving ==
    /\ receive_flag /\ receive_flag' = FALSE
    /\ UNCHANGED <<receiver, received, pending_data, pending_length, handled>>

FramingNext ==
    Receive \/ ReceiveEnds \/ HandleEnd \/ ReceiverLeaves \/ TestFlag \/ WaitForMore \/ HandlePacket \/ StopReceiving

FramingSpec == FramingInit /\ [][FramingNext]_framingVars
-----------------------------------------------------------------------------
Packet(i) == [k \in 1 .. Start[i + 1] - Start[i] |-> Start[i] + k]

FramingTypeOK ==
    /\ receive_flag \in BOOLEAN /\ receiver \in {"receive", "split", "handle", "ending", "done"}
    /\ received \in 0 .. StreamLength
    /\ pending_data \in [BufferIndex -> Positions] /\ pending_length \in 0 .. BufferSize
    /\ handled \in Seq(UNION {[1 .. n -> Positions] : n \in 0 .. MaxLength})

(* The packets are handled whole, once, and in the order of the stream,     *)
(* however it was cut into pieces.                                          *)
IsStream ==
    /\ Len(handled) <= Packets
    /\ \A i \in 1 .. Len(handled) : handled[i] = Packet(i)

(* recv is never asked for zero bytes, which would look like a lost         *)
(* connection: there is always room for more behind an incomplete packet.   *)
NeverFull == receiver = "receive" => pending_length < BufferSize

-----------------------------------------------------------------------------
(* Why it works: the buffer starts with the next packet to be handled, and  *)
(* has what was received since.                                             *)
Contiguous ==
    /\ Len(handled) <= Packets
    /\ received = Start[Len(handled) + 1] + pending_length
    /\ \A i \in 1 .. pending_length : pending_data[i] = Start[Len(handled) + 1] + i

FramingInv == FramingTypeOK /\ IsStream /\ Contiguous /\ NeverFull
=============================================================================

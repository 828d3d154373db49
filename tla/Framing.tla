------------------------------ MODULE Framing ------------------------------
(***************************************************************************)
(* How ANI v4.1 finds the messages in the bytes of a TCP stream            *)
(* (read_from_switch, check_openflow, send_information): each recv fills a *)
(* zeroed buffer from its start, whatever the last one left off; with -c   *)
(* all messages of the buffer are walked by their length fields, without   *)
(* it only the first one is looked at.                                     *)
(***************************************************************************)
EXTENDS Integers, Sequences, SequencesExt

CONSTANTS
    Messages,     \* the messages a switch sends, each a sequence of bytes
    MaxMessages   \* bound: messages of a stream

Byte == 0 .. 255

OFP_VERSION == 1
OFPT_HELLO == 0
OFPT_ECHO_REQUEST == 2
OFPT_FEATURES_REPLY == 6
OFPT_PACKET_IN == 10

\* struct ofp_header at offset p of buffer b; behind the data there are zeros.
At(b, p) == IF p + 1 \in DOMAIN b THEN b[p + 1] ELSE 0
version(b, p) == At(b, p)
type(b, p) == At(b, p + 1)
length(b, p) == 256 * At(b, p + 2) + At(b, p + 3)

\* Each message is as long as its header says.
ASSUME FramingAssumption ==
    /\ \A m \in Messages : m \in Seq(Byte) /\ Len(m) >= 8 /\ length(m, 0) = Len(m)
    /\ MaxMessages \in Nat

VARIABLES
    stream,         \* the messages the switch sends, one after the other
    received,       \* how many bytes of the stream were received
    cbench,         \* the option -c
    read_buffer,    \* what the last recv returned
    read_bufferp, counter,   \* the walk: offset in the buffer, bytes to go
    pc,             \* "recv" or "walk"
    handled, again  \* history: the offsets in the stream where something was
                    \* handled since the last recv; one was handled twice

vars == <<stream, received, cbench, read_buffer, read_bufferp, counter, pc, handled, again>>

Streams == UNION {[1 .. n -> Messages] : n \in 1 .. MaxMessages}

Init ==
    /\ stream \in Streams /\ received = 0 /\ cbench \in BOOLEAN
    /\ read_buffer = <<>> /\ read_bufferp = 0 /\ counter = 0
    /\ pc = "recv" /\ handled = {} /\ again = FALSE

Bytes == FlattenSeq(stream)

\* Where the messages begin in the stream, its end included.
Boundaries == {Len(FlattenSeq(SubSeq(stream, 1, n))) : n \in 0 .. Len(stream)}

\* The offset of the buffer in the stream.
Start == received - Len(read_buffer)

ReadFromSwitch ==
    /\ pc = "recv"
    /\ \E n \in 1 .. Len(Bytes) - received :
        /\ read_buffer' = SubSeq(Bytes, received + 1, received + n)
        /\ received' = received + n
        /\ counter' = n
    /\ read_bufferp' = 0 /\ pc' = "walk"
    /\ handled' = {} /\ again' = FALSE
    /\ UNCHANGED <<stream, cbench>>

CheckOpenflow == version(read_buffer, read_bufferp) = OFP_VERSION

Handlers == {OFPT_HELLO, OFPT_FEATURES_REPLY, OFPT_PACKET_IN, OFPT_ECHO_REQUEST}

Handle ==
    LET n == Start + read_bufferp
    IN  \/ /\ type(read_buffer, read_bufferp) \in Handlers
           /\ handled' = handled \cup {n} /\ again' = (again \/ n \in handled)
        \/ /\ type(read_buffer, read_bufferp) \notin Handlers
           /\ UNCHANGED <<handled, again>>

Return ==
    /\ pc' = "recv"
    /\ UNCHANGED <<stream, received, cbench, read_buffer, read_bufferp, counter>>

\* Mutant of Walk: the length is taken for that of what follows the header.
WalkPastHeader ==
    /\ pc = "walk" /\ cbench /\ counter > 0 /\ CheckOpenflow
    /\ Handle
    /\ LET openflow_packet_size == length(read_buffer, read_bufferp) + 8
       IN  /\ read_bufferp' = read_bufferp + openflow_packet_size
           /\ counter' = counter - openflow_packet_size
    /\ UNCHANGED <<stream, received, cbench, read_buffer, pc>>

\* Mutant of Walk: the number of bytes to go is not counted down.
WalkUncounted ==
    /\ pc = "walk" /\ cbench /\ counter > 0 /\ CheckOpenflow
    /\ Handle
    /\ read_bufferp' = (read_bufferp + length(read_buffer, read_bufferp)) % Len(read_buffer)
    /\ UNCHANGED <<stream, received, cbench, read_buffer, counter, pc>>

\* One round of the loop of -c.
Walk ==
    /\ pc = "walk" /\ cbench /\ counter > 0 /\ CheckOpenflow
    /\ Handle
    /\ LET openflow_packet_size == length(read_buffer, read_bufferp)
       IN  /\ read_bufferp' = read_bufferp + openflow_packet_size
           /\ counter' = counter - openflow_packet_size
    /\ UNCHANGED <<stream, received, cbench, read_buffer, pc>>

\* What is left is dropped with the first thing that is not OpenFlow 1.0.
WalkEnd ==
    /\ pc = "walk" /\ cbench /\ ~(counter > 0 /\ CheckOpenflow)
    /\ Return /\ UNCHANGED <<handled, again>>

\* Mutant of HandleFirst: only messages of version 1 are looked at.
HandleFirstOnlyV1 ==
    /\ pc = "walk" /\ ~cbench
    /\ IF CheckOpenflow THEN Handle ELSE UNCHANGED <<handled, again>>
    /\ Return

\* Without -c: a message of another version is looked at if it is a hello.
HandleFirst ==
    /\ pc = "walk" /\ ~cbench
    /\ IF CheckOpenflow \/ type(read_buffer, read_bufferp) = OFPT_HELLO
       THEN Handle ELSE UNCHANGED <<handled, again>>
    /\ Return

Next == ReadFromSwitch \/ Walk \/ WalkEnd \/ HandleFirst

Spec == Init /\ [][Next]_vars

\* The main thread goes on as long as it can.
FairSpec == Spec /\ WF_vars(Walk \/ WalkEnd \/ HandleFirst)

----------------------------------------------------------------------------
(* Properties. *)

TypeOK ==
    /\ stream \in Streams /\ received \in 0 .. Len(Bytes) /\ cbench \in BOOLEAN
    /\ read_buffer \in Seq(Byte) /\ Len(read_buffer) <= received
    /\ read_bufferp \in Nat /\ counter = Len(read_buffer) - read_bufferp
    /\ pc \in {"recv", "walk"}
    /\ handled \subseteq 0 .. Len(Bytes) - 1 /\ again \in BOOLEAN

\* A walk that starts at a message stays on messages, also when the recv ends
\* inside one: then it goes past what was received, or stays where it is.
StaysOnMessages ==
    pc = "walk" /\ counter > 0 /\ Start \in Boundaries
        => Start + read_bufferp \in Boundaries

\* Pointer and counter of the walk agree and stay on messages (_con.cpp:197-215).
BufferOK == TypeOK /\ StaysOnMessages

\* The message at n came as a whole; it is one to handle; one of another version
\* is before it in the same recv.
Whole(n) == n < received /\ n + length(Bytes, n) <= received

Wanted(n) ==
    /\ version(Bytes, n) = OFP_VERSION \/ (~cbench /\ type(Bytes, n) = OFPT_HELLO)
    /\ type(Bytes, n) \in Handlers

AlienBefore(n) ==
    \E k \in Boundaries : Start <= k /\ k < n /\ version(Bytes, k) # OFP_VERSION

\* The message at n is to be handled: with -c, unless one of another version is
\* before it; without -c if it is the first.
Due(n) ==
    /\ Start <= n /\ Whole(n) /\ Wanted(n)
    /\ IF cbench THEN ~AlienBefore(n) ELSE n = Start

\* Of a recv that begins at a message, every whole message of OpenFlow 1.0 is
\* handled with -c, up to one of another version; without -c the first one is.
NothingMissed ==
    pc = "recv" /\ Start \in Boundaries =>
        \A n \in Boundaries : Due(n) => n \in handled

\* What is handled then begins where a message begins, and is one to handle - but
\* of a message of which one byte came, the type reads 0, that of a hello.
NothingMadeUp ==
    Start \in Boundaries =>
        /\ handled \subseteq Boundaries
        /\ \A n \in handled : n + 2 <= received => Wanted(n)

\* Nothing is handled twice, unless its length field did not come: then the walk
\* may stay there and handle it for ever.
HandledOnce == Start \in Boundaries /\ again => \E n \in handled : received < n + 4

\* What send_information handles of a recv that begins at a message is what it
\* should, no more and no less, wherever the recv ends (_con.cpp:192-241).
HandlesMessages == NothingMissed /\ NothingMadeUp /\ HandledOnce

\* The recv ended before the length field of its last message did.
CutHeader == \E n \in Boundaries : n < received /\ received < n + 4

\* send_information ends, unless the recv began inside a message or cut a header:
\* then what it takes for a length field may be 0 (_con.cpp:197-215).
WalkEnds == pc = "walk" ~> pc = "recv" \/ Start \notin Boundaries \/ CutHeader
=============================================================================

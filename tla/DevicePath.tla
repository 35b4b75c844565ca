----------------------------- MODULE DevicePath -----------------------------
(***************************************************************************)
(* The device path utilities of                                            *)
(* src/core/patina_internal_device_path/src/lib.rs on byte buffers.        *)
(*                                                                         *)
(* A device path is a run of nodes in memory, each a 4-byte header (type,  *)
(* sub-type, little-endian u16 length) followed by its data.  A buffer is  *)
(* built from node encodings (byte sequences, which may be malformed: a    *)
(* length field below 4, or not the node's size); the caller's layout of   *)
(* nodes is kept beside it to state what the functions should return.      *)
(* Each loop of the code is a recursive operator over byte offsets.  A     *)
(* read past the buffer is undefined behaviour in the code (the pointer is *)
(* trusted) and is the outcome UB; a loop still running after MaxSteps     *)
(* iterations makes no progress on these buffers and is the outcome Hang.  *)
(***************************************************************************)
EXTENDS Naturals, Sequences, SequencesExt

CONSTANTS
    BodyNodes,  \* node encodings that may precede the last node of a buffer
    EndNodes,   \* node encodings a buffer may end with
    MaxBody,    \* bound on the number of nodes before the last one
    MaxSteps    \* loop iterations after which a call is taken not to return

ASSUME DevicePathAssumption ==
    /\ BodyNodes \subseteq Seq(0..255) /\ EndNodes \subseteq Seq(0..255)
    /\ MaxBody \in Nat /\ MaxSteps \in Nat

\* efi::protocols::device_path constants (r_efi).
TYPE_HARDWARE == 1
SUBTYPE_PCI == 1
TYPE_END == 127
SUBTYPE_ENTIRE == 255
SUBTYPE_INSTANCE == 1

\* size_of::<Protocol>() and size_of::<End>(): the node header.
HeaderSize == 4

\* The header fields of the node at byte offset o (0-based) of buf.
NodeType(buf, o) == buf[o + 1]
NodeSubType(buf, o) == buf[o + 2]
NodeLength(buf, o) == buf[o + 3] + 256 * buf[o + 4]

\* n bytes at offset o lie inside the buffer.
Readable(buf, o, n) == o + n <= Len(buf)

\* The bytes of the slice from_raw_parts(ptr + o, n).
Bytes(buf, o, n) == SubSeq(buf, o + 1, o + n)

\* Outcomes, as one record shape: Ok((count, size)), Some((offset, count)),
\* Ok(bytes), the nodes a walk yields, None, a panic, UB or Hang.
Res(tag, count, size, bytes, nodes) ==
    [tag |-> tag, count |-> count, size |-> size, bytes |-> bytes, nodes |-> nodes]

Fail(tag) == Res(tag, 0, 0, <<>>, <<>>)

\* is_device_path_end: an End node of sub-type End Entire.
IsDevicePathEnd(buf, o) ==
    NodeType(buf, o) = TYPE_END /\ NodeSubType(buf, o) = SUBTYPE_ENTIRE

RECURSIVE NodeCountLoop(_, _, _, _, _), NodeCountLoopEndUncounted(_, _, _, _, _)

\* Mutation variant: the end node left out of count and size.
NodeCountLoopEndUncounted(buf, o, count, size, fuel) ==
    IF fuel = 0 THEN Fail("Hang")
    ELSE IF ~Readable(buf, o, HeaderSize) THEN Fail("UB")
    ELSE IF NodeType(buf, o) = TYPE_END THEN Res("Ok", count, size, <<>>, <<>>)
    ELSE NodeCountLoop(buf, o + NodeLength(buf, o), count + 1,
                       size + NodeLength(buf, o), fuel - 1)

\* The loop of device_path_node_count: read the header, count the node and
\* its length, stop after a node of type End (whatever its sub-type), else
\* step over length bytes.
NodeCountLoop(buf, o, count, size, fuel) ==
    IF fuel = 0 THEN Fail("Hang")
    ELSE IF ~Readable(buf, o, HeaderSize) THEN Fail("UB")
    ELSE LET len == NodeLength(buf, o)
         IN  IF NodeType(buf, o) = TYPE_END
             THEN Res("Ok", count + 1, size + len, <<>>, <<>>)
             ELSE NodeCountLoop(buf, o + len, count + 1, size + len, fuel - 1)

\* device_path_node_count on a non-null pointer.
DevicePathNodeCount(buf) == NodeCountLoop(buf, 0, 0, 0, MaxSteps)

\* Mutation variant: the slice stops before the end node.
DevicePathAsSliceWithoutEnd(buf) ==
    LET r == DevicePathNodeCount(buf)
    IN  IF r.tag # "Ok" THEN r
        ELSE IF ~Readable(buf, 0, r.size) THEN Fail("UB")
        ELSE Res("Ok", 0, 0, Bytes(buf, 0, r.size - HeaderSize), <<>>)

\* device_path_as_slice: the first size bytes; a slice past the buffer is UB.
DevicePathAsSlice(buf) ==
    LET r == DevicePathNodeCount(buf)
    IN  IF r.tag # "Ok" THEN r
        ELSE IF ~Readable(buf, 0, r.size) THEN Fail("UB")
        ELSE Res("Ok", 0, 0, Bytes(buf, 0, r.size), <<>>)

\* copy_device_path_to_boxed_slice: the slice, copied.
CopyDevicePathToBoxedSlice(buf) == DevicePathAsSlice(buf)

\* Mutation variant: b appended after a's end node instead of over it.
ConcatNoOverwrite(a, b) ==
    LET sa == DevicePathAsSlice(a)  sb == DevicePathAsSlice(b)
    IN  IF sa.tag # "Ok" THEN sa ELSE IF sb.tag # "Ok" THEN sb
        ELSE Res("Ok", 0, 0, sa.bytes \o sb.bytes, <<>>)

\* concat_device_path_to_boxed_slice: a buffer of |a| + |b| - 4 bytes, a
\* copied to its start and b over a's last 4 bytes.  |a| < 4 underflows
\* |a| - 4; |b| < 4 underflows the length or leaves the buffer shorter than
\* a: both panic (or, wrapping, fail the allocation).
ConcatDevicePathToBoxedSlice(a, b) ==
    LET sa == DevicePathAsSlice(a)  sb == DevicePathAsSlice(b)
    IN  IF sa.tag # "Ok" THEN sa ELSE IF sb.tag # "Ok" THEN sb
        ELSE IF Len(sa.bytes) < HeaderSize \/ Len(sb.bytes) < HeaderSize
        THEN Fail("Panic")
        ELSE Res("Ok", 0, 0,
                 SubSeq(sa.bytes, 1, Len(sa.bytes) - HeaderSize) \o sb.bytes, <<>>)

RECURSIVE RemainingLoop(_, _, _, _, _, _), RemainingLoopHeaderOnly(_, _, _, _, _, _)

\* Mutation variant: only the node headers compared.
RemainingLoopHeaderOnly(a, b, oa, ob, k, fuel) ==
    IF fuel = 0 THEN Fail("Hang")
    ELSE IF ~Readable(a, oa, HeaderSize) \/ ~Readable(b, ob, HeaderSize) THEN Fail("UB")
    ELSE IF IsDevicePathEnd(a, oa) THEN Res("Some", k, ob, <<>>, <<>>)
    ELSE IF Bytes(a, oa, HeaderSize) # Bytes(b, ob, HeaderSize) THEN Fail("None")
    ELSE RemainingLoop(a, b, oa + NodeLength(a, oa), ob + NodeLength(b, ob),
                       k + 1, fuel - 1)

\* The loop of remaining_device_path: read both headers; at the end of a
\* return b's offset and the count; otherwise compare the two nodes' bytes
\* (each slice of its own node's length) and step over both.
RemainingLoop(a, b, oa, ob, k, fuel) ==
    IF fuel = 0 THEN Fail("Hang")
    ELSE IF ~Readable(a, oa, HeaderSize) \/ ~Readable(b, ob, HeaderSize) THEN Fail("UB")
    ELSE IF IsDevicePathEnd(a, oa) THEN Res("Some", k, ob, <<>>, <<>>)
    ELSE LET la == NodeLength(a, oa)  lb == NodeLength(b, ob)
         IN  IF ~Readable(a, oa, la) \/ ~Readable(b, ob, lb) THEN Fail("UB")
             ELSE IF Bytes(a, oa, la) # Bytes(b, ob, lb) THEN Fail("None")
             ELSE RemainingLoop(a, b, oa + la, ob + lb, k + 1, fuel - 1)

\* remaining_device_path(a, b).
RemainingDevicePath(a, b) == RemainingLoop(a, b, 0, 0, 0, MaxSteps)

\* DevicePathNode::new: the header and length - 4 data bytes, or None when
\* the length is below the header size (checked_sub).
DevicePathNodeNew(buf, o) ==
    IF ~Readable(buf, o, HeaderSize) THEN Fail("UB")
    ELSE IF NodeLength(buf, o) < HeaderSize THEN Fail("None")
    ELSE IF ~Readable(buf, o, NodeLength(buf, o)) THEN Fail("UB")
    ELSE Res("Some", 0, 0, <<>>,
             <<[type |-> NodeType(buf, o), sub |-> NodeSubType(buf, o),
                data |-> Bytes(buf, o + HeaderSize, NodeLength(buf, o) - HeaderSize)]>>)

RECURSIVE WalkLoop(_, _, _, _), WalkLoopNoEnd(_, _, _, _)

\* Mutation variant: the end node not yielded.
WalkLoopNoEnd(buf, o, acc, fuel) ==
    LET n == DevicePathNodeNew(buf, o)
    IN  IF fuel = 0 THEN Fail("Hang")
        ELSE IF n.tag = "UB" THEN n
        ELSE IF n.tag = "None" \/ IsDevicePathEnd(buf, o) THEN Res("Ok", 0, 0, <<>>, acc)
        ELSE WalkLoop(buf, o + NodeLength(buf, o), acc \o n.nodes, fuel - 1)

\* DevicePathWalker driven to the end: next() builds the node (a None from
\* DevicePathNode::new ends the iteration), yields it, and stops after an
\* End Entire node or steps over its length.
WalkLoop(buf, o, acc, fuel) ==
    LET n == DevicePathNodeNew(buf, o)
    IN  IF fuel = 0 THEN Fail("Hang")
        ELSE IF n.tag = "UB" THEN n
        ELSE IF n.tag = "None" THEN Res("Ok", 0, 0, <<>>, acc)
        ELSE IF IsDevicePathEnd(buf, o) THEN Res("Ok", 0, 0, <<>>, acc \o n.nodes)
        ELSE WalkLoop(buf, o + NodeLength(buf, o), acc \o n.nodes, fuel - 1)

\* DevicePathWalker::new(buf) collected.
DevicePathWalk(buf) == WalkLoop(buf, 0, <<>>, MaxSteps)

-----------------------------------------------------------------------------
\* The buffers a caller may pass: up to MaxBody nodes and a last one.
Layouts == {s \o <<e>> : s \in SeqOf(BodyNodes, MaxBody), e \in EndNodes}

Buffer(l) == FlattenSeq(l)

VARIABLES
    call,    \* the last call: its function and the layouts of its arguments
    result   \* its outcome

vars == <<call, result>>

NoCall == [op |-> "none", a |-> <<>>, b |-> <<>>]

Init ==
    /\ call = NoCall
    /\ result = Fail("None")

Idle == call = NoCall

CallNodeCount(a) ==
    /\ Idle
    /\ call' = [op |-> "node_count", a |-> a, b |-> <<>>]
    /\ result' = DevicePathNodeCount(Buffer(a))

CallCopy(a) ==
    /\ Idle
    /\ call' = [op |-> "copy", a |-> a, b |-> <<>>]
    /\ result' = CopyDevicePathToBoxedSlice(Buffer(a))

CallConcat(a, b) ==
    /\ Idle
    /\ call' = [op |-> "concat", a |-> a, b |-> b]
    /\ result' = ConcatDevicePathToBoxedSlice(Buffer(a), Buffer(b))

CallRemaining(a, b) ==
    /\ Idle
    /\ call' = [op |-> "remaining", a |-> a, b |-> b]
    /\ result' = RemainingDevicePath(Buffer(a), Buffer(b))

CallWalk(a) ==
    /\ Idle
    /\ call' = [op |-> "walk", a |-> a, b |-> <<>>]
    /\ result' = DevicePathWalk(Buffer(a))

Return ==
    /\ ~Idle
    /\ call' = NoCall
    /\ result' = Fail("None")

Next ==
    \/ Return
    \/ \E a \in Layouts : CallNodeCount(a) \/ CallCopy(a) \/ CallWalk(a)
    \/ \E a, b \in Layouts : CallConcat(a, b) \/ CallRemaining(a, b)

Spec == Init /\ [][Next]_vars

-----------------------------------------------------------------------------
(* Reference definitions: UEFI 2.11 section 10.3.1 on a layout of nodes.    *)

LengthField(n) == n[3] + 256 * n[4]

IsEndEntireNode(n) == n[1] = TYPE_END /\ n[2] = SUBTYPE_ENTIRE

\* Every node's length field is its size, at least a header; the path ends
\* with its one End Entire node (End Instance nodes may separate instances).
WellFormed(l) ==
    /\ Len(l) >= 1
    /\ \A i \in 1..Len(l) : Len(l[i]) >= HeaderSize /\ LengthField(l[i]) = Len(l[i])
    /\ IsEndEntireNode(Last(l))
    /\ \A i \in 1..(Len(l) - 1) : ~IsEndEntireNode(l[i])

AsNode(n) == [type |-> n[1], sub |-> n[2], data |-> SubSeq(n, HeaderSize + 1, Len(n))]

\* device_path_node_count on a well-formed path returns the number of its
\* nodes and its size in bytes, both including the terminating end node
\* (its doc comment).
NodeCountCorrect ==
    call.op = "node_count" /\ WellFormed(call.a) =>
        result = Res("Ok", Len(call.a), Len(Buffer(call.a)), <<>>, <<>>)

\* copy_device_path_to_boxed_slice copies a well-formed path whole.
CopyCorrect ==
    call.op = "copy" /\ WellFormed(call.a) =>
        result = Res("Ok", 0, 0, Buffer(call.a), <<>>)

\* remaining_device_path(a, b) on well-formed paths returns Some with the
\* offset in b after the nodes of a and their number when a without its end
\* node is a prefix of b, and None otherwise (its doc comment).
RemainingCorrect ==
    call.op = "remaining" /\ WellFormed(call.a) /\ WellFormed(call.b) =>
        LET p == Front(call.a)
        IN  result = IF IsPrefix(p, call.b)
                     THEN Res("Some", Len(p), Len(FlattenSeq(p)), <<>>, <<>>)
                     ELSE Fail("None")

\* concat_device_path_to_boxed_slice(a, b) on well-formed paths is a without
\* its end node followed by b.
ConcatCorrect ==
    call.op = "concat" /\ WellFormed(call.a) /\ WellFormed(call.b) =>
        result = Res("Ok", 0, 0, FlattenSeq(Front(call.a)) \o Buffer(call.b), <<>>)

\* The DevicePathWalker yields every node of a well-formed path, the end
\* node included, and nothing after it.
WalkerCorrect ==
    call.op = "walk" /\ WellFormed(call.a) =>
        result = Res("Ok", 0, 0, <<>>, [i \in 1..Len(call.a) |-> AsNode(call.a[i])])

====

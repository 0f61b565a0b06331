----------------------------- MODULE Protocol -----------------------------
(***************************************************************************)
(* The wire protocol (include/protocol.hpp): a frame is a WireHeader and a *)
(* WireOrder.  A frame is kept as its fields and its length, for both ends *)
(* read and write the fields in native order; the two enums are bytes on   *)
(* the wire and are cast back unchecked, so an action can be any byte.     *)
(***************************************************************************)
EXTENDS Naturals

kMagic == 21318991  \* 0x01454D4F
kVersion == 1
kFrameSize == 48

\* OrderAction and Side, as bytes.
Add == 0
Cancel == 1
Modify == 2
Execute == 3
Buy == 0

\* encode(m, timestamp_ns): the frame of a message.
Encode(m, timestamp_ns) ==
    [len |-> kFrameSize, magic |-> kMagic, version |-> kVersion,
     action |-> m.action, side |-> m.side,
     order_id |-> m.order_id, original_order_id |-> m.original_order_id,
     price |-> m.price, quantity |-> m.quantity,
     timestamp_ns |-> timestamp_ns]

\* What decode checks; a mutant forgets the version.
ValidMagic(f) == f.len >= kFrameSize /\ f.magic = kMagic

Valid(f) ==
    /\ f.len >= kFrameSize
    /\ f.magic = kMagic
    /\ f.version = kVersion

\* The message decode builds from a valid frame (the sender's timestamp is not
\* in it).  A mutant takes the order's id for the one it refers to.
DecodeOwnId(f) ==
    [action |-> f.action, side |-> f.side, order_id |-> f.order_id,
     original_order_id |-> f.order_id, price |-> f.price,
     quantity |-> f.quantity]

Decode(f) ==
    [action |-> f.action, side |-> f.side, order_id |-> f.order_id,
     original_order_id |-> f.original_order_id, price |-> f.price,
     quantity |-> f.quantity]

\* Frames that arrive cut short, with a bad magic or of another version.
Damaged(f) == {[f EXCEPT !.len = kFrameSize - 1], [f EXCEPT !.magic = 0],
               [f EXCEPT !.version = kVersion + 1]}
============================================================================

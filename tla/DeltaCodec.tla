----------------------------- MODULE DeltaCodec -----------------------------
(***************************************************************************)
(* mini::sync::DeltaCodec (src/netcode-core/sync/delta.cpp), the wire      *)
(* format of the snapshots SnapshotCodec reasons about: a keyframe is the  *)
(* whole WorldState, a delta the difference from a base state.  A buffer   *)
(* is a sequence of bytes, one element per byte, so offsets and the        *)
(* underflow checks are the code's.  Integer fields are encoded byte by    *)
(* byte, little-endian, at their width.  An f32 field keeps its four byte  *)
(* slots but not the IEEE-754 bit pattern: each slot carries the value,    *)
(* and the values used are small integers, which float and double hold     *)
(* exactly, so the double -> float casts change nothing on them (rounding  *)
(* of fractional positions is not modelled).  A WorldState is a record    *)
(* with the fields of core::WorldState (src/netcode-core/core/world.h).     *)
(***************************************************************************)
EXTENDS Integers, Sequences, SequencesExt

\* A read past the end of the buffer: std::out_of_range.
Underflow == [error |-> "out_of_range"]

\* static_cast to a two's complement integer of w bits, from any integer.
Signed(x, w) == LET m == x % (2^w) IN IF m >= 2^(w - 1) THEN m - 2^w ELSE m

\* static_cast<std::uint32_t>(an int64): exact for the values below 2^31
\* TLC can hold; a negative sum wraps to a huge score, kept as a record.
U32Cast(x) == IF x >= 0 THEN x ELSE [wrapped |-> x]

\* The n little-endian bytes of x's two's complement pattern (\div
\* floors, so a negative x gives its high bytes as 255).
LEBytes(x, n) == [i \in 1..n |-> (x \div (256^(i - 1))) % 256]

append_u32(v) == LEBytes(v, 4)
append_i16(v) == LEBytes(v, 2)
append_i8(v)  == LEBytes(v, 1)
append_f32(v) == [i \in 1..4 |-> [f32 |-> v, slot |-> i]]

\* Reads: [value, offset] past the field, or Underflow.
read_u32(buf, off) ==
    IF off + 4 > Len(buf) THEN Underflow
    ELSE [value  |-> buf[off + 1] + 256 * buf[off + 2] + 65536 * buf[off + 3]
                     + 16777216 * buf[off + 4],
          offset |-> off + 4]

read_f32(buf, off) ==
    IF off + 4 > Len(buf) THEN Underflow
    ELSE [value |-> buf[off + 1].f32, offset |-> off + 4]

\* Mutant of read_i16: the two bytes taken big-endian.
read_i16_BigEndian(buf, off) ==
    IF off + 2 > Len(buf) THEN Underflow
    ELSE [value |-> Signed(256 * buf[off + 1] + buf[off + 2], 16), offset |-> off + 2]

read_i16(buf, off) ==
    IF off + 2 > Len(buf) THEN Underflow
    ELSE [value |-> Signed(buf[off + 1] + 256 * buf[off + 2], 16), offset |-> off + 2]

read_i8(buf, off) ==
    IF off >= Len(buf) THEN Underflow
    ELSE [value |-> Signed(buf[off + 1], 8), offset |-> off + 1]

\* The fields of WorldState in the order write_state and write_delta put
\* them on the wire (tick is not sent: it travels in the snapshot).
Positions == <<"ball_x", "ball_y", "ball_vx", "ball_vy", "left_paddle_y",
               "right_paddle_y">>
Wire == Positions \o <<"left_score", "right_score", "left_direction",
                       "right_direction">>

\* write_state: six f32, two u32 scores, two i8 directions.
write_state(s) ==
    FlattenSeq([i \in 1..6 |-> append_f32(s[Positions[i]])])
    \o append_u32(s.left_score) \o append_u32(s.right_score)
    \o append_i8(s.left_direction) \o append_i8(s.right_direction)

\* read_state: the same fields, read in the same order; the first read
\* that underflows throws.  Each field's reader by name.
StateReader(f, buf, off) ==
    CASE f \in {"left_score", "right_score"}         -> read_u32(buf, off)
      [] f \in {"left_direction", "right_direction"} -> read_i8(buf, off)
      [] OTHER                                       -> read_f32(buf, off)

\* write_delta: f32 differences of the positions, the score differences
\* cast to int16 (from their uint32 difference), the target's directions.
write_delta(base, s) ==
    FlattenSeq([i \in 1..6 |-> append_f32(s[Positions[i]] - base[Positions[i]])])
    \o append_i16(Signed(s.left_score - base.left_score, 16))
    \o append_i16(Signed(s.right_score - base.right_score, 16))
    \o append_i8(s.left_direction) \o append_i8(s.right_direction)

\* apply_delta_to_state's reads: f32, i16 scores, i8 directions.
DeltaReader(f, buf, off) ==
    CASE f \in {"left_score", "right_score"}         -> read_i16(buf, off)
      [] f \in {"left_direction", "right_direction"} -> read_i8(buf, off)
      [] OTHER                                       -> read_f32(buf, off)

\* The reads of the Wire fields from k on, in order, into acc: kind
\* "state" is read_state's readers, "delta" apply_delta_to_state's.
RECURSIVE ReadFields(_, _, _, _, _)
ReadFields(kind, buf, off, k, acc) ==
    IF k > Len(Wire) THEN [value |-> acc, offset |-> off]
    ELSE LET r == IF kind = "state" THEN StateReader(Wire[k], buf, off)
                  ELSE DeltaReader(Wire[k], buf, off)
         IN IF r = Underflow THEN Underflow
            ELSE ReadFields(kind, buf, r.offset, k + 1, [acc EXCEPT ![Wire[k]] = r.value])

\* core::WorldState{}: every field zero.
ZeroState == [f \in {"tick"} \cup {Wire[i] : i \in 1..Len(Wire)} |-> 0]

read_state(buf, off) == ReadFields("state", buf, off, 1, ZeroState)

\* apply_delta_to_state: positions += read, score = uint32(base + read),
\* directions as read.
apply_delta_to_state(base, buf, off) ==
    LET d == ReadFields("delta", buf, off, 1, base)
    IN IF d = Underflow THEN Underflow
       ELSE [value |-> [f \in DOMAIN base |->
                          CASE f \in {"left_score", "right_score"} ->
                                 U32Cast(base[f] + d.value[f])
                            [] f \in {"left_direction", "right_direction", "tick"} ->
                                 d.value[f]
                            [] OTHER -> base[f] + d.value[f]],
             offset |-> d.offset]

\* The DeltaCodec methods (encode_keyframe is named codec_encode_keyframe,
\* apart from SnapshotGenerator::encode_keyframe).  decode_keyframe and
\* apply_delta start reading at offset 0 and stamp the tick t they are
\* given.
codec_encode_keyframe(s) == write_state(s)

decode_keyframe(data, t) ==
    LET r == read_state(data, 0)
    IN IF r = Underflow THEN Underflow ELSE [r.value EXCEPT !.tick = t]

encode_delta(base, s) == write_delta(base, s)

apply_delta(base, delta, t) ==
    LET r == apply_delta_to_state(base, delta, 0)
    IN IF r = Underflow THEN Underflow ELSE [r.value EXCEPT !.tick = t]

-----------------------------------------------------------------------------

\* Bounded inputs: every position distinct (so a swap of two fields
\* shows), scores that need one and two bytes, all three directions.
MkState(x, ls, rs, ld, rd, t) ==
    [ball_x |-> x, ball_y |-> x + 1, ball_vx |-> x - 2, ball_vy |-> x + 3,
     left_paddle_y |-> x + 4, right_paddle_y |-> x - 5,
     left_score |-> ls, right_score |-> rs,
     left_direction |-> ld, right_direction |-> rd, tick |-> t]

Score == {0, 1, 256}
Direction == {-1, 0, 1}
States == {MkState(x, ls, rs, ld, rd, 0) :
             x \in {0, 7}, ls \in Score, rs \in Score, ld \in Direction,
             rd \in Direction}

\* A keyframe decodes to the state it was made from, with the tick it is
\* stamped with, and a delta applied to its own base gives back the
\* target: write_delta and apply_delta_to_state agree on field order,
\* widths, byte order and the int16 score difference, in both
\* directions of the score change.  A buffer of the other kind, or cut
\* short, is refused rather than read past its end.
DeltaCodecAgrees ==
    /\ \A s \in States :
          /\ decode_keyframe(codec_encode_keyframe(s), 5) = [s EXCEPT !.tick = 5]
          /\ decode_keyframe(encode_delta(s, s), 5) = Underflow
          /\ apply_delta(s, SubSeq(encode_delta(s, s), 1, 27), 5) = Underflow
    /\ \A base, s \in States :
          apply_delta(base, encode_delta(base, s), 5) = [s EXCEPT !.tick = 5]

=============================================================================

--------------------------- MODULE ChannelPacking ---------------------------
(***************************************************************************)
(* The way of a signal's level through the four places that have to agree  *)
(* on where it stands:                                                     *)
(*                                                                         *)
(*   manifest.rs build_manifest_json     splits the channels in two lists; *)
(*   the loader (external)               packs the bound signals of both   *)
(*                                       lists into a sample, two bits per *)
(*                                       signal;                           *)
(*   registry.rs sample_to_transition,   unpacks the sample, and numbers   *)
(*   channel_bit_positions               the bound channels;               *)
(*   srd.rs create_session,              sizes the frame by those numbers, *)
(*   apply_changes, pack_row             and packs a row for the library.  *)
(*                                                                         *)
(* A channel is its place in the manifest's list.  A byte is a function    *)
(* from bit number to bit.                                                 *)
(***************************************************************************)
EXTENDS Naturals, Sequences, FiniteSetsExt

CONSTANTS
  NumChannels,  \* channels the decoder declares
  ByteBits      \* bits of a byte: 8 in the code, and even in any case

ASSUME NumChannelsAssumption == NumChannels \in Nat \ {0}
ASSUME ByteAssumption == ByteBits \in Nat \ {0} /\ ByteBits % 2 = 0

VARIABLES
  required,   \* DecoderChannel::required, of each channel
  status,     \* of the instance: "none", "refused" or "open"
  bound,      \* the channels the loader bound to a signal
  positions,  \* the channel map of create_session
  levels,     \* SrdSession::levels
  known       \* history: the last determinate level of each bound signal

vars == <<required, status, bound, positions, levels, known>>

Channel == 1..NumChannels
Bit == {0, 1}
SignalValue == [level : Bit, unknown : Bit]

CeilDiv(n, d) == (n + d - 1) \div d
(* The bytes that hold the given bits, numbered from 0, padded with zeros. *)
Bytes(bits) ==
  LET n == Cardinality(DOMAIN bits)
  IN [k \in 0..(CeilDiv(n, ByteBits) - 1) |->
        [j \in 0..(ByteBits - 1) |->
           IF k * ByteBits + j < n THEN bits[k * ByteBits + j] ELSE 0]]
BitOf(bytes, i) == bytes[i \div ByteBits][i % ByteBits]

-----------------------------------------------------------------------------
(* The elements of list that are in set, in their order.  (SelectSeq, as a *)
(* recursive function.)                                                    *)
Kept(list, set) ==
  LET kept[i \in 0..Len(list)] ==
        IF i = 0 THEN <<>>
        ELSE IF list[i] \in set THEN Append(kept[i - 1], list[i]) ELSE kept[i - 1]
  IN kept[Len(list)]

(* signal_entries of the manifest: the required channels or the others.    *)
SignalEntries(r) == Kept([i \in Channel |-> i], {c \in Channel : required[c] = r})

(* The loader: bound signals only, `signals` before `optional_signals`,    *)
(* low bit the level, high bit the unknown flag.                           *)
LoaderOrder(b) ==
  Kept(SignalEntries(TRUE) \o SignalEntries(FALSE), b)

LoaderSample(b, value) ==
  LET order == LoaderOrder(b)
      bits == [i \in 0..(2 * Len(order) - 1) |->
                 IF i % 2 = 0 THEN value[order[i \div 2 + 1]].level
                              ELSE value[order[i \div 2 + 1]].unknown]
  IN [width |-> Len(order), bytes |-> Bytes(bits)]

-----------------------------------------------------------------------------
(* Mutant: channels are numbered as they are declared.                     *)
DeclarationOrder(b) == [c \in b |-> Cardinality({d \in b : d < c})]

(* The order of the manifest's two lists.                                  *)
Before(c, d) ==
  \/ required[c] /\ ~required[d]
  \/ required[c] = required[d] /\ c < d

(* Mutant: a channel that is not bound takes a position too.               *)
PositionsWithGaps(b) ==
  [c \in b |-> Cardinality({d \in Channel : Before(d, c)})]

(* channel_bit_positions: the required ones first, then the optional ones, *)
(* each in declaration order, without a gap for an unbound one.            *)
ChannelBitPositions(b) ==
  [c \in b |-> Cardinality({d \in b : Before(d, c)})]

(* sample_to_transition: the value of each channel of the sample.          *)
SampleToTransition(s) ==
  [ch \in {n \in 0..(s.width - 1) :
             (2 * n) \div ByteBits \in DOMAIN s.bytes} |->
     IF BitOf(s.bytes, 2 * ch + 1) = 1 THEN "X"
     ELSE IF BitOf(s.bytes, 2 * ch) = 1 THEN "1" ELSE "0"]

(* create_session: the width of the sample frame, at least one channel.    *)
FrameWidth(pos) == Max({pos[c] + 1 : c \in DOMAIN pos} \cup {1})

(* apply_changes, over the levels of the frame.                            *)
ApplyChanges(lv, set) ==
  [n \in DOMAIN lv |-> IF n \in DOMAIN set /\ set[n] # "X"
                       THEN IF set[n] = "1" THEN 1 ELSE 0
                       ELSE lv[n]]

(* pack_row: the bytes one sample row is sent as.                          *)
PackRow(lv) == Bytes(lv)

-----------------------------------------------------------------------------
Init ==
  /\ required \in [Channel -> BOOLEAN]
  /\ status = "none"
  /\ bound = {}
  /\ positions = <<>>
  /\ levels = <<>>
  /\ known = <<>>

(* create_instance, then create_session in the bridge; a required channel  *)
(* left unbound is refused.                                                *)
CreateInstance(b) ==
  /\ status = "none"
  /\ bound' = b
  /\ IF \A c \in Channel : required[c] => c \in b
     THEN /\ status' = "open"
          /\ positions' = ChannelBitPositions(b)
          /\ levels' = [n \in 0..(FrameWidth(positions') - 1) |-> 0]
          /\ known' = [c \in b |-> 0]
     ELSE /\ status' = "refused"
          /\ UNCHANGED <<positions, levels, known>>
  /\ UNCHANGED required

(* One sample of the loader, all the way to the levels of the session.     *)
Feed(value) ==
  /\ status = "open"
  /\ levels' = ApplyChanges(levels,
                            SampleToTransition(LoaderSample(bound, value)))
  /\ known' = [c \in bound |->
                 IF value[c].unknown = 1 THEN known[c] ELSE value[c].level]
  /\ UNCHANGED <<required, status, bound, positions>>

Next ==
  \/ \E b \in SUBSET Channel : CreateInstance(b)
  \/ \E value \in [bound -> SignalValue] : Feed(value)

Spec == Init /\ [][Next]_vars

-----------------------------------------------------------------------------
(* The decoder sees the signals it was bound to: the bit the library reads *)
(* for a bound channel, at the index create_session gave it, is the last   *)
(* determinate level of the signal the loader bound to that channel, and   *)
(* every other bit of the row is low (registry.rs channel_bit_positions,   *)
(* "the positions follow that same order").                                *)
DecoderSeesItsSignals ==
  status = "open" =>
    LET row == PackRow(levels)
        index == {k * ByteBits + j : k \in DOMAIN row, j \in 0..(ByteBits - 1)}
    IN \A i \in index :
         /\ \A c \in bound : positions[c] \in index
         /\ BitOf(row, i) = 1 <=> \E c \in bound : positions[c] = i /\ known[c] = 1

(* The positions of registry.rs and the frame of srd.rs fit: the bound     *)
(* channels number the levels of the frame, each another and none left     *)
(* over, in the order of the manifest's lists.                             *)
PositionsFillTheFrame ==
  status = "open" /\ bound # {} =>
    /\ {positions[c] : c \in bound} = DOMAIN levels
    /\ \A c, d \in bound : Before(c, d) => positions[c] < positions[d]
=============================================================================

---------------------------- MODULE DecodeLadder ----------------------------
(***************************************************************************)
(* The decode ladder shared by the two stages of the streaming path.       *)
(* Stage 0 (streaming.CodecCursor) cuts the codec stream into blocks and   *)
(* stage 1 (_forward_s3gen) decides when a prefix is worth decoding.  The  *)
(* two run in different processes and compute the same                     *)
(* ladder independently, from the same three environment values.           *)
(***************************************************************************)
EXTENDS SampleGeometry

CONSTANTS
  FirstBlock,   \* ACOUSTIC_STREAM_FIRST_BLOCK, codes in the first block
  GrowthPct,    \* ACOUSTIC_STREAM_BLOCK_GROWTH, in hundredths (1.8 is 180)
  MaxBlock      \* ACOUSTIC_STREAM_MAX_BLOCK

\* What CodecCursor.take_scheduled_chunk insists on: each is at least one.
ASSUME LadderAssumption ==
  /\ FirstBlock \in Nat \ {0}
  /\ GrowthPct \in Nat /\ GrowthPct >= 100
  /\ MaxBlock \in Nat \ {0}

\* min(int(block * growth), max_block)
NextBlock(b) == MinOf((b * GrowthPct) \div 100, MaxBlock)

\* Sizes a block can have; 0 before the ladder is started.
BlockSizes == 0..MaxOf(FirstBlock, MaxBlock)
=============================================================================

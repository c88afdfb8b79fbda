----------------------------- MODULE PPMProofs -----------------------------
(***************************************************************************)
(* Proofs about the PPM decoder, for any number of channels, length of the *)
(* lock and timeout.                                                       *)
(***************************************************************************)
EXTENDS PPM, TLAPS

\* The number of frames of one size is a number, and counts this one.
LEMMA StreakCounts ==
  ASSUME TypeOK, NEW n \in Channels
  PROVE  /\ Streak(n) \in [n : Channels, frames : 0 .. PPM_CHANNEL_LOCK + 2]
         /\ Streak(n).n = n /\ Streak(n).frames >= 1
         /\ streak.n = n /\ streak.frames <= PPM_CHANNEL_LOCK + 1
              => Streak(n).frames = streak.frames + 1
         /\ streak.n = n /\ streak.frames = PPM_CHANNEL_LOCK + 2
              => Streak(n).frames = PPM_CHANNEL_LOCK + 2
<1>1. streak.n \in Channels /\ streak.frames \in 0 .. PPM_CHANNEL_LOCK + 2
  BY DEF TypeOK
<1>2. PPM_CHANNEL_LOCK \in Nat
  BY PPMAssumption
<1>. QED  BY <1>1, <1>2 DEF Streak

\* Where a smaller interval lies.
LEMMA Within ==
  ASSUME NEW n \in Nat, NEW m \in Nat, n <= m
  PROVE  /\ 0 .. n - 1 \subseteq 0 .. m - 1
         /\ 0 .. 2 * n + 1 \subseteq 0 .. 2 * m + 1
<1>1. ASSUME NEW i \in 0 .. n - 1 PROVE i \in 0 .. m - 1
  OBVIOUS
<1>2. ASSUME NEW i \in 0 .. 2 * n + 1 PROVE i \in 0 .. 2 * m + 1
  OBVIOUS
<1>. QED  BY <1>1, <1>2

\* Time passes up to the timeout.
LEMMA OlderType ==
  ASSUME NEW a \in 0 .. PPM_INPUT_TIMEOUT
  PROVE  Older(a) \in 0 .. PPM_INPUT_TIMEOUT
BY PPMAssumption DEF Older

\* The lock keeps count of the frames, and lets a count through when it has seen enough.
LEMMA LockKeeps ==
  ASSUME DecoderInv, Lock, streak' = Streak(next_channel)
  PROVE  /\ ppm_decoded_channels' \in Channels /\ new_channel_count' \in Channels
         /\ new_channel_holdoff' \in 0 .. PPM_CHANNEL_LOCK
         /\ streak' \in [n : Channels, frames : 0 .. PPM_CHANNEL_LOCK + 2]
         /\ StreakInv'
         /\ ppm_decoded_channels' \notin {0, ppm_decoded_channels} =>
              streak' = [n |-> ppm_decoded_channels', frames |-> PPM_CHANNEL_LOCK + 2]
<1>1. /\ next_channel \in Channels /\ ppm_decoded_channels \in Channels
      /\ new_channel_count \in Channels /\ new_channel_holdoff \in 0 .. PPM_CHANNEL_LOCK
      /\ PPM_CHANNEL_LOCK \in Nat /\ PPM_MAX_CHANNELS \in Nat
  BY PPMAssumption DEF DecoderInv, TypeOK
<1>2. /\ streak' \in [n : Channels, frames : 0 .. PPM_CHANNEL_LOCK + 2]
      /\ streak'.n = next_channel /\ streak'.frames >= 1
      /\ streak.n = next_channel /\ streak.frames <= PPM_CHANNEL_LOCK + 1
              => streak'.frames = streak.frames + 1
      /\ streak.n = next_channel /\ streak.frames = PPM_CHANNEL_LOCK + 2
              => streak'.frames = PPM_CHANNEL_LOCK + 2
  BY <1>1, StreakCounts DEF DecoderInv
<1>3. streak.frames \in 0 .. PPM_CHANNEL_LOCK + 2
  BY DEF DecoderInv, TypeOK
<1>4. new_channel_count # 0 => /\ streak.n = new_channel_count
                               /\ streak.frames >= PPM_CHANNEL_LOCK + 1 - new_channel_holdoff
  BY DEF DecoderInv, StreakInv
<1>5. CASE new_channel_count # next_channel
  <2>1. /\ new_channel_count' = next_channel /\ new_channel_holdoff' = PPM_CHANNEL_LOCK
        /\ ppm_decoded_channels' = ppm_decoded_channels
    BY <1>5 DEF Lock
  <2>. QED  BY <1>1, <1>2, <2>1 DEF StreakInv
<1>6. CASE new_channel_count = next_channel /\ new_channel_holdoff > 0
  <2>1. /\ new_channel_holdoff' = new_channel_holdoff - 1
        /\ ppm_decoded_channels' = ppm_decoded_channels
        /\ new_channel_count' = new_channel_count
    BY <1>1, <1>6 DEF Lock
  <2>2. new_channel_count # 0 =>
          streak'.frames >= PPM_CHANNEL_LOCK + 1 - (new_channel_holdoff - 1)
    BY <1>1, <1>2, <1>3, <1>4, <1>6
  <2>. QED  BY <1>1, <1>2, <1>6, <2>1, <2>2 DEF StreakInv
<1>7. CASE new_channel_count = next_channel /\ new_channel_holdoff = 0
  <2>1. /\ ppm_decoded_channels' = new_channel_count /\ new_channel_count' = 0
        /\ new_channel_holdoff' = new_channel_holdoff
    BY <1>1, <1>7 DEF Lock
  <2>2. new_channel_count # 0 => streak'.frames = PPM_CHANNEL_LOCK + 2
    BY <1>1, <1>2, <1>3, <1>4, <1>7
  <2>3. new_channel_count # 0 =>
          streak' = [n |-> new_channel_count, frames |-> PPM_CHANNEL_LOCK + 2]
    BY <1>2, <1>7, <2>2
  <2>4. StreakInv'
    BY <2>1 DEF StreakInv
  <2>5. ppm_decoded_channels' # 0 =>
          streak' = [n |-> ppm_decoded_channels', frames |-> PPM_CHANNEL_LOCK + 2]
    BY <2>1, <2>3
  <2>6. /\ ppm_decoded_channels' \in Channels /\ new_channel_count' \in Channels
        /\ new_channel_holdoff' \in 0 .. PPM_CHANNEL_LOCK
    BY <1>1, <2>1 DEF Channels
  <2>. QED  BY <1>2, <2>4, <2>5, <2>6
<1>. QED  BY <1>1, <1>5, <1>6, <1>7

\* The end of a frame; what is exported is whole, because something was expected.
LEMMA StartGapKeeps ==
  ASSUME DecoderInv, StartGap,
         steady' \in Frames \cup {0}, left' \in 0 .. 2 * (PPM_MAX_CHANNELS + 1) + 1
  PROVE  DecoderInv'
<1>. USE DEF DecoderInv
<1>1. next_channel' = 0 /\ phase' = "ARM" /\ own' = {}
  BY DEF StartGap, TypeOK
<1>2. age' \in 0 .. PPM_INPUT_TIMEOUT
  <2>1. age \in 0 .. PPM_INPUT_TIMEOUT /\ 0 \in 0 .. PPM_INPUT_TIMEOUT
    BY PPMAssumption DEF TypeOK
  <2>2. age' = Older(age) \/ age' = 0
    BY DEF StartGap, Export
  <2>. QED  BY <2>1, <2>2, OlderType
<1>3. /\ ppm_buffer' \in [n : Channels, whole : BOOLEAN] /\ ppm_fresh_data' \in BOOLEAN
      /\ ppm_buffer'.whole
  <2>1. CASE next_channel = ppm_decoded_channels /\ Export
    <3>1. next_channel > 0 /\ next_channel \in Channels
      BY <2>1, PPMAssumption DEF Export, TypeOK, Channels
    <3>2. own = 0 .. next_channel - 1
      BY <2>1, <3>1 DEF FrameInv, Channels
    <3>. QED  BY <2>1, <3>1, <3>2 DEF Export
  <2>2. CASE UNCHANGED <<ppm_buffer, ppm_fresh_data>>
    BY <2>2 DEF TypeOK, FrameInv, ExportIsWhole
  <2>. QED  BY <2>1, <2>2 DEF StartGap
<1>4. /\ ppm_decoded_channels' \in Channels /\ new_channel_count' \in Channels
      /\ new_channel_holdoff' \in 0 .. PPM_CHANNEL_LOCK
      /\ streak' \in [n : Channels, frames : 0 .. PPM_CHANNEL_LOCK + 2]
      /\ StreakInv'
  <2>1. CASE Lock /\ streak' = Streak(next_channel)
    BY <2>1, LockKeeps
  <2>2. CASE UNCHANGED <<ppm_decoded_channels, new_channel_count, new_channel_holdoff, streak>>
    BY <2>2 DEF TypeOK, StreakInv
  <2>. QED  BY <2>1, <2>2 DEF StartGap
<1>5. TypeOK'
  BY <1>1, <1>2, <1>3, <1>4, PPMAssumption DEF TypeOK, Channels
<1>6. FrameInv'
  BY <1>1, <1>3 DEF FrameInv, ExportIsWhole
<1>. QED  BY <1>4, <1>5, <1>6

\* An edge, whatever it looks like.
LEMMA DecodeKeeps ==
  ASSUME DecoderInv,
         steady' \in Frames \cup {0}, left' \in 0 .. 2 * (PPM_MAX_CHANNELS + 1) + 1,
         NEW reset, NEW width, NEW interval_ok,
         ppm_input_decode(reset, width, interval_ok)
  PROVE  DecoderInv'
<1>. USE DEF DecoderInv
<1>1. CASE Error
  BY <1>1, PPMAssumption DEF Error, TypeOK, Channels, FrameInv, ExportIsWhole, StreakInv
<1>2. CASE StartGap
  BY <1>2, StartGapKeeps
<1>3. CASE UNCHANGED decoder
  BY <1>3 DEF decoder, TypeOK, FrameInv, ExportIsWhole, StreakInv
<1>4. ASSUME NEW p \in {"INACTIVE", "ACTIVE"}, Phase(p), phase # "UNSYNCH"
      PROVE  DecoderInv'
  BY <1>4 DEF Phase, TypeOK, FrameInv, ExportIsWhole, StreakInv
<1>5. CASE Channel /\ phase = "ACTIVE"
  <2>1. next_channel \in 0 .. PPM_MAX_CHANNELS /\ PPM_MAX_CHANNELS \in Nat
    BY PPMAssumption DEF TypeOK, Channels
  <2>2. own = 0 .. next_channel - 1
    BY <1>5 DEF FrameInv
  <2>3. next_channel' \in Channels /\ own' = 0 .. next_channel' - 1
    <3>1. CASE next_channel < PPM_MAX_CHANNELS
      <4>1. next_channel' = next_channel + 1 /\ own' = own \cup {next_channel}
        BY <1>5, <3>1 DEF Channel
      <4>2. next_channel' - 1 = next_channel /\ next_channel' \in Channels
        BY <2>1, <3>1, <4>1 DEF Channels
      <4>3. 0 .. next_channel = (0 .. next_channel - 1) \cup {next_channel}
        BY <2>1
      <4>. QED  BY <2>2, <4>1, <4>2, <4>3
    <3>2. CASE ~(next_channel < PPM_MAX_CHANNELS)
      BY <1>5, <2>1, <2>2, <3>2 DEF Channel, Channels
    <3>. QED  BY <3>1, <3>2
  <2>4. own' \subseteq 0 .. PPM_MAX_CHANNELS - 1
    <3>1. next_channel' \in Nat /\ next_channel' <= PPM_MAX_CHANNELS
      BY <2>1, <2>3 DEF Channels
    <3>2. 0 .. next_channel' - 1 \subseteq 0 .. PPM_MAX_CHANNELS - 1
      BY <2>1, <3>1, Within
    <3>. QED  BY <2>3, <3>2
  <2>. QED  BY <1>5, <2>3, <2>4 DEF Channel, TypeOK, FrameInv, ExportIsWhole, StreakInv
<1>. QED  BY <1>1, <1>2, <1>3, <1>4, <1>5 DEF ppm_input_decode

\* A decoder that has seen no edge.
LEMMA InitDecoder == Init => DecoderInv
<1>. SUFFICES ASSUME Init PROVE DecoderInv
  OBVIOUS
<1>1. TypeOK
  <2>1. 0 \in Channels /\ 0 \in 0 .. PPM_CHANNEL_LOCK /\ 0 \in 0 .. PPM_CHANNEL_LOCK + 2
    BY PPMAssumption DEF Channels
  <2>2. /\ PPM_INPUT_TIMEOUT \in 0 .. PPM_INPUT_TIMEOUT
        /\ 0 \in 0 .. 2 * (PPM_MAX_CHANNELS + 1) + 1
    BY PPMAssumption
  <2>. QED  BY <2>1, <2>2 DEF Init, TypeOK
<1>2. FrameInv /\ StreakInv
  BY DEF Init, FrameInv, ExportIsWhole, StreakInv
<1>. QED  BY <1>1, <1>2 DEF DecoderInv

\* The edges of a steady signal stay within a frame.
LEMMA LeftType ==
  ASSUME TypeOK, steady # 0
  PROVE  2 * steady + 1 \in 0 .. 2 * (PPM_MAX_CHANNELS + 1) + 1
<1>1. steady \in Nat /\ steady <= PPM_MAX_CHANNELS + 1
  BY PPMAssumption DEF TypeOK, Frames
<1>. QED  BY <1>1, PPMAssumption

\* Every step keeps the invariant of the decoder.
LEMMA StepDecoder == DecoderInv /\ [Next]_vars => DecoderInv'
<1>. SUFFICES ASSUME DecoderInv, [Next]_vars PROVE DecoderInv'
  OBVIOUS
<1>. USE DEF DecoderInv
<1>1. CASE NoisyEdge
  <2>1. steady' \in Frames \cup {0} /\ left' \in 0 .. 2 * (PPM_MAX_CHANNELS + 1) + 1
    BY <1>1 DEF NoisyEdge, TypeOK
  <2>. QED  BY <1>1, <2>1, DecodeKeeps DEF NoisyEdge
<1>2. CASE SteadyEdge
  <2>1. steady' \in Frames \cup {0}
    BY <1>2 DEF SteadyEdge, TypeOK
  <2>2. left' \in 0 .. 2 * (PPM_MAX_CHANNELS + 1) + 1
    <3>1. CASE left = 0
      BY <1>2, <3>1, LeftType DEF SteadyEdge
    <3>2. CASE left # 0
      <4>1. left' = left - 1
        BY <1>2, <3>2 DEF SteadyEdge
      <4>. QED  BY <3>2, <4>1, PPMAssumption DEF TypeOK
    <3>. QED  BY <3>1, <3>2
  <2>. QED  BY <1>2, <2>1, <2>2, DecodeKeeps DEF SteadyEdge
<1>3. CASE Settle
  <2>1. steady' \in Frames /\ left' \in 0 .. 2 * steady' + 1
    BY <1>3 DEF Settle
  <2>2. steady' \in Nat /\ steady' <= PPM_MAX_CHANNELS + 1
    BY <2>1, PPMAssumption DEF Frames
  <2>3. left' \in 0 .. 2 * (PPM_MAX_CHANNELS + 1) + 1
    <3>1. PPM_MAX_CHANNELS + 1 \in Nat
      BY PPMAssumption
    <3>2. 0 .. 2 * steady' + 1 \subseteq 0 .. 2 * (PPM_MAX_CHANNELS + 1) + 1
      BY <2>2, <3>1, Within
    <3>. QED  BY <2>1, <3>2
  <2>. QED  BY <1>3, <2>1, <2>3 DEF Settle, decoder, TypeOK, FrameInv, ExportIsWhole, StreakInv
<1>4. CASE Disturb
  <2>1. left' \in 0 .. 2 * (PPM_MAX_CHANNELS + 1) + 1 /\ steady' = 0
    BY <1>4, PPMAssumption DEF Disturb
  <2>. QED  BY <1>4, <2>1 DEF Disturb, decoder, TypeOK, FrameInv, ExportIsWhole, StreakInv
<1>5. CASE Silence
  BY <1>5, OlderType DEF Silence, TypeOK, FrameInv, ExportIsWhole, StreakInv
<1>6. CASE ppm_read
  BY <1>6 DEF ppm_read, TypeOK, FrameInv, ExportIsWhole, StreakInv
<1>7. CASE ppm_ioctl
  BY <1>7, PPMAssumption DEF ppm_ioctl, TypeOK, Channels, FrameInv, ExportIsWhole, StreakInv
<1>8. CASE UNCHANGED vars
  BY <1>8 DEF vars, decoder, TypeOK, FrameInv, ExportIsWhole, StreakInv
<1>. QED  BY <1>1, <1>2, <1>3, <1>4, <1>5, <1>6, <1>7, <1>8 DEF Next

\* The decoder's state is well typed; no channel is stored beyond its buffer.
THEOREM DecoderTypeCorrect == Spec => []TypeOK
<1>1. DecoderInv => TypeOK
  BY DEF DecoderInv
<1>. QED  BY <1>1, InitDecoder, StepDecoder, PTL DEF Spec

(***************************************************************************)
(* Whatever the edges, everything that is exported is one whole frame.     *)
(***************************************************************************)
THEOREM ExportsAreWhole == Spec => []ExportIsWhole
<1>1. DecoderInv => ExportIsWhole
  BY DEF DecoderInv, FrameInv
<1>. QED  BY <1>1, InitDecoder, StepDecoder, PTL DEF Spec

\* What an edge does to the number of channels, LockKeeps apart: nothing, or zero.
LEMMA DecodeLocks ==
  ASSUME DecoderInv, NEW reset, NEW width, NEW interval_ok,
         ppm_input_decode(reset, width, interval_ok),
         ppm_decoded_channels' \notin {0, ppm_decoded_channels}
  PROVE  streak' = [n |-> ppm_decoded_channels', frames |-> PPM_CHANNEL_LOCK + 2]
<1>1. Lock /\ streak' = Streak(next_channel)
  BY DEF ppm_input_decode, Error, StartGap, decoder, Phase, Channel
<1>. QED  BY <1>1, LockKeeps

(***************************************************************************)
(* A number of channels is taken up only after enough frames that have it. *)
(***************************************************************************)
THEOREM TheLockHolds == Spec => LockHolds
<1>1. ASSUME DecoderInv, [Next]_vars
      PROVE  [ppm_decoded_channels' \notin {0, ppm_decoded_channels} =>
                streak' = [n |-> ppm_decoded_channels', frames |-> PPM_CHANNEL_LOCK + 2]]_vars
  <2>. SUFFICES ASSUME Next, ppm_decoded_channels' \notin {0, ppm_decoded_channels}
                PROVE  streak' = [n |-> ppm_decoded_channels', frames |-> PPM_CHANNEL_LOCK + 2]
    BY <1>1
  <2>1. NoisyEdge \/ SteadyEdge
    BY DEF Next, Settle, Disturb, Silence, ppm_read, ppm_ioctl, decoder
  <2>. QED  BY <1>1, <2>1, DecodeLocks DEF NoisyEdge, SteadyEdge
<1>2. DecoderInv /\ [Next]_vars =>
        [ppm_decoded_channels' \notin {0, ppm_decoded_channels} =>
           streak' = [n |-> ppm_decoded_channels', frames |-> PPM_CHANNEL_LOCK + 2]]_vars
  BY <1>1
<1>. QED  BY <1>2, InitDecoder, StepDecoder, PTL DEF Spec, LockHolds
============================================================================

-------------------------------- MODULE PPM --------------------------------
(***************************************************************************)
(* The PPM input of the PX4IO board: the decoder that runs at every edge   *)
(* of the receiver's signal, in interrupt context, and the device that     *)
(* reads it (src/nuttx/configs/px4io/src/drv_ppm_input.c).                 *)
(*                                                                         *)
(* Times are abstracted to what the decoder tells apart.  An edge comes    *)
(* after a start gap, a pulse or something in between, and the interval    *)
(* from the last mark is that of a channel or not; an edge may also have   *)
(* been missed (the overflow flag).  The differences are of 16 bits, so    *)
(* that a pause may look like anything: a signal that is not steady is any *)
(* sequence of edges.  A steady one is well-formed frames of a fixed       *)
(* number of channels.  Age is counted in frames.                          *)
(***************************************************************************)
EXTENDS Integers

CONSTANTS
  PPM_MIN_CHANNELS, PPM_MAX_CHANNELS, PPM_CHANNEL_LOCK,
  PPM_INPUT_TIMEOUT   \* in frames

ASSUME PPMAssumption ==
  /\ PPM_MIN_CHANNELS \in Nat /\ PPM_MAX_CHANNELS \in Nat /\ PPM_CHANNEL_LOCK \in Nat
  /\ PPM_INPUT_TIMEOUT \in Nat
  /\ PPM_MIN_CHANNELS < PPM_MAX_CHANNELS

VARIABLES
  phase, next_channel,                    \* ppm
  ppm_decoded_channels,
  new_channel_count, new_channel_holdoff, \* the channel lock
  own,             \* the channels of ppm_temp_buffer written in this frame
  ppm_buffer,      \* the last export: its channels, and if all are of one frame
  ppm_fresh_data,
  age,             \* now - ppm_timestamp
  steady, left,    \* the signal: its channels if it is steady; edges to the next start gap
  streak           \* history: frames that were not expected, of one size, with none of
                   \* another size that was not expected between them

decoder == <<phase, next_channel, ppm_decoded_channels, new_channel_count,
             new_channel_holdoff, own, ppm_buffer, ppm_fresh_data, age, streak>>
vars == <<decoder, steady, left>>

Channels == 0 .. PPM_MAX_CHANNELS

\* What a transmitter may send: one channel more than the decoder keeps, too.
Frames == (PPM_MIN_CHANNELS + 1) .. (PPM_MAX_CHANNELS + 1)

Init ==
  /\ phase = "UNSYNCH" /\ next_channel = 0
  /\ ppm_decoded_channels = 0
  /\ new_channel_count = 0 /\ new_channel_holdoff = 0
  /\ own = {} /\ ppm_buffer = [n |-> 0, whole |-> TRUE] /\ ppm_fresh_data = FALSE
  /\ age = PPM_INPUT_TIMEOUT
  /\ steady = 0 /\ left = 0
  /\ streak = [n |-> 0, frames |-> 0]

Older(a) == IF a < PPM_INPUT_TIMEOUT THEN a + 1 ELSE a

-----------------------------------------------------------------------------
(* ppm_input_decode, from the start gap to the error.                      *)

\* Mutant: another count does not start the lock again.
Lock_NoRestart ==
  \/ /\ new_channel_count # next_channel
     /\ new_channel_count' = next_channel
     /\ new_channel_holdoff' = IF new_channel_holdoff = 0 THEN PPM_CHANNEL_LOCK
                               ELSE new_channel_holdoff
     /\ UNCHANGED ppm_decoded_channels
  \/ /\ new_channel_count = next_channel /\ new_channel_holdoff > 0
     /\ new_channel_holdoff' = new_channel_holdoff - 1
     /\ UNCHANGED <<ppm_decoded_channels, new_channel_count>>
  \/ /\ new_channel_count = next_channel /\ new_channel_holdoff = 0
     /\ ppm_decoded_channels' = new_channel_count /\ new_channel_count' = 0
     /\ UNCHANGED new_channel_holdoff

\* Mutant: the lock forgets to count down.
Lock_Stuck ==
  \/ /\ new_channel_count # next_channel
     /\ new_channel_count' = next_channel /\ new_channel_holdoff' = PPM_CHANNEL_LOCK
     /\ UNCHANGED ppm_decoded_channels
  \/ /\ new_channel_count = next_channel /\ new_channel_holdoff > 0
     /\ UNCHANGED <<ppm_decoded_channels, new_channel_count, new_channel_holdoff>>
  \/ /\ new_channel_count = next_channel /\ new_channel_holdoff = 0
     /\ ppm_decoded_channels' = new_channel_count /\ new_channel_count' = 0
     /\ UNCHANGED new_channel_holdoff

\* The number of channels is not the expected one.
Lock ==
  \/ /\ new_channel_count # next_channel
     /\ new_channel_count' = next_channel /\ new_channel_holdoff' = PPM_CHANNEL_LOCK
     /\ UNCHANGED ppm_decoded_channels
  \/ /\ new_channel_count = next_channel /\ new_channel_holdoff > 0
     /\ new_channel_holdoff' = new_channel_holdoff - 1
     /\ UNCHANGED <<ppm_decoded_channels, new_channel_count>>
  \/ /\ new_channel_count = next_channel /\ new_channel_holdoff = 0
     /\ ppm_decoded_channels' = new_channel_count /\ new_channel_count' = 0
     /\ UNCHANGED new_channel_holdoff

Streak(n) ==
  [n |-> n, frames |-> IF streak.n # n THEN 1
                       ELSE IF streak.frames < PPM_CHANNEL_LOCK + 2 THEN streak.frames + 1
                       ELSE streak.frames]

\* The expected number of channels: the frame is used.
Export ==
  /\ next_channel > PPM_MIN_CHANNELS
  /\ ppm_buffer' = [n |-> next_channel, whole |-> own = 0 .. next_channel - 1]
  /\ age' = 0 /\ ppm_fresh_data' = TRUE

StartGap ==
  /\ \/ /\ next_channel # ppm_decoded_channels
        /\ Lock
        /\ streak' = Streak(next_channel)
        /\ age' = Older(age) /\ UNCHANGED <<ppm_buffer, ppm_fresh_data>>
     \/ /\ next_channel = ppm_decoded_channels
        /\ \/ Export
           \/ /\ next_channel <= PPM_MIN_CHANNELS
              /\ age' = Older(age) /\ UNCHANGED <<ppm_buffer, ppm_fresh_data>>
        /\ UNCHANGED <<ppm_decoded_channels, new_channel_count, new_channel_holdoff, streak>>
  /\ next_channel' = 0 /\ phase' = "ARM" /\ own' = {}

\* Mutant: the frame is abandoned, what has been locked is kept.
Error_KeepsCount ==
  /\ phase' = "UNSYNCH" /\ own' = {}
  /\ UNCHANGED <<next_channel, ppm_decoded_channels, new_channel_count, new_channel_holdoff,
                 ppm_buffer, ppm_fresh_data, age, streak>>

\* error: next_channel stays.
Error ==
  /\ phase' = "UNSYNCH" /\ ppm_decoded_channels' = 0 /\ own' = {}
  /\ UNCHANGED <<next_channel, new_channel_count, new_channel_holdoff,
                 ppm_buffer, ppm_fresh_data, age, streak>>

Phase(p) ==
  /\ phase' = p
  /\ UNCHANGED <<next_channel, ppm_decoded_channels, new_channel_count, new_channel_holdoff,
                 own, ppm_buffer, ppm_fresh_data, age, streak>>

\* Mutant: there is always room.
Channel_NoLimit ==
  /\ phase' = "INACTIVE"
  /\ next_channel' = next_channel + 1 /\ own' = own \cup {next_channel}
  /\ UNCHANGED <<ppm_decoded_channels, new_channel_count, new_channel_holdoff,
                 ppm_buffer, ppm_fresh_data, age, streak>>

\* A channel's value is kept if there is room.
Channel ==
  /\ phase' = "INACTIVE"
  /\ IF next_channel < PPM_MAX_CHANNELS
     THEN next_channel' = next_channel + 1 /\ own' = own \cup {next_channel}
     ELSE UNCHANGED <<next_channel, own>>
  /\ UNCHANGED <<ppm_decoded_channels, new_channel_count, new_channel_holdoff,
                 ppm_buffer, ppm_fresh_data, age, streak>>

ppm_input_decode(reset, width, interval_ok) ==
  \/ reset /\ Error
  \/ ~reset /\ width = "start" /\ StartGap
  \/ /\ ~reset /\ width # "start"
     /\ \/ phase = "UNSYNCH" /\ UNCHANGED decoder
        \/ phase = "ARM" /\ IF width = "pulse" THEN Phase("INACTIVE") ELSE Error
        \/ phase = "INACTIVE" /\ Phase("ACTIVE")
        \/ phase = "ACTIVE" /\ IF width = "pulse" /\ interval_ok THEN Channel ELSE Error

-----------------------------------------------------------------------------
(* The signal.                                                             *)

\* Noise: any edge, or one that was missed.
NoisyEdge ==
  /\ steady = 0
  /\ \E reset, interval_ok \in BOOLEAN, width \in {"start", "pulse", "long"} :
       ppm_input_decode(reset, width, interval_ok)
  /\ UNCHANGED <<steady, left>>

\* A frame: the mark of the first channel, then for each channel an edge that does
\* not matter and the mark that ends it, then the start gap.
SteadyEdge ==
  /\ steady # 0
  /\ ppm_input_decode(FALSE, IF left = 0 THEN "start" ELSE IF left % 2 = 1 THEN "pulse"
                             ELSE "long", TRUE)
  /\ left' = IF left = 0 THEN 2 * steady + 1 ELSE left - 1
  /\ UNCHANGED steady

\* The signal becomes steady, somewhere in a frame.
Settle ==
  /\ steady = 0 /\ steady' \in Frames /\ left' \in 0 .. 2 * steady' + 1
  /\ UNCHANGED decoder

Disturb ==
  /\ steady' = 0 /\ left' = 0
  /\ UNCHANGED decoder

\* No edge for the length of a frame.
Silence ==
  /\ steady = 0 /\ age' = Older(age)
  /\ UNCHANGED <<phase, next_channel, ppm_decoded_channels, new_channel_count,
                 new_channel_holdoff, own, ppm_buffer, ppm_fresh_data, streak,
                 steady, left>>

-----------------------------------------------------------------------------
(* The device.                                                             *)

ppm_read ==
  /\ ppm_decoded_channels # 0
  /\ ppm_fresh_data' = FALSE
  /\ UNCHANGED <<phase, next_channel, ppm_decoded_channels, new_channel_count,
                 new_channel_holdoff, own, ppm_buffer, age, streak, steady, left>>

\* PPM_INPUT_STATUS.
ppm_ioctl ==
  /\ age >= PPM_INPUT_TIMEOUT /\ ppm_decoded_channels' = 0
  /\ UNCHANGED <<phase, next_channel, new_channel_count, new_channel_holdoff, own,
                 ppm_buffer, ppm_fresh_data, age, streak, steady, left>>

Next == NoisyEdge \/ SteadyEdge \/ Settle \/ Disturb \/ Silence \/ ppm_read \/ ppm_ioctl

Spec == Init /\ [][Next]_vars

\* The edges of a steady signal come.
FairSpec == Spec /\ WF_vars(SteadyEdge)

-----------------------------------------------------------------------------
TypeOK ==
  /\ phase \in {"UNSYNCH", "ARM", "ACTIVE", "INACTIVE"}
  /\ next_channel \in Channels /\ ppm_decoded_channels \in Channels
  /\ new_channel_count \in Channels /\ new_channel_holdoff \in 0 .. PPM_CHANNEL_LOCK
  /\ own \subseteq 0 .. PPM_MAX_CHANNELS - 1
  /\ ppm_buffer \in [n : Channels, whole : BOOLEAN]
  /\ ppm_fresh_data \in BOOLEAN /\ age \in 0 .. PPM_INPUT_TIMEOUT
  /\ steady \in Frames \cup {0} /\ left \in 0 .. 2 * (PPM_MAX_CHANNELS + 1) + 1
  /\ streak \in [n : Channels, frames : 0 .. PPM_CHANNEL_LOCK + 2]

(***************************************************************************)
(* What is exported is one frame, every channel of it: not an abandoned    *)
(* frame, whose channels stay counted until the next start gap, and not    *)
(* the remains of two.                                                     *)
(***************************************************************************)
ExportIsWhole == ppm_buffer.whole

(***************************************************************************)
(* The decoder takes up another number of channels only after enough       *)
(* frames that were not expected had it, and none of these another,        *)
(* whatever noise, missed edges and status requests came between:          *)
(* PPM_CHANNEL_LOCK settle, one starts the lock and one ends it.           *)
(***************************************************************************)
LockHolds ==
  [][ppm_decoded_channels' \notin {0, ppm_decoded_channels} =>
       streak' = [n |-> ppm_decoded_channels', frames |-> PPM_CHANNEL_LOCK + 2]]_vars

(***************************************************************************)
(* After any noise a steady signal is taken up again, and stays current;   *)
(* unless it is asked for its status meanwhile, which may undo the lock.   *)
(***************************************************************************)
SteadyIsDecoded ==
  (<>[](steady # 0) /\ <>[][~ppm_ioctl]_vars) => <>[](age = 0)

-----------------------------------------------------------------------------
(***************************************************************************)
(* The parts of the inductive invariants of PPMProofs.                     *)
(***************************************************************************)

\* The channels counted are those of this frame, unless it has been abandoned:
\* then no number of channels is expected, and nothing can be exported.
FrameInv ==
  /\ ExportIsWhole
  /\ phase # "UNSYNCH" => own = 0 .. next_channel - 1
  /\ phase = "UNSYNCH" => ppm_decoded_channels = 0

\* The frames the lock has counted.
StreakInv ==
  new_channel_count # 0 =>
    /\ streak.n = new_channel_count
    /\ streak.frames >= PPM_CHANNEL_LOCK + 1 - new_channel_holdoff

DecoderInv == TypeOK /\ FrameInv /\ StreakInv
============================================================================

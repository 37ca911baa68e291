------------------------------ MODULE StftChunks -----------------------------
(***************************************************************************)
(* The chunk loop of process_file() (iq_data.py): a WAV is read block by   *)
(* block, what does not fill a frame any more is carried over, and each    *)
(* frame is pooled into a column of the waterfall, each bin into a row.    *)
(* A sample is its index; the block is the samples from `left` on.         *)
(***************************************************************************)
EXTENDS Naturals, Sequences, FiniteSets

CONSTANTS
  MaxSamples,   \* bound: samples of a file
  FftExponents, \* n_fft is one of 2^e
  MaxTimeBins,  \* MAX_TIME_BINS
  MaxFreqBins   \* MAX_FREQ_BINS

ASSUME StftAssumption ==
  /\ {MaxSamples, MaxTimeBins, MaxFreqBins} \subseteq Nat \ {0}
  /\ FftExponents \subseteq Nat \ {0}

VARIABLES
  n_samples,    \* as the header says
  available,    \* samples that are there: fewer in a file that was cut off
  n_fft,
  read_size,
  pos,          \* snd.tell()
  left,         \* leftover is the samples left .. pos - 1
  frames,       \* the frames done: where each starts
  over          \* the loop was left

stft_vars == <<n_samples, available, n_fft, read_size, pos, left, frames, over>>

Hop == n_fft \div 2

(* _n_stft_frames() *)
NStftFrames(samples) == IF samples < n_fft THEN 0 ELSE 1 + (samples - n_fft) \div Hop

NFrames == NStftFrames(n_samples)

(* A file with no whole frame is refused before; _block_sample_count() may be less than n_fft *)
StftInit ==
  /\ n_samples \in 1 .. MaxSamples /\ available \in 0 .. n_samples
  /\ n_fft \in {2 ^ e : e \in FftExponents} /\ NFrames > 0
  /\ read_size \in 1 .. MaxSamples
  /\ pos = 0 /\ left = 0 /\ frames = <<>> /\ over = FALSE

(* snd.read() *)
Got == IF read_size < available - pos THEN read_size ELSE available - pos

(* Mutant of Carried: the samples after the last frame, without its second half. *)
CarriedAfter(blk) == (blk - 1) * Hop + n_fft

(* leftover begins after the hops of the block's frames *)
Carried(blk) == blk * Hop

(* Nothing is left to read: at the end, or where the file is cut off *)
IsOver(rest) == (n_samples - pos <= 0 \/ Got = 0) /\ rest < n_fft

(* One turn of the loop *)
Chunk ==
  LET end == pos + Got
      blk == NStftFrames(end - left)
  IN /\ ~over /\ pos' = end
     /\ IF blk = 0 THEN UNCHANGED <<left, frames>>
        ELSE /\ frames' = frames \o [k \in 1 .. blk |-> left + (k - 1) * Hop]
             /\ left' = left + Carried(blk)
     /\ over' = IsOver(end - left')
     /\ UNCHANGED <<n_samples, available, n_fft, read_size>>

-----------------------------------------------------------------------------
(* The display grid. *)

CeilDiv(a, b) == (a + b - 1) \div b

(* _pooled_len() *)
PooledLen == IF n_fft <= MaxFreqBins THEN n_fft ELSE n_fft \div CeilDiv(n_fft, MaxFreqBins)

(* _max_pool_axis0(): the row of a bin; the bins after the last whole factor are left out *)
RowOf(bin) == bin \div (n_fft \div PooledLen)

NTimeOut == IF NFrames < MaxTimeBins THEN NFrames ELSE MaxTimeBins

(* The column of frame k *)
ColumnOf(k) == LET c == (k * NTimeOut) \div NFrames IN IF c < NTimeOut THEN c ELSE NTimeOut - 1

-----------------------------------------------------------------------------
(* Whatever the size of the chunks, the frames are those of the whole file, in order and each once:
   a block's last frames overlap the next block's first by half. *)
FramesOfTheWhole ==
  /\ frames = [k \in 1 .. Len(frames) |-> (k - 1) * Hop]
  /\ over => Len(frames) = NStftFrames(available)

(* A block is never larger than a chunk and an incomplete frame (_block_sample_count(): "under a
   few hundred MB"). *)
BlockIsBounded == pos - left < n_fft

(* No row of the waterfall stays empty, nor a column of a file that is complete; time does not run
   backwards in it and every row has as many bins. *)
GridIsFilled ==
  over /\ available = n_samples =>
    /\ {ColumnOf(k) : k \in 0 .. Len(frames) - 1} = 0 .. NTimeOut - 1
    /\ \A k \in 1 .. Len(frames) - 1 : ColumnOf(k - 1) <= ColumnOf(k)
    /\ \A row \in 0 .. PooledLen - 1 :
         Cardinality({bin \in 0 .. n_fft - 1 : RowOf(bin) = row}) = n_fft \div PooledLen

(* The loop ends, also in a file that is cut off. *)
LoopEnds == <>over

(* The spectrum is that of the whole file, in little memory, without holes in the picture. *)
SpectrumIsWhole == FramesOfTheWhole /\ BlockIsBounded /\ GridIsFilled
==============================================================================

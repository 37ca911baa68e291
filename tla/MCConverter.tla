----------------------------- MODULE MCConverter -----------------------------
(* Instances for TLC of the IQ Spectrogram Converter: its window and jobs, the chunk loop of a
   conversion, and what is said of a file's frequencies.  A behaviour is one of the three.      *)
EXTENDS SpectrogramConverter, StftChunks, FrequencyFacts

VARIABLE part

One == <<1, <<"a">>>>
Same == <<2, <<"a">>>>
Numbered == <<1, <<"a", 2>>>>
MCBatches == {<<One, Numbered, Same>>}
MCOthers == {[receiver |-> r, range |-> <<1, 3>>] : r \in {"r1", "r2"}} \cup {[receiver |-> "r2", range |-> <<2, 4>>]}
MCOwn == [receiver |-> "r1", range |-> <<1, 5>>]

(* The other parts are at rest in some state *)
StftAtRest ==
  /\ n_samples = 2 /\ available = 0 /\ n_fft = 2 /\ read_size = 1 /\ pos = 0 /\ left = 0 /\ frames = <<>> /\ over = TRUE
FreqAtRest ==
  /\ chunk = CHOOSE c \in ChunkOf(Own) : ~c.present
  /\ manifest = NoManifest("none") /\ records = [there |-> FALSE, entries |-> {}] /\ markers = FALSE
  /\ lookup = NoLookup /\ axis = NoAxis

MCInit ==
  /\ ConverterInit
  /\ \/ part = "window" /\ StftAtRest /\ FreqAtRest
     \/ part = "loop" /\ StftInit /\ FreqAtRest
     \/ part = "frequencies" /\ StftAtRest /\ FreqInit

MCNext ==
  /\ UNCHANGED part
  /\ \/ part = "window" /\ ConverterNext /\ UNCHANGED <<stft_vars, freq_vars>>
     \/ part = "loop" /\ Chunk /\ UNCHANGED <<converter_vars, freq_vars>>
     \/ part = "frequencies" /\ LookUp /\ UNCHANGED <<converter_vars, stft_vars>>

Spec == MCInit /\ [][MCNext]_<<part, converter_vars, stft_vars, freq_vars>>
FairSpec == Spec /\ ConverterFairness /\ WF_stft_vars(Chunk)

(* A conversion, the line about the chosen file and the loop over a file come to their end. *)
ConverterGoesOn == ConversionEnds /\ InfoArrives /\ LoopEnds
==============================================================================

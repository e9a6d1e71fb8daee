---------------------------- MODULE EnhanceFile ----------------------------
(***************************************************************************)
(* df/enhance.py from the download of a model to the file it writes:       *)
(* init_df and init_model build one of the four networks (df/model.py) as  *)
(* the model's config says (ModelCache holds its directory), enhance()     *)
(* pads, analyses, filters, synthesises and trims a recording, load_audio  *)
(* and save_audio (df/io.py) resample it.  The analysis and synthesis are  *)
(* libDF's, which reset their state for every call (pyDF).                 *)
(*                                                                         *)
(* Samples are numbered from 0, frames from 1.  A network is run on sizes  *)
(* (TensorOps), a filter on frame numbers (DfOps).                         *)
(***************************************************************************)
EXTENDS Integers, Sequences, FiniteSets, ModelCache

CONSTANTS
    Configs,        \* the configurations, records like the ModelParams of a network
    Recordings      \* the input files, records [exists, len, sr, pad]

VARIABLES
    params,         \* the configuration in the model's config.ini, once read
    pc,             \* where enhance() stands
    file,           \* the recording that is enhanced
    frames,         \* frames of the spectrum
    enhanced,       \* what the network returned, a spectrum and a mask
    held,           \* what the buffer of the filter holds between two calls
    saved           \* samples saved and the input sample each of them shows

fileVars == <<params, pc, file, frames, enhanced, held, saved>>
vars == <<fileVars, cacheVars>>

V1 == INSTANCE DeepFilterNet
V2 == INSTANCE DeepFilterNet2
V3 == INSTANCE DeepFilterNet3
MF == INSTANCE DeepFilterNetMF
Ops == INSTANCE TensorOps
Forms == INSTANCE DfOps

\* What the proofs need of the options: sizes of kernels, lookaheads and
\* windows; and of the header of a recording.
ConfigOk(p) ==
    /\ p.version \in {"deepfilternet", "deepfilternet2", "deepfilternet3", "deepfilternetmf"}
    /\ p.fft_size \in Nat \ {0} /\ p.hop_size \in Nat \ {0} /\ p.run_df \in BOOLEAN
    /\ p.df_order \in Nat \ {0} /\ p.df_lookahead \in Nat /\ p.conv_lookahead \in Nat
    /\ IF p.version = "deepfilternet" THEN p.conv_k_enc \in Nat \ {0} /\ p.conv_k_dec \in Nat \ {0}
       ELSE /\ p.conv_kernel[1] \in Nat \ {0} /\ p.conv_kernel_inp[1] \in Nat \ {0}
            /\ p.df_pathway_kernel_size_t \in Nat \ {0} /\ p.df_n_iter \in Nat
    /\ p.version = "deepfilternet3" => p.convt_kernel[1] \in Nat \ {0}

ASSUME EnhanceAssumption ==
    /\ \A p \in Configs : ConfigOk(p)
    /\ Recordings \subseteq [exists : BOOLEAN, len : Nat, sr : Nat \ {0}, pad : BOOLEAN]

ModelRate == 48000
Unknown == [exists |-> TRUE, len |-> 0, sr |-> ModelRate, pad |-> FALSE]
NoConfig == [version |-> "none"]
NoOutput == [spec |-> Ops!Err, mask |-> Ops!Err]
Nothing == [len |-> 0, shows |-> <<>>]

Init ==
    /\ CacheInit
    /\ params = NoConfig
    /\ pc = "config" /\ file = Unknown /\ frames = 0
    /\ enhanced = NoOutput /\ held = <<>> /\ saved = Nothing

\* init_model: the module that the option MODEL names; the DF state refuses
\* a hop of more than half a window
Accepted(p) ==
    /\ 2 * p.hop_size <= p.fft_size
    /\ CASE p.version = "deepfilternet" -> V1!DfNetOk(p)
         [] p.version = "deepfilternet2" -> V2!DfNetOk(p)
         [] p.version = "deepfilternet3" -> V3!DfNetOk(p)
         [] p.version = "deepfilternetmf" -> MF!DfNetOk(p)

Forward(p, in) ==
    CASE p.version = "deepfilternet" -> V1!DfNet(p, in)
      [] p.version = "deepfilternet2" -> V2!DfNet(p, in)
      [] p.version = "deepfilternet3" -> V3!DfNet(p, in)
      [] p.version = "deepfilternetmf" -> MF!DfNet(p, in)

\* init_df, once get_model_basedir has returned: without a config or a whole
\* checkpoint the program ends.
BuildModel ==
    /\ pc = "config" /\ step = "found"
    /\ \/ /\ ~CanLoad
          /\ pc' = "no_model"
          /\ UNCHANGED <<params, held>>
       \/ /\ CanLoad
          /\ \E p \in Configs :
                /\ params' = p
                /\ IF Accepted(p) THEN pc' = "ready" /\ held' = Forms!Fresh(p.df_order)
                   ELSE pc' = "refused" /\ UNCHANGED held
    /\ UNCHANGED <<file, frames, enhanced, saved, cacheVars>>

\* torchaudio's resample rounds the length up
Resampled(len, from, to) == (len * to + from - 1) \div from

\* load_audio: the length of the recording at the rate of the model
LoadAudio(r) == IF r.sr = ModelRate THEN r.len ELSE Resampled(r.len, r.sr, ModelRate)

\* AudioDataset: a file that does not exist stays in the list, whatever the
\* warning says, and ends the program when its turn comes.
MissingFile(r) ==
    /\ pc = "ready" /\ ~r.exists
    /\ file' = r
    /\ pc' = "no_file"
    /\ UNCHANGED <<params, frames, enhanced, held, saved, cacheVars>>

\* The begin of enhance(): pad by a window, analyse whole hops
Analyse(r) ==
    LET len == LoadAudio(r)
        padded == IF r.pad THEN len + params.fft_size ELSE len
    IN  /\ pc = "ready" /\ r.exists /\ padded >= params.hop_size
        /\ file' = r
        /\ frames' = padded \div params.hop_size
        /\ pc' = "features"
        /\ UNCHANGED <<params, enhanced, held, saved, cacheVars>>

\* df_features: n frames of the spectrum, the ERB bands and the first nb_df bins
Features(p, n) ==
    LET bins == p.fft_size \div 2 + 1
    IN  [spec |-> Ops!Map(1, bins, n), erb |-> Ops!Map(1, p.nb_erb, n),
         feat |-> Ops!Map(2, IF p.nb_df < bins THEN p.nb_df ELSE bins, n)]

RunModel ==
    /\ pc = "features"
    /\ \E out \in {Forward(params, Features(params, frames))} :
          IF Ops!Runs(out.spec) /\ Ops!Runs(out.mask)
          THEN pc' = "spectrum" /\ enhanced' = out
          ELSE pc' = "failed" /\ UNCHANGED enhanced
    /\ UNCHANGED <<params, file, frames, held, saved, cacheVars>>

-----------------------------------------------------------------------------
\* The frame of the noisy spectrum that enhanced frame t is an estimate of.
HiddenState(p) ==
    p.version = "deepfilternet" /\ p.run_df /\ p.dfop_method = "real_hidden_state_loop"
FrameShown(t) ==
    IF HiddenState(params)
    THEN Forms!RealHiddenStateLoop(frames, params.df_order, params.df_lookahead, held)[t].on
    ELSE t

\* frame_analysis: frame t begins with the samples kept from before hop t,
\* negative ones are the zeros of a reset state
FirstSample(p, t) == (t - 1) * p.hop_size - (p.fft_size - p.hop_size)

\* frame_synthesis: a frame is added to the output from its hop on
Overlapping(p, n, s) == {t \in 1 .. n : (t - 1) * p.hop_size <= s /\ s < (t - 1) * p.hop_size + p.fft_size}

\* The input samples that add up to output sample s, one for each frame; a
\* frame of zeros shows nothing, one of an earlier recording shows Stale.
Stale == -100000
Shows(s) ==
    [t \in {u \in Overlapping(params, frames, s) : FrameShown(u) # 0} |->
        IF FrameShown(t) < 0 THEN Stale
        ELSE FirstSample(params, FrameShown(t)) + s - (t - 1) * params.hop_size]

\* Samples worth a look: both ends, and both sides of each hop.
Probes(p, len) ==
    {s \in 0 .. len - 1 : s = len - 1 \/ s % p.hop_size \in {0, p.hop_size - 1}}

\* Mutant: the delay of one hop instead of the whole overlap is trimmed.
SynthesiseHop ==
    LET from == IF file.pad THEN params.hop_size ELSE 0
        orig == LoadAudio(file)
        length == frames * params.hop_size
        len == IF file.pad /\ orig < length - from THEN orig ELSE length - from
    IN  /\ pc = "spectrum"
        /\ pc' = "saved"
        /\ saved' = [len |-> Resampled(len, ModelRate, file.sr),
                     shows |-> [s \in Probes(params, len) |-> Shows(s + from)]]
        /\ UNCHANGED <<params, file, frames, enhanced, held, cacheVars>>

\* synthesis, and the trimming that undoes the delay of the overlap
Synthesise ==
    LET delay == params.fft_size - params.hop_size
        length == frames * params.hop_size
        from == IF file.pad THEN delay ELSE 0
        orig == LoadAudio(file)
        len == IF file.pad /\ orig < length - delay THEN orig ELSE length - from
    IN  /\ pc = "spectrum"
        /\ IF file.pad /\ params.fft_size % params.hop_size # 0
           THEN pc' = "failed" /\ UNCHANGED saved
           ELSE /\ pc' = "saved"
                /\ saved' = [len |-> Resampled(len, ModelRate, file.sr),
                             shows |-> [s \in Probes(params, len) |->
                                            Shows(s + from)]]
        /\ held' = IF HiddenState(params) THEN Forms!AfterCall(frames, held) ELSE held
        /\ UNCHANGED <<params, file, frames, enhanced, cacheVars>>

\* The next file, with the same model.
NextFile ==
    /\ pc = "saved"
    /\ pc' = "ready"
    /\ file' = Unknown /\ frames' = 0 /\ enhanced' = NoOutput /\ saved' = Nothing
    /\ UNCHANGED <<params, held, cacheVars>>

Next ==
    \/ MaybeDownloadModel /\ UNCHANGED fileVars
    \/ Interrupt /\ UNCHANGED fileVars
    \/ BuildModel
    \/ \E r \in Recordings : Analyse(r) \/ MissingFile(r)
    \/ RunModel
    \/ Synthesise
    \/ NextFile

Spec == Init /\ [][Next]_vars

-----------------------------------------------------------------------------
(* Properties. *)

\* Where the constructors accept what the forward pass raises on: bins that
\* the spectrum does not have; kernels that do not keep, halve and double the
\* number of bands, or an odd number of bins; blocks built for other sizes than they are given; filters
\* that cannot run on a whole recording.
Uneven(kernel) == kernel[2] % 2 = 0
WrongIdentity(p) == p.run_df /\ p.df_gru_skip = "identity" /\ V3!EmbDim(p) # p.df_hidden_dim
BuiltWrong(p) ==
    \/ p.nb_df > V1!FreqBins(p)
    \/ CASE p.version = "deepfilternet" ->
              \/ p.conv_dec_mode = "normal"
              \/ p.run_df /\ p.dfop_method = "real_one_step"
              \/ p.run_df /\ p.dfop_method = "real_hidden_state_loop" /\ p.df_lookahead >= 2 * p.df_order
         [] p.version = "deepfilternet2" ->
              \/ p.conv_kernel[2] # 3 \/ Uneven(p.conv_kernel_inp)
              \/ p.gru_type = "squeeze" /\ p.nb_df % 2 = 1
              \/ p.df_output_layer = "linear" /\ p.dfop_method = "real_unfold"
              \/ p.gru_type = "grouped" /\ p.emb_hidden_dim < V2!EmbDim(p)
         [] p.version = "deepfilternet3" ->
              \/ Uneven(p.conv_kernel) \/ Uneven(p.conv_kernel_inp) \/ p.nb_df % 2 = 1
              \/ V3!RunErb(p) /\ p.convt_kernel[2] # 3
              \/ WrongIdentity(p)
              \/ p.enc_concat /\ p.emb_gru_skip_enc = "groupedlinear"
         [] p.version = "deepfilternetmf" ->
              \/ p.conv_kernel[2] # 3 \/ Uneven(p.conv_kernel_inp) \/ p.nb_df % 2 = 1
              \/ WrongIdentity(p)

\* How many frames ahead the filter looks, over all its iterations.
FilterAhead(p) ==
    IF ~ p.run_df THEN 0
    ELSE CASE p.version = "deepfilternet" ->
                IF p.dfop_method = "real_hidden_state_loop" THEN 0 ELSE p.df_lookahead
           [] p.version = "deepfilternet2" ->
                IF p.dfop_method # "real_unfold" /\ p.df_order = 1 THEN 0
                ELSE p.df_n_iter * p.df_lookahead
           [] OTHER -> IF p.df_order = 1 THEN 0 ELSE p.df_lookahead

\* A lookahead that cuts frames off in front raises for a recording that has
\* fewer: that of the features, of which the first kernel of the first network
\* makes up for some, and that of the filter, for which its order does.
TooShort(p, n) ==
    LET kernel == IF p.version = "deepfilternet" THEN Ops!Larger(2, p.conv_k_enc) ELSE 1
    IN  \/ n < p.conv_lookahead - (kernel - 1)
        \/ FilterAhead(p) > 0 /\ n < p.df_lookahead - (p.df_order - 1)

\* Where a block built too small leaves features unread and raises nothing.
BuiltSmall(p) ==
    CASE p.version = "deepfilternet" -> p.nb_df % 2 = 1 \/ p.conv_width_f > 1
      [] p.version = "deepfilternet2" ->
            p.gru_type = "grouped" /\ (p.nb_df % 2 = 1 \/ p.emb_hidden_dim > V2!EmbDim(p))
      [] OTHER -> FALSE

(* A pretrained model is found whole, unless an earlier start was          *)
(* interrupted while it unpacked the archive: maybe_download_model takes   *)
(* what that one left for the model, and never completes it.               *)
ModelFound == pc = "no_model" => interrupts > 0

(* A configuration that the constructors accept enhances a recording that  *)
(* is not too short for its lookahead, and uses all the features it        *)
(* computes, except for the combinations above:                            *)
(* the asserts of df/deepfilternet*.py are the only check an option gets   *)
(* before a training run, and these combinations pass them.  What they     *)
(* are built from is found whole.                                          *)
AcceptedRuns ==
    /\ ModelFound
    /\ pc = "failed" =>
          BuiltWrong(params) \/ TooShort(params, frames) \/ params.fft_size % params.hop_size # 0
    /\ pc \in {"spectrum", "saved"} =>
          /\ ~ BuiltWrong(params) /\ ~ TooShort(params, frames)
          /\ enhanced.spec.cut \/ enhanced.mask.cut <=> BuiltSmall(params)

(* An enhanced frame depends on exactly as many later frames as the        *)
(* configuration says: the real-time runtime (libDF/src/tract.rs:313)      *)
(* delays its output by the larger lookahead of the two, which is right    *)
(* for the networks that filter the noisy spectrum; the first two filter   *)
(* the masked one, whose lookahead adds up.  The mask looks conv_lookahead *)
(* ahead, unless the third network has no band left to mask and returns a  *)
(* number for it.  Spectrum and mask keep their sizes.                     *)
LookaheadDeclared ==
    pc \in {"spectrum", "saved"} =>
        LET p == params
            masks == p.version = "deepfilternet3" => V3!RunErb(p)
            conv == IF masks \/ p.run_df THEN p.conv_lookahead ELSE 0
        IN  /\ enhanced.mask.ahead = IF masks THEN conv ELSE 0
            /\ enhanced.spec.ahead =
                 IF p.version \in {"deepfilternet", "deepfilternet2"} THEN conv + FilterAhead(p)
                 ELSE Ops!Larger(conv, FilterAhead(p))
            /\ enhanced.spec.c = 1 /\ enhanced.spec.f = V1!FreqBins(p)
            /\ enhanced.mask.c = 1 /\ enhanced.mask.f = IF masks THEN p.nb_erb ELSE 0

(* All forms of the filter compute the same: modules.py:329, "All forward  *)
(* methods should be mathematically similar".  The window of the           *)
(* multi-frame form stays on its frame for order 1; the forms with a       *)
(* buffer keep the last frame's bins, not lookahead frames before it, when *)
(* the window does not reach back that far, and the one that keeps its     *)
(* buffer agrees on a fresh buffer only as it delays its output.           *)
FormsAgree ==
    pc = "ready" =>
        LET n == 4
            order == params.df_order
            ahead == params.df_lookahead
            promised == Forms!DeepFilter(n, order, ahead)
            looped == Forms!RealHiddenStateLoop(n, order, ahead, Forms!Fresh(order))
        IN  /\ promised = Forms!RealLoop(n, order, ahead)
            /\ promised = Forms!RealStrided(n, order, ahead)
            /\ promised = Forms!RealUnfold(n, order, ahead)
            /\ promised = Forms!ComplexStrided(n, order, ahead)
            /\ ahead < order => promised = Forms!RealOneStep(n, order, ahead)
            /\ promised = Forms!MultiFrameDF(n, order, ahead) <=> order > 1 \/ ahead = 0
            /\ order > 1 => promised = Forms!MultiFrameDFreal(n, order, ahead)
            /\ ahead < order => \A t \in 1 .. n - ahead : looped[t + ahead] = promised[t]

(* The saved recording is as long as the input, and each of its samples    *)
(* overlap-adds n_fft / hop frames that all show the same moment of the    *)
(* input: that sample itself with the padding, one n_fft - hop samples     *)
(* earlier without (enhance.py:242-249), where the samples of the last hop *)
(* are lost if they do not fill it.  Resampling back and forth rounds up   *)
(* twice and adds less than one more sample of the model's rate.  The      *)
(* filter with a buffer of its own shifts the recording by its lookahead   *)
(* behind the end of the one before; its index of the frame wraps around   *)
(* for a lookahead of order or more, which shifts by the rest only.        *)
HiddenShift(p) ==
    IF ~HiddenState(p) THEN 0
    ELSE IF p.df_lookahead < p.df_order THEN p.df_lookahead ELSE p.df_lookahead - p.df_order

Added(sr) == IF sr = ModelRate THEN 0 ELSE (sr - 1 + ModelRate - 1) \div ModelRate
Lost(r, hop) == IF r.pad THEN 0 ELSE ((hop - 1) * r.sr) \div ModelRate

Aligned ==
    pc = "saved" =>
        LET delay == IF file.pad THEN 0 ELSE params.fft_size - params.hop_size
            shift == HiddenShift(params) * params.hop_size
        IN  /\ saved.len - file.len \in -Lost(file, params.hop_size) .. Added(file.sr)
            /\ \A s \in DOMAIN saved.shows :
                  LET frame == saved.shows[s] IN
                  /\ \A t \in DOMAIN frame :
                        \/ frame[t] = s - delay - shift
                        \/ frame[t] = Stale /\ t <= HiddenShift(params)
                  /\ file.pad /\ shift = 0 => Cardinality(DOMAIN frame) = params.fft_size \div params.hop_size

=============================================================================

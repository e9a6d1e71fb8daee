-------------------------- MODULE DeepFilterNet3 --------------------------
(***************************************************************************)
(* df/deepfilternet3.py: the filter runs once, on the noisy spectrum, and  *)
(* replaces the first nb_df bins of the masked one.  lsnr_dropout, off by  *)
(* default, is left out.                                                   *)
(***************************************************************************)
EXTENDS ErbUNet

\* The defaults of the options (and of DfParams) that shape the network.
ModelParams ==
    [version |-> "deepfilternet3",
     fft_size |-> 960, hop_size |-> 480, nb_erb |-> 32, nb_df |-> 96,
     df_order |-> 5, df_lookahead |-> 0,
     conv_lookahead |-> 0, conv_ch |-> 16,
     conv_kernel |-> <<1, 3>>, convt_kernel |-> <<1, 3>>, conv_kernel_inp |-> <<3, 3>>,
     emb_hidden_dim |-> 256, emb_num_layers |-> 2,
     emb_gru_skip_enc |-> "none", emb_gru_skip |-> "none",
     df_hidden_dim |-> 256, df_gru_skip |-> "none",
     df_pathway_kernel_size_t |-> 1, enc_concat |-> FALSE, df_num_layers |-> 3,
     df_n_iter |-> 1, lin_groups |-> 1, enc_lin_groups |-> 16, run_df |-> TRUE]

-----------------------------------------------------------------------------
EncSkip(p) == SkipOf(p.emb_gru_skip_enc, EmbDim(p), EmbDim(p))

\* Mutant: the identity is not compared with what it is added to.
EncoderUnchecked(p) ==
    /\ Divides(4, p.nb_erb)
    /\ GroupedLinearEinsumOk(DfEmbDim(p), EmbDim(p), p.enc_lin_groups)
    /\ SkipOk(EncSkip(p), p.lin_groups)
    /\ SqueezedGRUOk(EmbInDim(p), p.emb_hidden_dim, EmbDim(p), 1, p.lin_groups)

EncoderOk(p) ==
    /\ Divides(4, p.nb_erb)
    /\ GroupedLinearEinsumOk(DfEmbDim(p), EmbDim(p), p.enc_lin_groups)
    /\ p.emb_gru_skip_enc \in SkipKinds
    /\ p.emb_gru_skip_enc = "identity" => EmbInDim(p) = EmbDim(p)
    /\ SkipOk(EncSkip(p), p.lin_groups)
    /\ SqueezedGRUOk(EmbInDim(p), p.emb_hidden_dim, EmbDim(p), 1, p.lin_groups)

Encoder(p, erb, feat) ==
    LET e == ConvEncoder(p, erb, feat)
        cemb == GroupedLinearEinsum(Flatten(e.c1), DfEmbDim(p), EmbDim(p))
        x == Combine(p, Flatten(e.e3), cemb)
    IN  [e EXCEPT !.emb =
            SqueezedGRU_S(x, EmbInDim(p), p.emb_hidden_dim, EmbDim(p), EncSkip(p))]

-----------------------------------------------------------------------------
ErbSkip(p) == SkipOf(p.emb_gru_skip, EmbDim(p), EmbDim(p))

ErbDecoderOk(p) ==
    /\ Divides(8, p.nb_erb)
    /\ p.emb_gru_skip \in SkipKinds
    /\ SkipOk(ErbSkip(p), p.lin_groups)
    /\ SqueezedGRUOk(EmbDim(p), p.emb_hidden_dim, EmbDim(p), p.emb_num_layers - 1, p.lin_groups)

ErbDecoder(p, e) ==
    LET emb == SqueezedGRU_S(e.emb, EmbDim(p), p.emb_hidden_dim, EmbDim(p), ErbSkip(p))
    IN  ConvDecoder(p, p.convt_kernel, emb, e)

-----------------------------------------------------------------------------
DfSkip(p) == SkipOf(p.df_gru_skip, EmbDim(p), p.df_hidden_dim)

\* The identity is accepted for equal hidden sizes, although it carries the
\* embedding, of EmbDim features.
DfDecoderOk(p) ==
    /\ SqueezedGRUOk(EmbDim(p), p.df_hidden_dim, 0, p.df_num_layers, 8)
    /\ p.df_gru_skip \in SkipKinds
    /\ p.df_gru_skip = "identity" => p.emb_hidden_dim = p.df_hidden_dim
    /\ SkipOk(DfSkip(p), p.lin_groups)
    /\ GroupedLinearEinsumOk(p.df_hidden_dim, p.nb_df * p.df_order * 2, p.lin_groups)

DfDecoder(p, e) ==
    LET hidden == p.df_hidden_dim
        channels == p.df_order * 2
        g == SqueezedGRU_S(e.emb, EmbDim(p), hidden, 0, NoSkip)
        c == IF DfSkip(p).kind = "none" THEN g ELSE Add(g, Skip(DfSkip(p), e.emb))
    IN  PathwaySum(p, GroupedLinearEinsum(c, hidden, p.nb_df * channels), channels, e.c0)

\* view(b, t, f, -1, 2) of the channels
DfOutputReshapeMF(coefs) == IF coefs.c % 2 = 0 THEN coefs ELSE Err

-----------------------------------------------------------------------------
RunErb(p) == p.nb_df + 1 < FreqBins(p)

DfNetOk(p) ==
    /\ Divides(8, p.nb_erb)
    /\ p.conv_lookahead > 0 => p.conv_lookahead >= p.df_lookahead
    /\ EncoderOk(p) /\ ErbDecoderOk(p) /\ DfDecoderOk(p)
    /\ p.df_n_iter = 1

\* Without unfolding, order 1, the filter looks at its own frame only.
Filter(p, spec, coefs) ==
    LET window == IF p.df_order = 1 THEN spec ELSE TimeKernel(spec, p.df_order, p.df_lookahead)
    IN  IF spec.f >= p.nb_df THEN DependsOn(window, coefs) ELSE Err

\* torch.zeros(()): a number, without axes
Scalar == Map(1, 0, 0)

\* The filtered bins below nb_df, the masked ones above it; zeros, and no mask,
\* where no band is left to mask.
DfNet(p, in) ==
    LET e == Encoder(p, PadFeat(in.erb, p.conv_lookahead), PadFeat(in.feat, p.conv_lookahead))
        m == IF RunErb(p) THEN ErbDecoder(p, e) ELSE Scalar
        masked == IF RunErb(p) THEN Mask(in.spec, m, ErbFb(p.nb_erb, FreqBins(p))) ELSE in.spec
        filtered == Filter(p, in.spec, DfOutputReshapeMF(DfDecoder(p, e)))
    IN  [spec |-> IF ~Runs(e.emb) THEN Err
                  ELSE IF p.run_df THEN DependsOn(filtered, masked) ELSE masked,
         mask |-> m]
=============================================================================

-------------------------- MODULE DeepFilterNetMF --------------------------
(***************************************************************************)
(* df/deepfilternetmf.py with the filters of df/multiframe.py: the network *)
(* estimates a correlation vector and a covariance matrix, from which a    *)
(* Wiener filter or an MVDR beamformer computes the coefficients.          *)
(***************************************************************************)
EXTENDS ErbUNet

\* The defaults of the options (and of DfParams) that shape the network.
ModelParams ==
    [version |-> "deepfilternetmf",
     fft_size |-> 960, hop_size |-> 480, nb_erb |-> 32, nb_df |-> 96,
     df_order |-> 5, df_lookahead |-> 0,
     conv_lookahead |-> 0, conv_ch |-> 16,
     conv_kernel |-> <<1, 3>>, conv_kernel_inp |-> <<3, 3>>,
     emb_hidden_dim |-> 256, emb_num_layers |-> 2, emb_gru_skip |-> "none",
     df_hidden_dim |-> 256, df_gru_skip |-> "none",
     df_pathway_kernel_size_t |-> 1, enc_concat |-> FALSE, df_num_layers |-> 3,
     df_n_iter |-> 1, lin_groups |-> 1, enc_lin_groups |-> 16, mfop_method |-> "WF",
     mf_est_inverse |-> TRUE, mf_use_cholesky_decomp |-> FALSE, run_df |-> TRUE]

-----------------------------------------------------------------------------
EncoderOk(p) ==
    /\ Divides(4, p.nb_erb)
    /\ GroupedLinearEinsumOk(DfEmbDim(p), EmbDim(p), p.enc_lin_groups)
    /\ SqueezedGRUOk(EmbInDim(p), p.emb_hidden_dim, EmbDim(p), 1, p.lin_groups)

Encoder(p, erb, feat) ==
    LET e == ConvEncoder(p, erb, feat)
        cemb == GroupedLinearEinsum(Flatten(e.c1), DfEmbDim(p), EmbDim(p))
        x == Combine(p, Flatten(e.e3), cemb)
    IN  [e EXCEPT !.emb = SqueezedGRU_S(x, EmbInDim(p), p.emb_hidden_dim, EmbDim(p), NoSkip)]

-----------------------------------------------------------------------------
ErbSkip(p) == SkipOf(p.emb_gru_skip, EmbDim(p), EmbDim(p))

ErbDecoderOk(p) ==
    /\ Divides(8, p.nb_erb)
    /\ p.emb_gru_skip \in SkipKinds
    /\ SkipOk(ErbSkip(p), p.lin_groups)
    /\ SqueezedGRUOk(EmbDim(p), p.emb_hidden_dim, EmbDim(p), p.emb_num_layers - 1, p.lin_groups)

ErbDecoder(p, e) ==
    LET emb == SqueezedGRU_S(e.emb, EmbDim(p), p.emb_hidden_dim, EmbDim(p), ErbSkip(p))
    IN  ConvDecoder(p, p.conv_kernel, emb, e)

-----------------------------------------------------------------------------
DfSkip(p) == SkipOf(p.df_gru_skip, EmbDim(p), p.df_hidden_dim)
CovChannels(p) == p.df_order * p.df_order * 2
IfcChannels(p) == p.df_order * 2

DfDecoderOk(p) ==
    /\ SqueezedGRUOk(EmbDim(p), p.df_hidden_dim, 0, p.df_num_layers, 8)
    /\ p.df_gru_skip \in SkipKinds
    /\ p.df_gru_skip = "identity" => p.emb_hidden_dim = p.df_hidden_dim
    /\ SkipOk(DfSkip(p), p.lin_groups)
    /\ GroupedLinearEinsumOk(p.df_hidden_dim, p.nb_df * CovChannels(p), p.lin_groups)
    /\ GroupedLinearEinsumOk(p.df_hidden_dim, p.nb_df * IfcChannels(p), p.lin_groups)

\* The correlation vector and the covariance matrix of each bin.
DfDecoder(p, e) ==
    LET g == SqueezedGRU_S(e.emb, EmbDim(p), p.df_hidden_dim, 0, NoSkip)
        c == IF DfSkip(p).kind = "none" THEN g ELSE Add(g, Skip(DfSkip(p), e.emb))
        out(ch) == PathwaySum(p, GroupedLinearEinsum(c, p.df_hidden_dim, p.nb_df * ch), ch, e.c0)
    IN  [ifc |-> out(IfcChannels(p)), cov |-> out(CovChannels(p))]

-----------------------------------------------------------------------------
DfNetOk(p) ==
    /\ Divides(8, p.nb_erb)
    /\ p.conv_lookahead > 0 => p.conv_lookahead >= p.df_lookahead
    /\ EncoderOk(p) /\ ErbDecoderOk(p)
    /\ p.mfop_method \in {"WF", "MVDR"}
    /\ DfDecoderOk(p)
    /\ p.df_n_iter = 1

\* The unfolded spectrum, frame_size frames up to df_lookahead ahead; order
\* 1 is not unfolded.  n features unflatten into a vector or a matrix.
SpecUnfold(p, spec) == IF p.df_order > 1 THEN TimeKernel(spec, p.df_order, p.df_lookahead) ELSE spec
Vector(p, x) == IF x.c = p.df_order * 2 THEN x ELSE Err
Matrix(p, x) == IF x.c = p.df_order * p.df_order * 2 THEN x ELSE Err

\* An estimated inverse is multiplied with the vector, an estimated matrix,
\* or the product of its Cholesky factors, is solved for it; the weights
\* depend on both either way.
Weights(p, ifc, cov) == DependsOn(Vector(p, ifc), Matrix(p, cov))

MfWf(p, spec, ifc, cov) ==
    IF spec.f >= p.nb_df THEN DependsOn(SpecUnfold(p, spec), Weights(p, ifc, cov)) ELSE Err

\* the weights are normalised by the vector once more
MfMvdr(p, spec, ifc, cov) ==
    IF spec.f >= p.nb_df
    THEN DependsOn(SpecUnfold(p, spec), DependsOn(Weights(p, ifc, cov), Vector(p, ifc)))
    ELSE Err

DfNet(p, in) ==
    LET e == Encoder(p, PadFeat(in.erb, p.conv_lookahead), PadFeat(in.feat, p.conv_lookahead))
        m == ErbDecoder(p, e)
        masked == Mask(in.spec, m, ErbFb(p.nb_erb, FreqBins(p)))
        dec == DfDecoder(p, e)
        filtered == IF p.mfop_method = "WF" THEN MfWf(p, in.spec, dec.ifc, dec.cov)
                    ELSE MfMvdr(p, in.spec, dec.ifc, dec.cov)
    IN  [spec |-> IF p.run_df THEN DependsOn(filtered, masked) ELSE masked, mask |-> m]
=============================================================================

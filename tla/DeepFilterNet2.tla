-------------------------- MODULE DeepFilterNet2 --------------------------
(***************************************************************************)
(* df/deepfilternet2.py: the lookahead moves to the input features, the    *)
(* filter runs df_n_iter times on the masked spectrum, and the recurrent   *)
(* blocks come in two kinds (gru_type).                                    *)
(***************************************************************************)
EXTENDS ErbUNet

\* The defaults of the options (and of DfParams) that shape the network.
ModelParams ==
    [version |-> "deepfilternet2",
     fft_size |-> 960, hop_size |-> 480, nb_erb |-> 32, nb_df |-> 96,
     df_order |-> 5, df_lookahead |-> 0,
     conv_lookahead |-> 0, conv_ch |-> 16,
     conv_kernel |-> <<1, 3>>, conv_kernel_inp |-> <<3, 3>>,
     emb_hidden_dim |-> 256, emb_num_layers |-> 2,
     df_hidden_dim |-> 256, df_gru_skip |-> "none", df_output_layer |-> "linear",
     df_pathway_kernel_size_t |-> 1, enc_concat |-> FALSE, df_num_layers |-> 3,
     df_n_iter |-> 2, gru_type |-> "grouped", gru_groups |-> 1, lin_groups |-> 1,
     dfop_method |-> "real_unfold", run_df |-> TRUE]

Grouped(p) == p.gru_type = "grouped"

-----------------------------------------------------------------------------
EncoderOk(p) ==
    /\ Divides(4, p.nb_erb)
    /\ GroupedLinearOk(DfEmbDim(p), EmbDim(p), p.lin_groups)
    /\ p.gru_type \in {"grouped", "squeeze"}
    /\ IF Grouped(p) THEN GroupedGRUOk(EmbInDim(p), p.emb_hidden_dim, 1, p.gru_groups)
       ELSE SqueezedGRUOk(EmbInDim(p), p.emb_hidden_dim, 0, 1, p.lin_groups)

Encoder(p, erb, feat) ==
    LET e == ConvEncoder(p, erb, feat)
        cemb == IF Grouped(p) THEN GroupedLinear(Flatten(e.c1), DfEmbDim(p), EmbDim(p))
                ELSE GroupedLinearEinsum(Flatten(e.c1), DfEmbDim(p), EmbDim(p))
        x == Combine(p, Flatten(e.e3), cemb)
        emb == IF Grouped(p) THEN GroupedGRU(x, EmbInDim(p), p.emb_hidden_dim)
               ELSE SqueezedGRU(x, EmbInDim(p), p.emb_hidden_dim, 0, NoSkip)
    IN  [e EXCEPT !.emb = emb]

-----------------------------------------------------------------------------
ErbDecoderOk(p) ==
    /\ Divides(8, p.nb_erb)
    /\ IF Grouped(p)
       THEN /\ GroupedGRUOk(EmbDim(p), p.emb_hidden_dim, p.emb_num_layers - 1, p.gru_groups)
            /\ GroupedLinearOk(p.emb_hidden_dim, EmbDim(p), p.lin_groups)
       ELSE SqueezedGRUOk(p.emb_hidden_dim, p.emb_hidden_dim, EmbDim(p),
                          p.emb_num_layers - 1, p.lin_groups)

\* The grouped GRU is built for inputs of EmbDim, and gets the embedding.
ErbDecoder(p, e) ==
    LET hidden == p.emb_hidden_dim
        emb == IF Grouped(p)
               THEN GroupedLinear(GroupedGRU(e.emb, EmbDim(p), hidden), hidden, EmbDim(p))
               ELSE SqueezedGRU(e.emb, hidden, hidden, EmbDim(p), Identity)
    IN  ConvDecoder(p, p.conv_kernel, emb, e)

-----------------------------------------------------------------------------
DfDecoderOk(p) ==
    /\ IF Grouped(p)
       THEN GroupedGRUOk(p.emb_hidden_dim, p.df_hidden_dim, p.df_num_layers, p.gru_groups)
       ELSE SqueezedGRUOk(p.emb_hidden_dim, p.df_hidden_dim, 0, p.df_num_layers, 8)
    /\ p.df_gru_skip \in SkipKinds
    /\ p.df_gru_skip = "identity" => p.emb_hidden_dim = p.df_hidden_dim
    /\ SkipOk(SkipOf(p.df_gru_skip, p.emb_hidden_dim, p.df_hidden_dim), p.lin_groups)
    /\ p.df_output_layer \in {"linear", "groupedlinear"}
    /\ p.df_output_layer = "groupedlinear" =>
          GroupedLinearEinsumOk(p.df_hidden_dim, p.nb_df * p.df_order * 2, p.lin_groups)

\* df_out and df_fc_a end in layers of one size only
Coefs(p, c, c0) ==
    PathwaySum(p, Linear(c, p.df_hidden_dim, p.nb_df * p.df_order * 2), p.df_order * 2, c0)
Alpha(p, c) == Linear(c, p.df_hidden_dim, 1)

\* Coefficients in the layout [B, T, F, 2 O].
DfDecoder(p, e) ==
    LET hidden == p.df_hidden_dim
        skip == SkipOf(p.df_gru_skip, p.emb_hidden_dim, hidden)
        g == IF Grouped(p) THEN GroupedGRU(e.emb, p.emb_hidden_dim, hidden)
             ELSE SqueezedGRU(e.emb, p.emb_hidden_dim, hidden, 0, Identity)
        c == IF skip.kind = "none" THEN g ELSE AddInPlace(g, Skip(skip, e.emb))
    IN  [coefs |-> Coefs(p, c, e.c0), alpha |-> Alpha(p, c), swapped |-> FALSE]

\* The old decoder hands out [B, T, O, F, 2], a transposed view.
DfDecoderLinearOk(p) ==
    /\ GroupedGRUOk(p.emb_hidden_dim, p.df_hidden_dim, p.df_num_layers, p.gru_groups)
    /\ p.df_output_layer = "linear"
DfDecoderLinear(p, e) ==
    LET c == GroupedGRU(e.emb, p.emb_hidden_dim, p.df_hidden_dim)
    IN  [coefs |-> Coefs(p, c, e.c0), alpha |-> Alpha(p, c), swapped |-> TRUE]

\* view(b, t, O, 2, F) needs the two last axes in the order they were
\* computed in; a transposed view of three or more bins is refused.
DfOutputReshapeOld(p, dec) == IF dec.swapped /\ p.nb_df > 2 THEN Err ELSE dec.coefs

\* unflatten(-1, (-1, 2)).permute(0, 3, 1, 2, 4)
DfOutputReshapeMF(p, dec) == IF dec.coefs.c % 2 = 0 THEN dec.coefs ELSE Err

-----------------------------------------------------------------------------
UsesAlpha(p) == p.dfop_method = "real_unfold"

DfNetOk(p) ==
    /\ Divides(8, p.nb_erb)
    /\ EncoderOk(p) /\ ErbDecoderOk(p)
    /\ UsesAlpha(p) \/ p.df_output_layer # "linear"
    /\ IF p.df_output_layer = "linear" THEN DfDecoderLinearOk(p) ELSE DfDecoderOk(p)

\* One iteration of the filter looks df_lookahead frames ahead; the
\* multi-frame form of order 1 does not unfold and looks nowhere.
Filter(p, spec, coefs, alpha) ==
    LET window == IF ~UsesAlpha(p) /\ p.df_order = 1 THEN spec
                  ELSE TimeKernel(spec, p.df_order, p.df_lookahead)
        y == DependsOn(window, coefs)
    IN  IF spec.f >= p.nb_df THEN IF UsesAlpha(p) THEN DependsOn(y, alpha) ELSE y ELSE Err

DfNet(p, in) ==
    LET e == Encoder(p, PadFeat(in.erb, p.conv_lookahead), PadFeat(in.feat, p.conv_lookahead))
        m == ErbDecoder(p, e)
        masked == Mask(in.spec, m, ErbFb(p.nb_erb, FreqBins(p)))
        dec == IF p.df_output_layer = "linear" THEN DfDecoderLinear(p, e) ELSE DfDecoder(p, e)
        coefs == IF UsesAlpha(p) THEN DfOutputReshapeOld(p, dec) ELSE DfOutputReshapeMF(p, dec)
        spec[n \in 0 .. p.df_n_iter] ==
            IF n = 0 THEN masked ELSE Filter(p, spec[n - 1], coefs, dec.alpha)
    IN  [spec |-> IF ~Runs(coefs) THEN Err ELSE IF p.run_df THEN spec[p.df_n_iter] ELSE masked,
         mask |-> m]
=============================================================================

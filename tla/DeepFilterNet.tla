--------------------------- MODULE DeepFilterNet ---------------------------
(***************************************************************************)
(* df/deepfilternet.py: the first network.  Its lookahead is spread over   *)
(* the input convolutions.  `in` is the input [spec, erb, feat]; a forward *)
(* pass returns the enhanced spectrum and the mask.                        *)
(***************************************************************************)
EXTENDS TensorOps

\* The defaults of the options (and of DfParams) that shape the network.
ModelParams ==
    [version |-> "deepfilternet",
     fft_size |-> 960, hop_size |-> 480, nb_erb |-> 32, nb_df |-> 96,
     df_order |-> 5, df_lookahead |-> 0,
     conv_lookahead |-> 0, conv_k_enc |-> 2, conv_k_dec |-> 1, conv_ch |-> 16,
     conv_width_f |-> 1, conv_dec_mode |-> "transposed",
     emb_hidden_dim |-> 256, emb_num_layers |-> 1,
     df_hidden_dim |-> 256, df_num_layers |-> 3,
     gru_groups |-> 1, lin_groups |-> 1, dfop_method |-> "real_unfold",
     run_df |-> TRUE]

FreqBins(p) == p.fft_size \div 2 + 1
Width(p, i) == p.conv_ch * p.conv_width_f ^ i

Conv(k, f, fstride, lookahead) ==
    [k |-> k, f |-> f, fstride |-> fstride, lookahead |-> lookahead, mode |-> "normal"]

-----------------------------------------------------------------------------
EmbDim(p) == ((p.conv_ch * p.nb_erb) \div 4) * p.conv_width_f ^ 2
DfEmbDim(p) == (p.conv_ch * p.nb_df) \div 2

EncoderOk(p) ==
    /\ Divides(4, p.nb_erb)
    /\ GroupedLinearOk(DfEmbDim(p), EmbDim(p), p.lin_groups)
    /\ GroupedGRUOk(EmbDim(p), p.emb_hidden_dim, p.emb_num_layers, p.gru_groups)

\* The first ERB convolutions take one frame of the lookahead each, as long
\* as there is one left; the DF convolution takes all of it.
Encoder(p, erb, feat) ==
    LET k == p.conv_k_enc
        k0 == IF k = 1 /\ p.conv_lookahead = 0 THEN 1 ELSE Larger(2, k)
        cl(n) == IF p.conv_lookahead > n THEN 1 ELSE 0
        e0 == Convkxf(erb, 1, p.conv_ch, Conv(k0, 3, 1, cl(0)))
        e1 == Convkxf(e0, Width(p, 0), Width(p, 1), Conv(k, 3, 2, cl(1)))
        e2 == Convkxf(e1, Width(p, 1), Width(p, 2), Conv(k, 3, 2, cl(2)))
        e3 == Convkxf(e2, Width(p, 2), Width(p, 2), Conv(k, 3, 1, 0))
        c0 == Convkxf(feat, 2, p.conv_ch, Conv(k0, 3, 1, p.conv_lookahead))
        c1 == Convkxf(c0, p.conv_ch, Width(p, 1), Conv(k, 3, 2, 0))
        cemb == GroupedLinear(Flatten(c1), DfEmbDim(p), EmbDim(p))
        emb == GroupedGRU(Add(Flatten(e3), cemb), EmbDim(p), p.emb_hidden_dim)
    IN  [e0 |-> e0, e1 |-> e1, e2 |-> e2, e3 |-> e3, c0 |-> c0, emb |-> emb]

-----------------------------------------------------------------------------
ErbDecoderOk(p) ==
    /\ Divides(8, p.nb_erb)
    /\ GroupedLinearOk(p.emb_hidden_dim, Width(p, 2) * (p.nb_erb \div 4), p.lin_groups)
    /\ ConvkxfOk([f |-> 3, mode |-> p.conv_dec_mode])

ErbDecoder(p, e) ==
    LET k == p.conv_k_dec
        up == [Conv(k, 3, 2, 0) EXCEPT !.mode = p.conv_dec_mode]
        convp(x, ch) == Convkxf(x, ch, ch, Conv(1, 1, 2, 0))
        fc == GroupedLinear(e.emb, p.emb_hidden_dim, Width(p, 2) * (p.nb_erb \div 4))
        emb == Unflatten(fc, e.e3.f)
        d3 == Convkxf(Add(convp(e.e3, Width(p, 2)), emb), Width(p, 2), Width(p, 2), Conv(k, 3, 1, 0))
        d2 == Convkxf(Add(convp(e.e2, Width(p, 2)), d3), Width(p, 2), Width(p, 1), up)
        d1 == Convkxf(Add(convp(e.e1, Width(p, 1)), d2), Width(p, 1), Width(p, 0), up)
    IN  Convkxf(Add(convp(e.e0, p.conv_ch), d1), p.conv_ch, 1, Conv(k, 3, 1, 0))

-----------------------------------------------------------------------------
DfDecoderOk(p) == GroupedGRUOk(p.emb_hidden_dim, p.df_hidden_dim, p.df_num_layers, p.gru_groups)

\* The coefficients [B, T, 2 O, F] and the weight alpha [B, T, 1].
DfDecoder(p, e) ==
    LET c == GroupedGRU(e.emb, p.emb_hidden_dim, p.df_hidden_dim)
        c0 == Convkxf(e.c0, p.conv_ch, p.df_order * 2, Conv(1, 1, 2, 0))
        out == Linear(c, p.df_hidden_dim, p.nb_df * p.df_order * 2)
    IN  [coefs |-> AddInPlace(ViewAs(out, p.df_order * 2, p.nb_df), c0),
         alpha |-> Linear(c, p.df_hidden_dim, 1)]

-----------------------------------------------------------------------------
DfOpMethods == {"real_loop", "real_strided", "real_unfold", "complex_strided", "real_one_step",
                "real_hidden_state_loop"}

DfNetOk(p) ==
    /\ Divides(8, p.nb_erb)
    /\ EncoderOk(p) /\ ErbDecoderOk(p) /\ DfDecoderOk(p)
    /\ p.dfop_method \in DfOpMethods
    /\ p.dfop_method = "real_hidden_state_loop" => FreqBins(p) >= p.nb_df

\* The filter needs the masked spectrum df_lookahead frames ahead (spec_pad);
\* the form with a buffer of its own looks at past frames only, as far as the
\* buffer has them; the form for a single step refuses a sequence.
Filter(p, spec, dec) ==
    LET buffered == p.dfop_method = "real_hidden_state_loop"
        window == IF buffered THEN spec ELSE TimeKernel(spec, p.df_order, p.df_lookahead)
    IN  IF /\ spec.f >= p.nb_df /\ p.dfop_method # "real_one_step"
           /\ buffered => p.df_lookahead < 2 * p.df_order
        THEN DependsOn(DependsOn(window, dec.coefs), dec.alpha)
        ELSE Err

DfNet(p, in) ==
    LET e == Encoder(p, in.erb, in.feat)
        m == ErbDecoder(p, e)
        spec == Mask(in.spec, m, ErbFb(p.nb_erb, FreqBins(p)))
    IN  [spec |-> IF p.run_df THEN Filter(p, spec, DfDecoder(p, e)) ELSE spec,
         mask |-> m]
=============================================================================

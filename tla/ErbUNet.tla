------------------------------ MODULE ErbUNet ------------------------------
(***************************************************************************)
(* What the networks of df/deepfilternet2.py, deepfilternet3.py and        *)
(* deepfilternetmf.py have in common: the convolutions of the encoder and  *)
(* of the ERB decoder, and the sizes around them.  Each file spells them   *)
(* out for itself; the modules of the three networks point at its lines.   *)
(***************************************************************************)
EXTENDS TensorOps

FreqBins(p) == p.fft_size \div 2 + 1
EmbDim(p) == (p.conv_ch * p.nb_erb) \div 4
DfEmbDim(p) == (p.conv_ch * p.nb_df) \div 2
EmbInDim(p) == IF p.enc_concat THEN 2 * EmbDim(p) ELSE EmbDim(p)

\* erb_conv0 .. 3 and df_conv0, 1; the embedding follows
ConvEncoder(p, erb, feat) ==
    LET conv(x, fstride) == Conv2dNormAct(x, p.conv_ch, p.conv_ch, p.conv_kernel, fstride)
        e0 == Conv2dNormAct(erb, 1, p.conv_ch, p.conv_kernel_inp, 1)
        e1 == conv(e0, 2)
        e2 == conv(e1, 2)
        e3 == conv(e2, 1)
        c0 == Conv2dNormAct(feat, 2, p.conv_ch, p.conv_kernel_inp, 1)
        c1 == conv(c0, 2)
    IN  [e0 |-> e0, e1 |-> e1, e2 |-> e2, e3 |-> e3, c0 |-> c0, c1 |-> c1,
         emb |-> Err]

\* combine: the embeddings of both inputs, side by side or summed up
Combine(p, x, y) == IF p.enc_concat THEN Concat(x, y) ELSE Add(x, y)

\* conv3p .. conv0p, convt3 .. convt1 and conv0_out
ConvDecoder(p, kernelT, emb, e) ==
    LET ch == p.conv_ch
        convp(x) == Conv2dNormAct(x, ch, ch, <<1, 1>>, 1)
        convt(x) == ConvTranspose2dNormAct(x, ch, ch, kernelT, 2)
        d3 == Conv2dNormAct(Add(convp(e.e3), Unflatten(emb, e.e3.f)), ch, ch, p.conv_kernel, 1)
        d2 == convt(Add(convp(e.e2), d3))
        d1 == convt(Add(convp(e.e1), d2))
    IN  Conv2dNormAct(Add(convp(e.e0), d1), ch, 1, p.conv_kernel, 1)

\* c.view(b, t, bins, ch) + c0, for c0 from a pathway convolution of one bin
PathwaySum(p, c, ch, c0) ==
    Add(ViewAs(c, ch, p.nb_df),
        Conv2dNormAct(c0, p.conv_ch, ch, <<p.df_pathway_kernel_size_t, 1>>, 1))

\* The skip connection around the GRU of the DF decoder.
SkipKinds == {"none", "identity", "groupedlinear"}
SkipOf(kind, in, out) ==
    CASE kind = "none" -> NoSkip
      [] kind = "identity" -> Identity
      [] kind = "groupedlinear" -> LinearSkip(in, out)
=============================================================================

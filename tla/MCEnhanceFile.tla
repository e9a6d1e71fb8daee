--------------------------- MODULE MCEnhanceFile ---------------------------
(* Configurations: some of each network with at most two options changed.  *)
(* Recordings: two lengths at the rate of the model, three at other rates, *)
(* with and without the compensation of the delay, and a missing file.     *)
EXTENDS EnhanceFile

\* For each option the values tried besides the default.
Values ==
    [nb_erb |-> {16, 36}, nb_df |-> {95, 480, 512}, fft_size |-> {1920}, hop_size |-> {240, 400, 600},
     df_order |-> {1, 3}, df_lookahead |-> {1, 2}, conv_lookahead |-> {1, 2, 4},
     conv_k_enc |-> {1, 3}, conv_k_dec |-> {2}, conv_ch |-> {8, 6}, conv_width_f |-> {2},
     conv_dec_mode |-> {"normal", "upsample"},
     conv_kernel |-> {<<2, 3>>, <<1, 5>>, <<1, 1>>, <<1, 2>>}, conv_kernel_inp |-> {<<1, 5>>, <<3, 2>>},
     convt_kernel |-> {<<2, 3>>, <<1, 5>>, <<1, 1>>},
     emb_hidden_dim |-> {64, 128, 100}, emb_num_layers |-> {1, 3},
     emb_gru_skip_enc |-> {"identity", "groupedlinear"},
     emb_gru_skip |-> {"identity", "groupedlinear"},
     df_hidden_dim |-> {64, 128}, df_gru_skip |-> {"identity", "groupedlinear"},
     df_output_layer |-> {"groupedlinear"}, df_pathway_kernel_size_t |-> {5},
     enc_concat |-> {TRUE}, df_num_layers |-> {1, 0}, df_n_iter |-> {1, 2, 0},
     gru_type |-> {"squeeze"}, gru_groups |-> {8}, lin_groups |-> {8, 16}, enc_lin_groups |-> {8, 32},
     dfop_method |-> {"real_one_step", "real_hidden_state_loop"},
     mfop_method |-> {"MVDR"}, mf_est_inverse |-> {FALSE}, mf_use_cholesky_decomp |-> {TRUE},
     run_df |-> {FALSE}]

Changed(p) == {[p EXCEPT ![o] = v] : <<o, v>> \in
                 UNION {{o} \X Values[o] : o \in DOMAIN p \cap DOMAIN Values}}

\* The defaults, and what the defaults do not reach: the layers of the second
\* network that run, lookahead in the convolutions and in the filter, the
\* filter with a buffer of its own.
Bases ==
    LET grouped == [V2!ModelParams EXCEPT !.df_output_layer = "groupedlinear"]
        ahead(p) == [p EXCEPT !.conv_lookahead = 2, !.df_lookahead = 2]
    IN  {V1!ModelParams, V2!ModelParams, V3!ModelParams, MF!ModelParams,
         ahead(V1!ModelParams), ahead(V3!ModelParams), ahead(MF!ModelParams),
         grouped, [ahead(grouped) EXCEPT !.gru_type = "squeeze"],
         [V1!ModelParams EXCEPT !.dfop_method = "real_hidden_state_loop", !.df_lookahead = 2],
         [V1!ModelParams EXCEPT !.dfop_method = "real_hidden_state_loop", !.df_order = 3, !.df_lookahead = 4]}
MCConfigs == UNION {Changed(q) : q \in UNION {Changed(p) : p \in Bases}}
MCRecordings ==
    {[exists |-> TRUE, len |-> 700, sr |-> 48000, pad |-> TRUE], [exists |-> TRUE, len |-> 2000, sr |-> 48000, pad |-> FALSE],
     [exists |-> TRUE, len |-> 1000, sr |-> 44100, pad |-> TRUE],
     [exists |-> TRUE, len |-> 200, sr |-> 16000, pad |-> FALSE],
     [exists |-> TRUE, len |-> 2999, sr |-> 88200, pad |-> TRUE],
     [exists |-> FALSE, len |-> 0, sr |-> 48000, pad |-> TRUE]}
=============================================================================

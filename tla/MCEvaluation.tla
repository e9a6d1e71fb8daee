---------------------------- MODULE MCEvaluation ----------------------------
(* The calls of the test scripts, with fewer metrics where that makes no   *)
(* difference, and some that share a column or cannot work.                *)
EXTENDS Evaluation

Pairs(metrics, workers, noisy, csvEnh, csvNoisy) ==
    [loop |-> "pairs", metrics |-> metrics, workers |-> workers, noisy |-> noisy,
     csvEnh |-> csvEnh, csvNoisy |-> csvNoisy, even |-> TRUE, outputs |-> 0, bare |-> {}]

\* test_voicebank_demand.py: all combinations of its options; the noisy
\* metrics double the tasks, and get a second worker in one combination only
Voicebank ==
    {Pairs(<<"composite", "sisdr">>, IF noisy /\ ~ (enh /\ csvNoisy) THEN 1 ELSE 2,
           noisy, enh, csvNoisy) :
        noisy \in BOOLEAN, enh \in BOOLEAN, csvNoisy \in BOOLEAN}

\* test_dns_2020.py: three metrics and no tables
Dns2020 == {Pairs(<<"stoi", "composite", "sisdr">>, n, FALSE, FALSE, FALSE) : n \in {0, 1}}

\* test_noisy_dnsmos.py: a pool of threads, no noisy metrics, and one of them
\* with both versions; a length to assert, which is that of v5, or of none
Dns(metrics, enh, outputs) ==
    [Pairs(metrics, 2, FALSE, enh, ~ enh) EXCEPT !.loop = "dns", !.outputs = outputs]
NoisyDnsmos ==
    {Dns(ms, enh, 0) : ms \in {<<"v5">>, <<"v5", "v1">>}, enh \in BOOLEAN}
        \cup {Dns(<<"v5", "v1">>, enh, 4) : enh \in BOOLEAN} \cup {Dns(<<"v5">>, TRUE, 2)}

\* evaluation_loop_dir_only: with and without noisy files, and with a list of
\* another length
Directories ==
    {[Pairs(<<"composite", "sisdr">>, 1, noisy, ~ noisy, noisy) EXCEPT !.loop = "dir", !.even = even] :
        noisy \in BOOLEAN, even \in BOOLEAN}

Others ==
    {Pairs(<<"pesq", "composite">>, 1, FALSE, TRUE, FALSE),
     Pairs(<<"stoi", "dnsmos5">>, 1, FALSE, TRUE, FALSE),
     [Pairs(<<"stoi", "sisdr">>, 1, FALSE, TRUE, FALSE) EXCEPT !.bare = {"sisdr"}]}

MCCalls == Voicebank \cup Dns2020 \cup NoisyDnsmos \cup Directories \cup Others

\* Two files; the second pair may differ by less than a hop or by more, and
\* the network may give infinite samples for one of them.
File(base, noisy) == [base |-> base, clean |-> 1000, enh |-> 1000, noisy |-> noisy, finite |-> TRUE]
MCTestSets ==
    {<<>>, <<File("a", 1000), File("b", 1100)>>, <<File("a", 1000), File("a", 1000)>>,
     <<File("a", 1000), File("b", 1500)>>,
     <<File("a", 1000), [File("b", 1000) EXCEPT !.finite = FALSE]>>,
     <<[File("a", 1000) EXCEPT !.enh = 960], File("b", 1000)>>}
=============================================================================

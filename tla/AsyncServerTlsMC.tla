-------------------------- MODULE AsyncServerTlsMC --------------------------
(***************************************************************************)
(* onClient handlers and PEM texts for model checking AsyncServerTls.      *)
(***************************************************************************)
EXTENDS AsyncServerTls, TLC

Drops == {"keep", "close", "abort", "end"}
Keeps == {"keep"}

Texts == {<<"cert">>, <<"other", "cert", "cert">>, <<"cert", "bad">>, <<"cert", "other", "oom">>,
          <<"empty">>, <<"cert", "cut">>, <<"cut">>}
OneCert == {<<"cert">>}

ServerSymmetry == Permutations(Listeners) \cup Permutations(Conns)

=============================================================================

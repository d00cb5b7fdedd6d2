----------------------------- MODULE MCServing -----------------------------
(* Instances of Serving: two tokens besides the stop token. *)
EXTENDS Serving

CONSTANTS m1, m2

\* A selection that depends on every position and on the models behind them.
MCSample(snapshot) ==
    (1 + MapThenSumSet(LAMBDA i : i * snapshot[i][2] + (IF snapshot[i][1] = m1 THEN 0 ELSE 1),
                       DOMAIN snapshot)) % 3

MCPrompt == {<<0>>, <<1>>, <<0, 1>>, <<0, 1, 1>>}
MCMaxNew == {0, 1, 2}
=============================================================================

------------------------------ MODULE MCHelper ------------------------------
(* Instances of the helper for TLC. *)
EXTENDS HelperProperties, TLC

CONSTANTS v1, v2, v3, d1, d2

Bundle(v, d, verified, runnable) ==
  [version |-> v, digest |-> d, verified |-> verified, runnable |-> runnable]

\* Good bundles, a rebuilt v1, a v2 that holds no runtime, and a broken v3.
MCBundles ==
  {Bundle(v1, d1, TRUE, TRUE), Bundle(v2, d1, TRUE, TRUE), Bundle(v3, d1, TRUE, TRUE),
   Bundle(v1, d2, TRUE, TRUE), Bundle(v2, d2, TRUE, FALSE), Bundle(v3, d2, FALSE, TRUE)}

Host(installed, cur, hist) ==
  [versions |-> [v \in Versions |-> IF v \in installed THEN d1 ELSE NoDigest],
   state |-> [current |-> cur, history |-> hist]]

\* A fresh host, and one on which v1 and then v2 have been installed.
MCHosts == {Host({}, NoVersion, <<>>), Host({v1, v2}, v2, <<v1>>)}

Groups(entry) ==
  [entries : {<<>>} \cup {<<x>> : x \in entry} \cup entry \X entry, extra : BOOLEAN]

\* Every configuration of one event with up to two groups of up to two entries.
MCSamples ==
  LET groups == Groups(Entries) IN
  [Events -> {<<>>} \cup {<<g>> : g \in groups} \cup groups \X groups]

MCContents ==
  {[e \in Events |-> <<[entries |-> <<"mine", "legacy">>, extra |-> FALSE],
                      [entries |-> <<"legacy">>, extra |-> TRUE]>>]}

HelperSymmetry == Permutations(Helpers)
=============================================================================

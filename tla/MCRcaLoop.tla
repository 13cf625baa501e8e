----------------------------- MODULE MCRcaLoop -----------------------------
(* Two of the frozen cases, and what a live executor may return for them.   *)
EXTENDS RcaLoop

Item(id, polarity, about, scope, high, meets, direct) ==
    [id |-> id, polarity |-> polarity, about |-> about, scope |-> scope,
     high |-> high, meets |-> meets, direct |-> direct]

Result(evidence, discriminating, contradiction, full) ==
    [status |-> "executed", evident |-> TRUE, evidence |-> evidence,
     discriminating |-> discriminating, contradiction |-> contradiction,
     attested |-> full, repeated |-> full, operational |-> full]

\* For hypothesis h of case c: a proof, half of one, a severe and a mild
\* contradiction.
Proof(c, h) == Item("proof " \o h, "supports", h, "edge", FALSE, Needs(c, h), TRUE)
Hint(c, h) == Item("hint " \o h, "supports", AnyHyp, "edge", FALSE,
                   {CHOOSE n \in Needs(c, h) : TRUE}, FALSE)
Refutation(h) == Item("refutation " \o h, "contradicts", h, "edge", TRUE, {}, FALSE)
Doubt(h) == Item("doubt " \o h, "contradicts", h, "edge", FALSE, {}, FALSE)
Elsewhere(h) == Item("alien " \o h, "supports", h, "other", FALSE, {}, TRUE)

Nothing == [Result({}, FALSE, FALSE, FALSE) EXCEPT !.evident = FALSE]

\* The case with one hypothesis answers in every way; of the other one proofs,
\* half proofs and contradictions of each hypothesis suffice.
Returned(c) ==
    {Result({Proof(c, h) : h \in Hyps(c)}, TRUE, FALSE, TRUE)}
    \cup UNION {{Result({Hint(c, h)}, FALSE, FALSE, FALSE),
                 Result({Refutation(h)}, FALSE, FALSE, TRUE)} : h \in Hyps(c)}
    \cup IF c = "catalogue_db_podkill" THEN {}
         ELSE {Result({}, FALSE, TRUE, FALSE), Nothing}
              \cup UNION {{Result({Refutation(h), Proof(c, h)}, TRUE, FALSE, TRUE),
                           Result({Doubt(h)}, FALSE, FALSE, FALSE),
                           Result({Elsewhere(h)}, TRUE, FALSE, TRUE)} : h \in Hyps(c)}

ReturnedResults == [c \in Families |-> Returned(c)]

TwoCases == <<"catalogue_db_podkill", "http_abort_propagation">>
Offline == {"frozen_manifest", "captured_window"}
Everything == Offline \cup {"captured_catalogue_logs", "business_oracle_available",
                            "runner_allows_bounded_kill"}
TwoSettings == {Offline, Everything}
=============================================================================

----------------------------- MODULE MCAutofill -----------------------------
(* Autofill on a small instance: see MCAutofill.cfg.  In one behaviour only *)
(* one field is in play, the name or another one, beside the tag; the name, *)
(* whose own rule is about review, takes one value.                         *)
EXTENDS Autofill

InPlay(f) == ~(/\ val[f] = Blank /\ hint[f] = Blank /\ form.val[f] = Blank
               /\ state[f] = "none")
OneField == \A f, g \in Fields : InPlay(f) /\ InPlay(g) => f = g
OneName ==
  Name \in Fields =>
    {val[Name], hint[Name], form.val[Name]} \subseteq {Blank, CHOOSE x \in Values : TRUE}
OneFieldSpec == Init /\ [][Next /\ OneField' /\ OneName']_vars /\ Fairness
=============================================================================
